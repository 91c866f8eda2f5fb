------------------------- MODULE NetworkGuardProofs -------------------------
(***************************************************************************)
(* Proofs about NetworkGuard, for any number of requests and networks, any *)
(* time to live and any delays.                                            *)
(***************************************************************************)
EXTENDS NetworkGuard, TLAPS

-----------------------------------------------------------------------------
\* What the entry says was so when the daemon said it, and it was stored no
\* later than the slowest answer allows.
EntryRecent ==
  entry # None => /\ toldAt <= lastOn[entry]
                  /\ stamp - toldAt <= slowest

\* So it is with each answer a request holds, on its way or arrived.
BasisRecent ==
  \A w \in Workers : basis[w] # None => basisAt[w] <= lastOn[basis[w]]

\* No network is ahead of the clock, and the daemon's own keeps up with it.
OnNow == /\ lastOn[network] = now
         /\ \A n \in Networks : lastOn[n] <= now

GuardInv == GuardTypeOK /\ EntryRecent /\ BasisRecent /\ OnNow

LEMMA GuardInitInv == GuardInit => GuardInv
<1> SUFFICES ASSUME GuardInit PROVE GuardInv
  OBVIOUS
<1>1. GuardTypeOK
  BY NetworksAssumption
  DEF GuardInit, GuardTypeOK, GuardPhases, Judged
<1>2. EntryRecent /\ BasisRecent /\ OnNow
  BY NetworksAssumption DEF GuardInit, EntryRecent, BasisRecent, OnNow
<1> QED
  BY <1>1, <1>2 DEF GuardInv

\* The entry a request is judged by is the one in the map, and still valid.
LEMMA ValidEntry ==
  ASSUME GetFromCache # None
  PROVE  GetFromCache = entry /\ entry # None /\ now - stamp < CacheTtl
BY DEF GetFromCache

LEMMA ValidateInv ==
  ASSUME GuardInv, NEW w \in Workers, NEW n \in Networks, Validate(w, n)
  PROVE  GuardInv'
<1> USE DEF GuardInv
<1>0. UNCHANGED <<now, network, lastOn, entry, stamp, toldAt, slowest>>
  BY DEF Validate, entryVars
<1>1. CASE GetFromCache # None
  <2>0. GetFromCache \in Networks /\ GetFromCache = entry
    BY <1>1, ValidEntry, NetworksAssumption DEF GuardTypeOK
  <2>1. /\ vpc' = [vpc EXCEPT ![w] = Compare(GetFromCache, n)]
        /\ asked' = [asked EXCEPT ![w] = n]
        /\ basis' = [basis EXCEPT ![w] = entry]
        /\ basisAt' = [basisAt EXCEPT ![w] = toldAt]
    BY <1>1, <2>0 DEF Validate
  <2>2. Compare(GetFromCache, n) \in GuardPhases
    BY DEF Compare, GuardPhases, Judged
  <2>3. GuardTypeOK'
    BY <1>0, <2>0, <2>1, <2>2, NetworksAssumption DEF GuardTypeOK
  <2>4. EntryRecent' /\ OnNow'
    BY <1>0 DEF EntryRecent, OnNow
  <2>5. BasisRecent'
    BY <1>0, <2>0, <2>1 DEF BasisRecent, EntryRecent, GuardTypeOK
  <2> QED
    BY <2>3, <2>4, <2>5
<1>2. CASE GetFromCache = None
  <2>1. /\ vpc' = [vpc EXCEPT ![w] = "asking"]
        /\ asked' = [asked EXCEPT ![w] = n]
        /\ basis' = basis /\ basisAt' = basisAt
    BY <1>2 DEF Validate
  <2>2. GuardTypeOK'
    BY <1>0, <2>1, NetworksAssumption DEF GuardTypeOK, GuardPhases, Judged
  <2>3. EntryRecent' /\ OnNow' /\ BasisRecent'
    BY <1>0, <2>1 DEF EntryRecent, OnNow, BasisRecent
  <2> QED
    BY <2>2, <2>3
<1> QED
  BY <1>1, <1>2

LEMMA DaemonTellsInv ==
  ASSUME GuardInv, NEW w \in Workers, DaemonTells(w)
  PROVE  GuardInv'
<1> USE DEF GuardInv
<1>1. GuardTypeOK'
  BY NetworksAssumption DEF DaemonTells, entryVars, GuardTypeOK, GuardPhases, Judged
<1>2. EntryRecent' /\ OnNow'
  BY DEF DaemonTells, entryVars, EntryRecent, OnNow
<1>3. BasisRecent'
  BY DEF DaemonTells, entryVars, BasisRecent, OnNow, GuardTypeOK
<1> QED
  BY <1>1, <1>2, <1>3

LEMMA StoreInv ==
  ASSUME GuardInv, NEW w \in Workers, Store(w)
  PROVE  GuardInv'
<1> USE DEF GuardInv
<1>0. /\ basis[w] \in Networks /\ basisAt[w] \in Nat
      /\ basisAt[w] <= now /\ now \in Nat
      /\ basisAt[w] <= lastOn[basis[w]]
  BY NetworksAssumption DEF Store, GuardTypeOK, BasisRecent, GuardPhases, Judged
<1>1. slowest' \in Nat /\ now - basisAt[w] <= slowest'
  BY <1>0 DEF Store, GuardTypeOK
<1>2. GuardTypeOK'
  <2>1. Compare(basis[w], asked[w]) \in GuardPhases
    BY DEF Compare, GuardPhases, Judged
  <2> QED
    BY <1>0, <1>1, <2>1, NetworksAssumption DEF Store, GuardTypeOK
<1>3. EntryRecent'
  BY <1>0, <1>1 DEF Store, EntryRecent
<1>4. BasisRecent' /\ OnNow'
  BY DEF Store, BasisRecent, OnNow
<1> QED
  BY <1>2, <1>3, <1>4

LEMMA ForgetInv ==
  ASSUME GuardInv, NEW w \in Workers, Forget(w)
  PROVE  GuardInv'
<1> USE DEF GuardInv
<1>1. GuardTypeOK'
  BY NetworksAssumption DEF Forget, entryVars, GuardTypeOK, GuardPhases, Judged
<1>2. EntryRecent' /\ OnNow'
  BY DEF Forget, entryVars, EntryRecent, OnNow
<1>3. BasisRecent'
  BY DEF Forget, BasisRecent, GuardTypeOK
<1> QED
  BY <1>1, <1>2, <1>3

\* Time and a switch of the daemon only ever raise lastOn.
LEMMA WorldRises ==
  ASSUME GuardInv, (\E n \in Networks : Switch(n)) \/ GuardTick
  PROVE  /\ lastOn' \in [Networks -> Nat]
         /\ \A n \in Networks : lastOn[n] <= lastOn'[n]
         /\ network' \in Networks /\ now' \in Nat /\ now <= now'
         /\ OnNow'
         /\ UNCHANGED <<entry, stamp, toldAt, vpc, asked, basis, basisAt, slowest>>
<1> USE DEF GuardInv
<1>1. ASSUME NEW n \in Networks, Switch(n)
      PROVE  /\ lastOn' \in [Networks -> Nat]
             /\ \A m \in Networks : lastOn[m] <= lastOn'[m]
             /\ network' \in Networks /\ now' \in Nat /\ now <= now'
             /\ OnNow'
             /\ UNCHANGED <<entry, stamp, toldAt, vpc, asked, basis, basisAt, slowest>>
  BY <1>1 DEF Switch, GuardTypeOK, OnNow, entryVars, requestVars
<1>2. ASSUME GuardTick
      PROVE  /\ lastOn' \in [Networks -> Nat]
             /\ \A m \in Networks : lastOn[m] <= lastOn'[m]
             /\ network' \in Networks /\ now' \in Nat /\ now <= now'
             /\ OnNow'
             /\ UNCHANGED <<entry, stamp, toldAt, vpc, asked, basis, basisAt, slowest>>
  BY <1>2 DEF GuardTick, GuardTypeOK, OnNow, entryVars, requestVars
<1> QED
  BY <1>1, <1>2

LEMMA WorldInv ==
  ASSUME GuardInv, (\E n \in Networks : Switch(n)) \/ GuardTick
  PROVE  GuardInv'
<1> USE DEF GuardInv
<1>0. /\ lastOn' \in [Networks -> Nat]
      /\ \A n \in Networks : lastOn[n] <= lastOn'[n]
      /\ network' \in Networks /\ now' \in Nat /\ now <= now'
      /\ OnNow'
      /\ UNCHANGED <<entry, stamp, toldAt, vpc, asked, basis, basisAt, slowest>>
  BY WorldRises
<1>1. GuardTypeOK'
  <2>1. \A a, b, c \in Nat : a <= b /\ b <= c => a <= c
    OBVIOUS
  <2>2. stamp' <= now' /\ \A w \in Workers : basisAt'[w] <= now'
    BY <1>0, <2>1 DEF GuardTypeOK
  <2> QED
    BY <1>0, <2>2 DEF GuardTypeOK
<1>2. EntryRecent'
  BY <1>0 DEF EntryRecent, GuardTypeOK
<1>3. BasisRecent'
  BY <1>0 DEF BasisRecent, GuardTypeOK
<1> QED
  BY <1>0, <1>1, <1>2, <1>3

THEOREM GuardInvariant == GuardSpec => []GuardInv
<1>1. GuardInv /\ [GuardNext]_guardVars => GuardInv'
  <2> SUFFICES ASSUME GuardInv, [GuardNext]_guardVars PROVE GuardInv'
    OBVIOUS
  <2>1. ASSUME NEW w \in Workers, NEW n \in Networks, Validate(w, n)
        PROVE  GuardInv'
    BY <2>1, ValidateInv
  <2>2. ASSUME NEW w \in Workers, DaemonTells(w) PROVE GuardInv'
    BY <2>2, DaemonTellsInv
  <2>3. ASSUME NEW w \in Workers, Store(w) PROVE GuardInv'
    BY <2>3, StoreInv
  <2>4. ASSUME NEW w \in Workers, QueryFails(w) \/ Return(w) PROVE GuardInv'
    BY <2>4, ForgetInv DEF QueryFails, Return
  <2>5. CASE (\E n \in Networks : Switch(n)) \/ GuardTick
    BY <2>5, WorldInv
  <2>6. CASE UNCHANGED guardVars
    BY <2>6 DEF guardVars, entryVars, requestVars, GuardInv, GuardTypeOK,
                EntryRecent, BasisRecent, OnNow
  <2> QED
    BY <2>1, <2>2, <2>3, <2>4, <2>5, <2>6 DEF GuardNext
<1> QED
  BY <1>1, GuardInitInv, PTL DEF GuardSpec

-----------------------------------------------------------------------------
\* validate_network's variables keep their types; nothing is judged without
\* an answer to judge it by.
THEOREM GuardTypeCorrect == GuardSpec => []GuardTypeOK
BY GuardInvariant, PTL DEF GuardInv

\* Every judgement rests on what the daemon said at most cache_ttl and the
\* longest delay ago, however queries overlap.
THEOREM GuardAnswerRecent == GuardSpec => AnswerRecent
<1> DEFINE Recent == \A w \in Workers :
             vpc[w] \notin Judged /\ vpc'[w] \in Judged
               => now - lastOn[basis'[w]] <= CacheTtl + slowest'
<1>1. GuardInv /\ [GuardNext]_guardVars => [Recent]_guardVars
  <2> SUFFICES ASSUME GuardInv, GuardNext,
                      NEW w \in Workers, vpc[w] \notin Judged, vpc'[w] \in Judged
               PROVE  now - lastOn[basis'[w]] <= CacheTtl + slowest'
    OBVIOUS
  <2> USE DEF GuardInv
  <2>1. (\E n \in Networks : Validate(w, n)) \/ Store(w)
    <3>1. ASSUME NEW v \in Workers, NEW n \in Networks, Validate(v, n)
          PROVE  v = w
      BY <3>1 DEF Validate, GuardTypeOK
    <3>2. ASSUME NEW v \in Workers, Store(v) PROVE v = w
      BY <3>2 DEF Store, GuardTypeOK
    <3>3. ASSUME NEW v \in Workers, DaemonTells(v) \/ QueryFails(v) \/ Return(v)
          PROVE  FALSE
      BY <3>3 DEF DaemonTells, QueryFails, Return, Forget, GuardTypeOK, Judged
    <3>4. ~ GuardTick /\ \A n \in Networks : ~ Switch(n)
      BY DEF GuardTick, Switch, requestVars
    <3> QED
      BY <3>1, <3>2, <3>3, <3>4 DEF GuardNext
  <2>2. ASSUME NEW n \in Networks, Validate(w, n)
        PROVE  now - lastOn[basis'[w]] <= CacheTtl + slowest'
    <3>1. GetFromCache # None
      BY <2>2 DEF Validate, GuardTypeOK, Judged
    <3>2. GetFromCache = entry /\ entry # None /\ now - stamp < CacheTtl
      BY <3>1, ValidEntry
    <3>3. basis'[w] = entry /\ slowest' = slowest
      BY <2>2, <3>1, <3>2 DEF Validate, GuardTypeOK
    <3>4. entry \in Networks
      BY <3>2 DEF GuardTypeOK
    <3>5. \A a, b, c, d, e, f \in Nat :
            a - b < c /\ d <= e /\ b - d <= f => a - e <= c + f
      OBVIOUS
    <3> QED
      BY <3>2, <3>3, <3>4, <3>5, TtlAssumption DEF EntryRecent, GuardTypeOK
  <2>3. ASSUME Store(w)
        PROVE  now - lastOn[basis'[w]] <= CacheTtl + slowest'
    <3>1. /\ basis[w] \in Networks /\ basis' = basis
          /\ basisAt[w] <= lastOn[basis[w]]
      BY <2>3, NetworksAssumption
      DEF Store, GuardTypeOK, BasisRecent
    <3>2. slowest' \in Nat /\ now - basisAt[w] <= slowest'
      BY <2>3 DEF Store, GuardTypeOK
    <3>3. \A a, b, c, d, e \in Nat : b <= c /\ a - b <= d => a - c <= e + d
      OBVIOUS
    <3> QED
      BY <3>1, <3>2, <3>3, TtlAssumption DEF GuardTypeOK
  <2> QED
    BY <2>1, <2>2, <2>3
<1> QED
  BY <1>1, GuardInvariant, PTL DEF GuardSpec, AnswerRecent
=============================================================================
