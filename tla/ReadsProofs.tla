---------------------------- MODULE ReadsProofs ----------------------------
(***************************************************************************)
(* Proofs about /block and /account/balance, for every tree of blocks,     *)
(* every K, every account and every range of amounts: first the blocks of  *)
(* the archive and the invariant the archiver keeps, then the requests.    *)
(***************************************************************************)
EXTENDS Reads, WellFoundedInduction, TLAPS

-----------------------------------------------------------------------------
\* A set of numbers has a least one.
LEMMA LeastNumber ==
  ASSUME NEW S \in SUBSET Nat, S # {}
  PROVE  \E n \in S : \A m \in S : n <= m
<1>1. PICK n \in S : \A m \in S : <<m, n>> \notin OpToRel(<, Nat)
  BY NatLessThanWellFounded, WFMin
<1>2. \A m \in S : ~ (m < n)
  BY <1>1 DEF OpToRel
<1> QED
  BY <1>2

\* Blocks of bounded height have highest ones among them.
LEMMA TopsExist ==
  ASSUME NEW S \in SUBSET Blocks, S # {},
         NEW N \in Nat, \A b \in S : Height[b] <= N
  PROVE  Tops(S) # {}
<1> DEFINE D == {N - Height[b] : b \in S}
<1>1. D \in SUBSET Nat /\ D # {}
  BY TreeAssumption
<1>2. PICK n \in D : \A m \in D : n <= m
  BY <1>1, LeastNumber
<1>3. PICK b \in S : n = N - Height[b]
  BY <1>2
<1>4. \A c \in S : N - Height[b] <= N - Height[c]
  BY <1>2, <1>3
<1>5. \A c \in S : Height[c] <= Height[b]
  BY <1>4, TreeAssumption
<1> QED
  BY <1>5 DEF Tops

\* A set of blocks has one of least rank.
LEMMA LeastRank ==
  ASSUME NEW S \in SUBSET Blocks, S # {}
  PROVE  \E b \in S : \A c \in S : Rank[b] <= Rank[c]
<1> DEFINE D == {Rank[b] : b \in S}
<1>1. D \in SUBSET Nat /\ D # {}
  BY RankAssumption
<1>2. PICK n \in D : \A m \in D : n <= m
  BY <1>1, LeastNumber
<1> QED
  BY <1>2

-----------------------------------------------------------------------------
\* A block on a line is as high as the line's block of that height.
LEMMA SameHeight ==
  ASSUME NEW b \in Blocks, NEW c \in Line[b], NEW d \in Line[b],
         Height[c] = Height[d]
  PROVE  c = d
BY TreeAssumption

LEMMA LineFacts ==
  ASSUME NEW b \in Blocks
  PROVE  /\ Line[b] \subseteq Blocks
         /\ b \in Line[b] /\ Genesis \in Line[b]
         /\ \A c \in Line[b] : /\ Height[Genesis] <= Height[c]
                               /\ Height[c] <= Height[b]
                               /\ Line[c] = {d \in Line[b] : Height[d] <= Height[c]}
         /\ \A h \in Height[Genesis]..Height[b] : \E c \in Line[b] : Height[c] = h
BY TreeAssumption

\* Every block but the first has a parent, one lower on the same line.
LEMMA ParentFacts ==
  ASSUME NEW b \in Blocks, b # Genesis
  PROVE  /\ Parent(b) \in Line[b]
         /\ Height[Parent(b)] = Height[b] - 1
         /\ Line[b] = Line[Parent(b)] \cup {b}
<1>1. Height[Genesis] < Height[b]
  <2>1. Height[Genesis] <= Height[b] /\ Height[Genesis] # Height[b]
    BY LineFacts, SameHeight
  <2> QED
    BY <2>1, TreeAssumption
<1>2. Height[b] - 1 \in Height[Genesis]..Height[b]
  BY <1>1, TreeAssumption
<1>3. \E c \in Line[b] : Height[c] = Height[b] - 1
  BY <1>2, LineFacts
<1>4. Parent(b) \in Line[b] /\ Height[Parent(b)] = Height[b] - 1
  BY <1>3 DEF Parent
<1>5. Line[Parent(b)] = {d \in Line[b] : Height[d] <= Height[b] - 1}
  BY <1>4, LineFacts
<1>6. ASSUME NEW d \in Line[b], d # b
      PROVE  Height[d] <= Height[b] - 1
  <2>1. Height[d] <= Height[b] /\ Height[d] # Height[b] /\ d \in Blocks
    BY <1>6, LineFacts, SameHeight
  <2> QED
    BY <2>1, TreeAssumption
<1> QED
  BY <1>4, <1>5, <1>6, LineFacts

-----------------------------------------------------------------------------
\* How the archive is once a block has arrived, t being the last one settled.
SettledTo(t) ==
  /\ Canonical = Line[t]
  /\ \A b \in Stored : Line[b] \subseteq Stored
  /\ \A b \in Stored : Height[b] <= Height[t] + K
  /\ \A b \in Stored : t \notin Line[b] => Height[b] < Height[t] + K
  /\ t = Genesis \/ \E b \in Stored : Height[b] = Height[t] + K
  /\ \A b \in Blocks : status[b] = "orphaned" => Height[b] <= Height[t]

ArchiveInv ==
  /\ ArchiveTypeOK
  /\ Stored = {} \/ \E t \in Blocks : SettledTo(t)

LEMMA TopOfLine ==
  ASSUME NEW t \in Blocks
  PROVE  Tops(Line[t]) = {t}
<1>1. t \in Tops(Line[t])
  BY LineFacts DEF Tops
<1>2. ASSUME NEW b \in Tops(Line[t]) PROVE b = t
  <2>1. b \in Line[t] /\ Height[t] <= Height[b] /\ Height[b] <= Height[t]
    BY <1>2, LineFacts DEF Tops
  <2>2. Height[b] = Height[t]
    BY <2>1, LineFacts, TreeAssumption
  <2> QED
    BY <2>1, <2>2, LineFacts, SameHeight
<1> QED
  BY <1>1, <1>2

\* The canonical tip, and so max_canonical_height, is the t of SettledTo.
LEMMA TipIs ==
  ASSUME NEW t \in Blocks, Canonical = Line[t]
  PROVE  CanonicalTip = t /\ MaxCanonicalHeight = Height[t]
BY TopOfLine DEF CanonicalTip, MaxCanonicalHeight

LEMMA TipBecomes ==
  ASSUME NEW t \in Blocks, Canonical' = Line[t]
  PROVE  MaxCanonicalHeight' = Height[t] /\ Canonical' # {}
<1>1. CanonicalTip' = t
  BY TopOfLine DEF CanonicalTip
<1> QED
  BY <1>1, LineFacts DEF MaxCanonicalHeight

\* The best block is a highest one, and descends from the canonical tip.
LEMMA BestDescends ==
  ASSUME NEW t \in Blocks, SettledTo(t), Stored # {}
  PROVE  Best \in Stored /\ t \in Line[Best]
<1>1. Tops(Stored) # {}
  <2>1. Height[t] + K \in Nat
    BY TreeAssumption, KAssumption
  <2> QED
    BY <2>1, TopsExist DEF SettledTo, Stored
<1>2. Best \in Tops(Stored)
  <2>1. \E b \in Tops(Stored) : \A c \in Tops(Stored) : Rank[b] <= Rank[c]
    BY <1>1, LeastRank DEF Tops, Stored
  <2> QED
    BY <2>1 DEF Best
<1>3. Best \in Stored /\ \A b \in Stored : Height[b] <= Height[Best]
  BY <1>2 DEF Tops
<1>4. CASE t = Genesis
  BY <1>3, <1>4, LineFacts DEF Stored
<1>5. CASE t # Genesis
  <2>1. PICK b \in Stored : Height[b] = Height[t] + K
    BY <1>5 DEF SettledTo
  <2>2. Height[t] + K <= Height[Best]
    BY <1>3, <2>1
  <2>3. ~ (Height[Best] < Height[t] + K)
    BY <2>2, <1>3, TreeAssumption, KAssumption DEF Stored
  <2> QED
    BY <1>3, <2>3 DEF SettledTo
<1> QED
  BY <1>3, <1>4, <1>5

\* Along the best chain, query_pending goes down to the canonical tip.
LEMMA PendingChainIs ==
  ASSUME NEW t \in Blocks, SettledTo(t), Stored # {}
  PROVE  PendingChain = {b \in Line[Best] : Height[t] <= Height[b]}
<1>1. Best \in Blocks /\ t \in Line[Best]
  BY BestDescends DEF Stored
<1>2. Line[t] = {d \in Line[Best] : Height[d] <= Height[t]}
  BY <1>1, LineFacts
<1>3. \A c \in Line[Best] : status[c] = "canonical" <=> Height[c] <= Height[t]
  BY <1>1, <1>2, LineFacts DEF SettledTo, Canonical
<1>4. ASSUME NEW b \in Line[Best]
      PROVE  (\A c \in Line[Best] : Height[c] > Height[b] => status[c] # "canonical")
               <=> Height[t] <= Height[b]
  <2>1. \A c \in Line[Best] : Height[c] \in Nat
    BY <1>1, LineFacts, TreeAssumption
  <2>2. t \in Line[Best] /\ status[t] = "canonical"
    BY <1>1, <1>3, TreeAssumption
  <2> QED
    BY <1>3, <1>4, <2>1, <2>2
<1> QED
  BY <1>4 DEF PendingChain

-----------------------------------------------------------------------------
LEMMA ArchiveInitInv == ArchiveInit => ArchiveInv
BY DEF ArchiveInit, ArchiveInv, ArchiveTypeOK, Statuses, Stored

LEMMA ArriveGenesis ==
  ASSUME ArchiveInv, Arrive(Genesis)
  PROVE  ArchiveInv'
<1>1. status[Genesis] = "absent"
  BY DEF Arrive
<1>2. Stored = {}
  <2>1. ASSUME NEW t \in Blocks, SettledTo(t) PROVE FALSE
    <3>1. Genesis \in Canonical
      BY <2>1, LineFacts DEF SettledTo
    <3> QED
      BY <3>1, <1>1 DEF Canonical
  <2> QED
    BY <2>1 DEF ArchiveInv
<1>3. status' = [c \in Blocks |-> IF c = Genesis THEN "canonical" ELSE "absent"]
  BY <1>2 DEF Arrive, StatusAfter, Stored
<1>4. Stored' = {Genesis} /\ Canonical' = {Genesis}
  BY <1>3, TreeAssumption DEF Stored, Canonical
<1>5. Line[Genesis] = {Genesis}
  <2>1. ASSUME NEW b \in Line[Genesis] PROVE b = Genesis
    <3>1. Height[Genesis] <= Height[b] /\ Height[b] <= Height[Genesis]
          /\ b \in Blocks /\ Genesis \in Line[Genesis]
      BY LineFacts, TreeAssumption
    <3>2. Height[b] = Height[Genesis]
      BY <3>1, TreeAssumption
    <3> QED
      BY <3>1, <3>2, SameHeight, TreeAssumption
  <2> QED
    BY <2>1, TreeAssumption
<1>6. SettledTo(Genesis)'
  BY <1>3, <1>4, <1>5, TreeAssumption, KAssumption DEF SettledTo
<1> QED
  BY <1>3, <1>6, TreeAssumption DEF ArchiveInv, ArchiveTypeOK, Statuses

\* A block that arrives goes one above the blocks stored at most.
LEMMA ArriveFacts ==
  ASSUME NEW t \in Blocks, SettledTo(t), NEW b \in Blocks, b # Genesis, Arrive(b)
  PROVE  /\ MaxCanonicalHeight = Height[t]
         /\ b \notin Stored
         /\ Parent(b) \in Stored
         /\ Height[b] <= Height[t] + K + 1
         /\ Line[b] \subseteq Stored \cup {b}
         /\ Height[b] <= Height[t] \/ t \in Line[b]
<1>1. MaxCanonicalHeight = Height[t]
  BY TipIs DEF SettledTo
<1>2. b \notin Stored /\ Parent(b) \in Stored
  BY DEF Arrive, Stored
<1>3. Height[b] - 1 <= Height[t] + K
  BY <1>2, ParentFacts DEF SettledTo
<1>4. Height[b] <= Height[t] + K + 1
  BY <1>3, TreeAssumption, KAssumption
<1>5. Line[b] \subseteq Stored \cup {b}
  BY <1>2, ParentFacts DEF SettledTo
<1>6. Height[b] <= Height[t] \/ t \in Line[b]
  BY <1>1, LineFacts DEF Arrive, SettledTo
<1> QED
  BY <1>1, <1>2, <1>4, <1>5, <1>6

\* It settles nothing, or the one height above the canonical tip.
LEMMA ArriveUnsettled ==
  ASSUME ArchiveTypeOK, NEW t \in Blocks, SettledTo(t),
         NEW b \in Blocks, b # Genesis, Arrive(b), Height[b] <= Height[t] + K
  PROVE  ArchiveTypeOK' /\ SettledTo(t)'
<1>0. /\ MaxCanonicalHeight = Height[t] /\ b \notin Stored
      /\ Line[b] \subseteq Stored \cup {b}
      /\ Height[b] <= Height[t] \/ t \in Line[b]
  BY ArriveFacts
<1>1. \A c \in Blocks : ~ (Height[t] < Height[c] /\ Height[c] + K <= Height[b])
  BY TreeAssumption, KAssumption
<1>2. status' = [status EXCEPT ![b] = "pending"]
  <2>1. status' = [c \in Blocks |-> IF c = b THEN "pending" ELSE status[c]]
    BY <1>0, <1>1 DEF Arrive, StatusAfter
  <2> QED
    BY <2>1 DEF ArchiveTypeOK
<1>3. Stored' = Stored \cup {b} /\ Canonical' = Canonical
  <2>1. status[b] = "absent"
    BY DEF Arrive
  <2> QED
    BY <1>2, <2>1 DEF Stored, Canonical, ArchiveTypeOK
<1>4. t \notin Line[b] => Height[b] < Height[t] + K
  BY <1>0, TreeAssumption, KAssumption
<1>5. \A c \in Blocks : status'[c] = "orphaned" => Height[c] <= Height[t]
  BY <1>2 DEF SettledTo, ArchiveTypeOK
<1>6. SettledTo(t)'
  BY <1>0, <1>3, <1>4, <1>5 DEF SettledTo
<1> QED
  BY <1>2, <1>6 DEF ArchiveTypeOK, Statuses

LEMMA ArriveSettles ==
  ASSUME ArchiveTypeOK, NEW t \in Blocks, SettledTo(t),
         NEW b \in Blocks, b # Genesis, Arrive(b), Height[b] > Height[t] + K
  PROVE  /\ ArchiveTypeOK'
         /\ \E u \in Line[b] : Height[u] = Height[t] + 1 /\ SettledTo(u)'
<1>0. /\ MaxCanonicalHeight = Height[t] /\ b \notin Stored
      /\ Height[b] <= Height[t] + K + 1
      /\ Line[b] \subseteq Stored \cup {b}
      /\ Height[b] <= Height[t] \/ t \in Line[b]
  BY ArriveFacts
<1>1. Height[b] = Height[t] + K + 1 /\ t \in Line[b]
  <2>1. Height[b] \in Nat /\ Height[t] \in Nat /\ K \in Nat
    BY TreeAssumption, KAssumption
  <2>2. ~ (Height[b] <= Height[t])
    BY <2>1
  <2>3. Height[b] = Height[t] + K + 1
    BY <1>0, <2>1
  <2> QED
    BY <1>0, <2>2, <2>3
<1>2. PICK u \in Line[b] : Height[u] = Height[t] + 1
  <2>1. Height[t] + 1 \in Height[Genesis]..Height[b]
    BY <1>1, LineFacts, TreeAssumption, KAssumption
  <2> QED
    BY <2>1, LineFacts
<1>3. u \in Blocks /\ u # b
  BY <1>1, <1>2, TreeAssumption, KAssumption
<1>4. \A c \in Blocks :
        Height[t] < Height[c] /\ Height[c] + K <= Height[b]
          <=> Height[c] = Height[t] + 1
  BY <1>1, TreeAssumption, KAssumption
<1>5. status' = [c \in Blocks |->
                   IF c # b /\ status[c] = "absent" THEN "absent"
                   ELSE IF Height[c] = Height[t] + 1
                        THEN IF c \in Line[b] THEN "canonical" ELSE "orphaned"
                   ELSE IF c = b THEN "pending" ELSE status[c]]
  BY <1>0, <1>4 DEF Arrive, StatusAfter
<1>6. Stored' = Stored \cup {b}
  BY <1>5 DEF Stored, ArchiveTypeOK
<1>7. Line[u] = Line[t] \cup {u}
  <2>1. Line[u] = {d \in Line[b] : Height[d] <= Height[t] + 1}
    BY <1>2, LineFacts
  <2>2. Line[t] = {d \in Line[b] : Height[d] <= Height[t]}
    BY <1>1, LineFacts
  <2>3. \A d \in Line[b] : Height[d] = Height[t] + 1 => d = u
    BY <1>2, SameHeight
  <2>4. \A d \in Line[b] : Height[d] <= Height[t] + 1
                             <=> Height[d] <= Height[t] \/ Height[d] = Height[t] + 1
    BY LineFacts, TreeAssumption
  <2> QED
    BY <1>2, <2>1, <2>2, <2>3, <2>4
<1>8. Canonical' = Line[u]
  <2>1. \A c \in Canonical : Height[c] <= Height[t] /\ c # b
    BY <1>0, LineFacts DEF SettledTo, Canonical, Stored
  <2>2. \A c \in Canonical : c \in Canonical'
    <3>1. \A c \in Canonical : Height[c] # Height[t] + 1
      BY <2>1, TreeAssumption DEF Canonical
    <3> QED
      BY <1>5, <2>1, <3>1 DEF Canonical
  <2>3. u \in Canonical'
    <3>1. u \in Stored
      BY <1>0, <1>2, <1>3
    <3> QED
      BY <1>2, <1>3, <1>5, <3>1 DEF Canonical, Stored
  <2>4. ASSUME NEW c \in Canonical' PROVE c \in Canonical \cup {u}
    <3>1. CASE Height[c] = Height[t] + 1
      <4>1. c \in Line[b]
        BY <1>5, <2>4, <3>1 DEF Canonical
      <4> QED
        BY <1>2, <3>1, <4>1, SameHeight
    <3>2. CASE Height[c] # Height[t] + 1
      BY <1>5, <2>4, <3>2 DEF Canonical
    <3> QED
      BY <3>1, <3>2
  <2>5. Canonical' = Canonical \cup {u}
    BY <2>2, <2>3, <2>4
  <2> QED
    BY <1>7, <2>5 DEF SettledTo
<1>9. \A c \in Stored' : Height[c] <= Height[u] + K
  <2>1. \A c \in Stored : Height[c] <= Height[t] + K
    BY DEF SettledTo
  <2> QED
    BY <1>1, <1>2, <1>6, <2>1, TreeAssumption, KAssumption DEF Stored
<1>10. \A c \in Stored' : u \notin Line[c] => Height[c] < Height[u] + K
  <2>1. \A c \in Stored : Height[c] <= Height[t] + K
    BY DEF SettledTo
  <2>2. \A c \in Stored : Height[c] < Height[u] + K
    BY <1>2, <2>1, TreeAssumption, KAssumption DEF Stored
  <2> QED
    BY <1>2, <1>6, <2>2
<1>11. Height[b] = Height[u] + K
  BY <1>1, <1>2, TreeAssumption, KAssumption
<1>12. \A c \in Stored' : Line[c] \subseteq Stored'
  BY <1>0, <1>6 DEF SettledTo
<1>13. \A c \in Blocks : status'[c] = "orphaned" => Height[c] <= Height[u]
  <2>1. \A c \in Blocks : status[c] = "orphaned" => Height[c] <= Height[t]
    BY DEF SettledTo
  <2>2. \A c \in Blocks : status'[c] = "orphaned" =>
          status[c] = "orphaned" \/ Height[c] = Height[t] + 1
    BY <1>5
  <2> QED
    BY <1>2, <2>1, <2>2, TreeAssumption
<1>14. SettledTo(u)'
  BY <1>6, <1>8, <1>9, <1>10, <1>11, <1>12, <1>13 DEF SettledTo
<1>15. ArchiveTypeOK'
  BY <1>5 DEF ArchiveTypeOK, Statuses
<1> QED
  BY <1>2, <1>14, <1>15

\* The archiver keeps the invariant, and the settled height only rises.
LEMMA ArriveInv ==
  ASSUME ArchiveInv, NEW b \in Blocks, Arrive(b)
  PROVE  ArchiveInv'
<1>1. CASE b = Genesis
  BY <1>1, ArriveGenesis
<1>2. CASE b # Genesis
  <2>1. PICK t \in Blocks : SettledTo(t)
    BY <1>2 DEF Arrive, ArchiveInv
  <2>2. CASE Height[b] <= Height[t] + K
    BY <1>2, <2>1, <2>2, ArriveUnsettled DEF ArchiveInv
  <2>3. CASE Height[b] > Height[t] + K
    <3>1. PICK u \in Line[b] : SettledTo(u)'
      BY <1>2, <2>1, <2>3, ArriveSettles DEF ArchiveInv
    <3>2. u \in Blocks
      BY LineFacts
    <3> QED
      BY <1>2, <2>1, <2>3, <3>1, <3>2, ArriveSettles DEF ArchiveInv
  <2> QED
    BY <2>2, <2>3, TreeAssumption, KAssumption
<1> QED
  BY <1>1, <1>2

LEMMA SettledRises ==
  ASSUME ArchiveInv, NEW b \in Blocks, Arrive(b), Canonical # {}
  PROVE  /\ Canonical' # {}
         /\ MaxCanonicalHeight \in Nat /\ MaxCanonicalHeight' \in Nat
         /\ MaxCanonicalHeight <= MaxCanonicalHeight'
<1>1. PICK t \in Blocks : SettledTo(t)
  <2>1. Stored # {}
    BY DEF Stored, Canonical
  <2> QED
    BY <2>1 DEF ArchiveInv
<1>2. b # Genesis
  <2>1. Genesis \in Canonical
    BY <1>1, LineFacts DEF SettledTo
  <2> QED
    BY <2>1 DEF Arrive, Canonical
<1>3. MaxCanonicalHeight = Height[t] /\ Height[t] \in Nat
  BY <1>1, TipIs, TreeAssumption DEF SettledTo
<1>4. CASE Height[b] <= Height[t] + K
  <2>1. SettledTo(t)'
    BY <1>1, <1>2, <1>4, ArriveUnsettled DEF ArchiveInv
  <2>2. Canonical' = Line[t]
    BY <2>1 DEF SettledTo
  <2>3. MaxCanonicalHeight' = Height[t] /\ Canonical' # {}
    BY <2>2, TipBecomes
  <2> QED
    BY <1>3, <2>3
<1>5. CASE Height[b] > Height[t] + K
  <2>1. PICK u \in Line[b] : Height[u] = Height[t] + 1 /\ SettledTo(u)'
    BY <1>1, <1>2, <1>5, ArriveSettles DEF ArchiveInv
  <2>2. Canonical' = Line[u] /\ u \in Blocks
    BY <2>1, LineFacts DEF SettledTo
  <2>3. MaxCanonicalHeight' = Height[u] /\ Canonical' # {}
    BY <2>2, TipBecomes
  <2> QED
    BY <1>3, <2>1, <2>3
<1> QED
  BY <1>3, <1>4, <1>5, TreeAssumption, KAssumption

\* What is canonical stays so.
LEMMA CanonicalStays ==
  ASSUME ArchiveInv, NEW b \in Blocks, Arrive(b)
  PROVE  Canonical \subseteq Canonical'
<1>1. CASE b = Genesis
  <2>1. \A c \in Canonical : c # Genesis => FALSE
    <3>1. ASSUME NEW t \in Blocks, SettledTo(t) PROVE FALSE
      <4>1. Genesis \in Canonical
        BY <3>1, LineFacts DEF SettledTo
      <4> QED
        BY <1>1, <4>1 DEF Canonical, Arrive
    <3> QED
      BY <3>1 DEF ArchiveInv, Canonical, Stored
  <2> QED
    BY <1>1, <2>1 DEF Arrive, StatusAfter, Canonical
<1>2. CASE b # Genesis
  <2>1. PICK t \in Blocks : SettledTo(t)
    BY <1>2 DEF Arrive, ArchiveInv
  <2>2. MaxCanonicalHeight = Height[t]
    BY <2>1, TipIs DEF SettledTo
  <2>3. ASSUME NEW c \in Canonical PROVE c \in Canonical'
    <3>1. Height[c] <= Height[t] /\ c \in Blocks /\ status[c] = "canonical"
      BY <2>1, <2>3, LineFacts DEF SettledTo, Canonical
    <3>2. ~ (MaxCanonicalHeight < Height[c]) /\ c # b
      BY <2>2, <3>1, TreeAssumption DEF Arrive
    <3>3. status'[c] = "canonical"
      BY <1>2, <3>1, <3>2 DEF Arrive, StatusAfter
    <3> QED
      BY <3>1, <3>3 DEF Canonical
  <2> QED
    BY <2>3
<1> QED
  BY <1>1, <1>2

\* A visible block is canonical, or pending above the canonical tip.
LEMMA VisibleIs ==
  ASSUME ArchiveTypeOK, NEW t \in Blocks, SettledTo(t)
  PROVE  /\ Visible = {b \in Blocks : \/ status[b] = "canonical"
                                      \/ status[b] = "pending" /\ Height[t] < Height[b]}
         /\ \A b \in Stored : Height[t] < Height[b] => b \in Visible
         /\ t \in Visible
<1>1. MaxCanonicalHeight = Height[t] /\ t \in Canonical
  BY TipIs, LineFacts DEF SettledTo
<1>2. Visible = {b \in Blocks : \/ status[b] = "canonical"
                                \/ status[b] = "pending" /\ Height[t] < Height[b]}
  BY <1>1, TreeAssumption DEF Visible, Canonical
<1>3. ASSUME NEW b \in Stored, Height[t] < Height[b]
      PROVE  b \in Visible
  <2>1. status[b] # "orphaned"
    BY <1>3, TreeAssumption DEF SettledTo, Stored
  <2>2. status[b] \in {"pending", "canonical"}
    BY <2>1 DEF ArchiveTypeOK, Statuses, Stored
  <2> QED
    BY <1>2, <1>3, <2>2 DEF Stored
<1> QED
  BY <1>1, <1>2, <1>3 DEF Canonical

-----------------------------------------------------------------------------
\* What the two statements of a lookup by height find.
LEMMA CanonicalLookup ==
  ASSUME NEW t \in Blocks, SettledTo(t), Stored # {},
         NEW i \in Nat, i <= Height[t], NEW b \in FetchOptional(QueryCanonical(i))
  PROVE  b = OnBestChain(i)
<1>1. Best \in Blocks /\ t \in Line[Best] /\ QueryBest = {Best}
  BY BestDescends DEF Stored, QueryBest
<1>2. Line[t] = {d \in Line[Best] : Height[d] <= Height[t]}
  BY <1>1, LineFacts
<1>3. QueryCanonical(i) = {c \in Line[Best] : Height[c] = i}
  BY <1>2 DEF QueryCanonical, SettledTo
<1>4. \A c, d \in Line[Best] : Height[c] = Height[d] => c = d
  BY <1>1, SameHeight
<1> QED
  BY <1>1, <1>3, <1>4 DEF FetchOptional, OnBestChain

LEMMA PendingLookup ==
  ASSUME NEW t \in Blocks, SettledTo(t), Stored # {},
         NEW i \in Nat, NEW b \in FetchOptional(QueryPending(i))
  PROVE  /\ Height[t] <= i => b = OnBestChain(i)
         /\ b \in {None, OnBestChain(i)}
<1>1. Best \in Blocks /\ t \in Line[Best] /\ QueryBest = {Best}
  BY BestDescends DEF Stored, QueryBest
<1>2. QueryPending(i) = {c \in Line[Best] : Height[c] = i /\ Height[t] <= i}
  BY PendingChainIs DEF QueryPending
<1>3. \A c, d \in Line[Best] : Height[c] = Height[d] => c = d
  BY <1>1, SameHeight
<1>4. CASE Height[t] <= i
  BY <1>1, <1>2, <1>3, <1>4 DEF FetchOptional, OnBestChain
<1>5. CASE ~ (Height[t] <= i)
  BY <1>2, <1>5 DEF FetchOptional
<1> QED
  BY <1>4, <1>5

-----------------------------------------------------------------------------
\* A block that is canonical, or visible without a rival, has below it just
\* the visible blocks up to its height.
LEMMA VisibleLine ==
  ASSUME ArchiveTypeOK, NEW t \in Blocks, SettledTo(t), NEW v \in Visible,
         v \in Canonical \/ OneLine(Visible)
  PROVE  {c \in Visible : Height[c] <= Height[v]} = Line[v]
<1> DEFINE Below == {c \in Visible : Height[c] <= Height[v]}
<1>0. /\ Visible \subseteq Blocks /\ v \in Blocks /\ v \in Stored
      /\ Canonical \subseteq Visible /\ t \in Visible
      /\ \A b \in Stored : Height[t] < Height[b] => b \in Visible
      /\ \A b \in Visible : b \in Canonical \/ Height[t] < Height[b]
  BY VisibleIs DEF Canonical, Stored
<1>1. \A c \in Blocks : Height[c] \in Nat
  BY TreeAssumption
<1>2. CASE v \in Canonical
  <2>1. v \in Line[t] /\ Height[v] <= Height[t]
    BY <1>2, LineFacts DEF SettledTo
  <2>2. Line[v] = {d \in Line[t] : Height[d] <= Height[v]}
    BY <2>1, LineFacts
  <2>3. \A c \in Below : c \in Canonical
    BY <1>0, <1>1, <2>1
  <2> QED
    BY <1>0, <2>2, <2>3 DEF SettledTo
<1>3. CASE v \notin Canonical
  <2>1. OneLine(Visible) /\ Height[t] < Height[v]
    BY <1>0, <1>3
  <2>2. t \in Line[v]
    <3>1. t \in Line[v] \/ v \in Line[t]
      BY <1>0, <2>1 DEF OneLine
    <3>2. v \notin Line[t]
      BY <1>3 DEF SettledTo
    <3> QED
      BY <3>1, <3>2
  <2>3. Line[v] \subseteq Below
    <3>1. ASSUME NEW c \in Line[v] PROVE c \in Below
      <4>1. Height[c] <= Height[v] /\ c \in Stored
        BY <1>0, LineFacts DEF SettledTo
      <4>2. CASE Height[t] < Height[c]
        BY <1>0, <4>1, <4>2
      <4>3. CASE Height[c] <= Height[t]
        <5>1. c \in Line[t]
          BY <1>0, <2>2, <4>3, LineFacts
        <5> QED
          BY <1>0, <4>1, <5>1 DEF SettledTo
      <4> QED
        BY <1>1, <4>1, <4>2, <4>3 DEF Stored
    <3> QED
      BY <3>1
  <2>4. Below \subseteq Line[v]
    <3>1. ASSUME NEW c \in Below PROVE c \in Line[v]
      <4>1. c \in Line[v] \/ v \in Line[c]
        BY <2>1 DEF OneLine
      <4>2. CASE v \in Line[c]
        <5>1. Height[v] <= Height[c] /\ c \in Blocks
          BY <1>0, <4>2, LineFacts
        <5>2. Height[v] = Height[c]
          BY <1>0, <1>1, <3>1, <5>1
        <5> QED
          BY <4>2, <5>1, <5>2, SameHeight, LineFacts
      <4> QED
        BY <4>1, <4>2
    <3> QED
      BY <3>1
  <2> QED
    BY <2>3, <2>4
<1> QED
  BY <1>2, <1>3

\* A visible block without a rival, before and after, is visible after.
LEMMA StaysVisible ==
  ASSUME ArchiveInv, NEW b \in Blocks, Arrive(b),
         OneLine(Visible), NEW v \in Visible
  PROVE  v \in Visible'
<1>1. v \in Blocks /\ v \in Stored
  BY DEF Visible, Canonical, Stored
<1>2. PICK t \in Blocks : SettledTo(t)
  BY <1>1 DEF ArchiveInv
<1>3. b # Genesis
  BY <1>2, LineFacts DEF SettledTo, Arrive, Canonical
<1>4. Height[b] \in Nat /\ Height[t] \in Nat /\ Height[v] \in Nat /\ K \in Nat \ {0}
  BY <1>1, TreeAssumption, KAssumption
<1>5. MaxCanonicalHeight = Height[t]
  BY <1>2, TipIs DEF SettledTo
<1>6. CASE v \in Canonical
  <2>1. v \in Canonical'
    BY <1>6, CanonicalStays
  <2> QED
    BY <2>1 DEF Visible
<1>7. CASE v \notin Canonical
  <2>1. status[v] = "pending" /\ Height[t] < Height[v] /\ v # b
    BY <1>5, <1>7 DEF Visible, Arrive
  <2>2. ASSUME ~ (Height[v] + K <= Height[b])
        PROVE  status'[v] = "pending"
    BY <1>1, <1>3, <2>1, <2>2 DEF Arrive, StatusAfter
  <2>3. CASE Height[b] <= Height[t] + K
    <3>1. status'[v] = "pending"
      BY <1>4, <2>1, <2>2, <2>3
    <3>2. MaxCanonicalHeight' = Height[t] /\ Canonical' # {}
      <4>1. SettledTo(t)'
        BY <1>2, <1>3, <2>3, ArriveUnsettled DEF ArchiveInv
      <4> QED
        BY <4>1, TipBecomes DEF SettledTo
    <3> QED
      BY <1>1, <1>4, <2>1, <3>1, <3>2 DEF Visible
  <2>4. CASE Height[b] > Height[t] + K
    <3>1. PICK u \in Line[b] : Height[u] = Height[t] + 1 /\ SettledTo(u)'
      BY <1>2, <1>3, <2>4, ArriveSettles DEF ArchiveInv
    <3>2. u \in Blocks /\ Canonical' = Line[u]
      BY <3>1, LineFacts DEF SettledTo
    <3>3. MaxCanonicalHeight' = Height[t] + 1 /\ Canonical' # {}
      BY <3>1, <3>2, TipBecomes
    <3>4. CASE Height[v] = Height[t] + 1
      <4>1. u \in Stored
        <5>1. u # b
          BY <1>4, <2>4, <3>1
        <5>2. Line[b] \subseteq Stored \cup {b}
          BY <1>2, <1>3, ArriveFacts
        <5> QED
          BY <3>1, <5>1, <5>2
      <4>2. u \in Visible
        BY <1>2, <1>4, <3>1, <4>1, VisibleIs DEF ArchiveInv
      <4>3. u \in Line[v] \/ v \in Line[u]
        BY <4>2 DEF OneLine
      <4>4. u = v
        BY <1>1, <3>1, <3>2, <3>4, <4>3, SameHeight, LineFacts
      <4>5. v \in Canonical'
        BY <3>2, <4>4, LineFacts
      <4> QED
        BY <4>5 DEF Visible
    <3>5. CASE Height[v] # Height[t] + 1
      <4>1. Height[b] <= Height[t] + K + 1
        BY <1>2, <1>3, ArriveFacts
      <4>2. status'[v] = "pending"
        BY <1>4, <2>1, <2>2, <3>5, <4>1
      <4> QED
        BY <1>1, <1>4, <2>1, <3>3, <3>5, <4>2 DEF Visible
    <3> QED
      BY <3>4, <3>5
  <2> QED
    BY <1>4, <2>3, <2>4
<1> QED
  BY <1>6, <1>7

-----------------------------------------------------------------------------
\* A lookup by height is under way only once something is canonical, and the
\* height it read is behind the canonical tip at most.
IndexInv ==
  phase = "byIndex" => /\ Canonical # {}
                       /\ maxCanonical <= MaxCanonicalHeight

\* Until the account's row is read, a balance request that has seen no fork
\* has a visible block, and there is none now.
RowInv ==
  ~ forked => /\ bphase \in {"find", "account"} => OneLine(Visible)
              /\ bphase = "account" => block \in Visible

ReadsInv ==
  /\ ArchiveInv
  /\ BlockTypeOK /\ IndexInv
  /\ BalanceTypeOK /\ RowInv /\ BalanceOfBlock

LEMMA SameStatus ==
  ASSUME status' = status
  PROVE  /\ Stored' = Stored /\ Canonical' = Canonical
         /\ MaxCanonicalHeight' = MaxCanonicalHeight
         /\ Visible' = Visible
         /\ ArchiveInv => ArchiveInv'
<1>1. Stored' = Stored /\ Canonical' = Canonical
  BY DEF Stored, Canonical
<1>2. MaxCanonicalHeight' = MaxCanonicalHeight
  BY <1>1 DEF MaxCanonicalHeight, CanonicalTip
<1>3. Visible' = Visible
  BY <1>1, <1>2 DEF Visible
<1>4. ArchiveInv => ArchiveInv'
  BY <1>1 DEF ArchiveInv, ArchiveTypeOK, SettledTo
<1> QED
  BY <1>1, <1>2, <1>3, <1>4

\* The steps of /block leave the rest alone.
LEMMA BlockKeeps ==
  ASSUME ReadsInv, status' = status, UNCHANGED balanceVars
  PROVE  ArchiveInv' /\ BalanceTypeOK' /\ RowInv' /\ BalanceOfBlock'
<1>1. /\ Stored' = Stored /\ Canonical' = Canonical /\ Visible' = Visible
      /\ ArchiveInv'
  BY SameStatus DEF ReadsInv
<1>2. BalanceTypeOK'
  BY <1>1 DEF ReadsInv, BalanceTypeOK, balanceVars
<1>3. RowInv'
  BY <1>1 DEF ReadsInv, RowInv, balanceVars
<1>4. BalanceOfBlock'
  BY DEF ReadsInv, BalanceOfBlock, balanceVars
<1> QED
  BY <1>1, <1>2, <1>3, <1>4

\* The steps of /account/balance leave the rest alone.
LEMMA BalanceKeeps ==
  ASSUME ReadsInv, status' = status, UNCHANGED blockVars
  PROVE  ArchiveInv' /\ BlockTypeOK' /\ IndexInv'
<1>1. /\ Stored' = Stored /\ Canonical' = Canonical
      /\ MaxCanonicalHeight' = MaxCanonicalHeight
      /\ ArchiveInv'
  BY SameStatus DEF ReadsInv
<1>2. BlockTypeOK'
  BY <1>1 DEF ReadsInv, BlockTypeOK, blockVars
<1>3. IndexInv'
  BY <1>1 DEF ReadsInv, IndexInv, blockVars
<1> QED
  BY <1>1, <1>2, <1>3

LEMMA HeightsNat == Heights \subseteq Nat
BY TreeAssumption DEF Heights

LEMMA TakeInv ==
  ASSUME ReadsInv, NEW b \in Stored \cup {None}, Take(b),
         phase \in {"metadata", "byIndex"}
  PROVE  BlockTypeOK' /\ IndexInv'
<1>1. Stored' = Stored
  BY SameStatus DEF Take
<1>2. Stored \subseteq Blocks /\ None \notin Blocks
  BY TreeAssumption DEF Stored
<1>3. IndexInv'
  BY DEF Take, IndexInv
<1> QED
  BY <1>1, <1>2, <1>3 DEF Take, ReadsInv, BlockTypeOK, BlockPhases

LEMMA BlockStepInv ==
  ASSUME ReadsInv, BlockStep, UNCHANGED balanceVars
  PROVE  ReadsInv'
<1>0. status' = status
  BY DEF BlockStep, Lookup, ReadMaxCanonical, LookupByIndex, ReadParent,
         ReadCommands, BlockFails, BlockReplied, Take
<1>1. Stored' = Stored /\ Canonical' = Canonical
      /\ MaxCanonicalHeight' = MaxCanonicalHeight
  BY <1>0, SameStatus
<1>2. CASE Lookup
  <2>1. PICK b \in FetchOptional(IF index # None THEN QueryBoth(index, hash)
                                 ELSE IF hash # None THEN QueryHash(hash)
                                 ELSE QueryBest) : Take(b)
    BY <1>2 DEF Lookup
  <2>2. QueryBest \subseteq Stored
    BY BestDescends DEF QueryBest, ReadsInv, ArchiveInv
  <2>3. b \in Stored \cup {None}
    BY <2>1, <2>2 DEF FetchOptional, QueryBoth, QueryHash
  <2>4. BlockTypeOK' /\ IndexInv'
    BY <1>2, <2>1, <2>3, TakeInv DEF Lookup
  <2> QED
    BY <1>0, <2>4, BlockKeeps DEF ReadsInv
<1>3. CASE LookupByIndex
  <2>1. PICK b \in FetchOptional(IF index <= maxCanonical THEN QueryCanonical(index)
                                 ELSE QueryPending(index)) : Take(b)
    BY <1>3 DEF LookupByIndex
  <2>2. PendingChain \subseteq Stored
    BY BestDescends DEF PendingChain, ReadsInv, ArchiveInv, SettledTo
  <2>3. b \in Stored \cup {None}
    BY <2>1, <2>2 DEF FetchOptional, QueryCanonical, QueryPending, Canonical, Stored
  <2>4. BlockTypeOK' /\ IndexInv'
    BY <1>3, <2>1, <2>3, TakeInv DEF LookupByIndex
  <2> QED
    BY <1>0, <2>4, BlockKeeps DEF ReadsInv
<1>4. CASE ReadMaxCanonical
  <2>1. Canonical # {} => MaxCanonicalHeight \in Nat
    <3>1. ASSUME NEW t \in Blocks, SettledTo(t) PROVE MaxCanonicalHeight \in Nat
      BY <3>1, TipIs, TreeAssumption DEF SettledTo
    <3> QED
      BY <3>1 DEF ReadsInv, ArchiveInv, Canonical, Stored
  <2>2. BlockTypeOK'
    BY <1>1, <1>4, <2>1 DEF ReadMaxCanonical, ReadsInv, BlockTypeOK, BlockPhases
  <2>3. IndexInv'
    BY <1>1, <1>4, <2>1 DEF ReadMaxCanonical, IndexInv
  <2> QED
    BY <1>0, <2>2, <2>3, BlockKeeps DEF ReadsInv
<1>5. CASE ReadParent
  <2>1. BlockTypeOK'
    BY <1>1, <1>5 DEF ReadParent, ReadsInv, BlockTypeOK, BlockPhases, Stored,
                      CommandTables
  <2>2. IndexInv'
    BY <1>5 DEF ReadParent, IndexInv
  <2> QED
    BY <1>0, <2>1, <2>2, BlockKeeps DEF ReadsInv
<1>6. ASSUME NEW c \in CommandTables, ReadCommands(c)
      PROVE  ReadsInv'
  <2>1. BlockTypeOK'
    BY <1>1, <1>6 DEF ReadCommands, ReadsInv, BlockTypeOK, BlockPhases
  <2>2. IndexInv'
    BY <1>6 DEF ReadCommands, IndexInv
  <2> QED
    BY <1>0, <2>1, <2>2, BlockKeeps DEF ReadsInv
<1>7. CASE BlockFails
  <2>1. BlockTypeOK'
    BY <1>1, <1>7 DEF BlockFails, ReadsInv, BlockTypeOK, BlockPhases
  <2>2. IndexInv'
    BY <1>7 DEF BlockFails, IndexInv
  <2> QED
    BY <1>0, <2>1, <2>2, BlockKeeps DEF ReadsInv
<1>8. CASE BlockReplied
  <2>1. BlockTypeOK'
    BY <1>1, <1>8 DEF BlockReplied, ReadsInv, BlockTypeOK, BlockPhases
  <2>2. IndexInv'
    BY <1>8 DEF BlockReplied, IndexInv
  <2> QED
    BY <1>0, <2>1, <2>2, BlockKeeps DEF ReadsInv
<1> QED
  BY <1>2, <1>3, <1>4, <1>5, <1>6, <1>7, <1>8 DEF BlockStep

-----------------------------------------------------------------------------
LEMMA Wraps == ASSUME NEW n \in Int PROVE Wrap(n) \in Amounts
BY AmountsAssumption DEF Wrap, Amounts

LEMMA Subtracts ==
  ASSUME NEW a \in Nat, NEW b \in Nat
  PROVE  /\ SaturatingSub(a, b) \in Nat
         /\ SaturatingSub(a, b) <= a
         /\ b <= a => SaturatingSub(a, b) = a - b
         /\ a <= b => SaturatingSub(a, b) = 0
BY DEF SaturatingSub

\* The fields of a schedule, and where in its life a slot can be.
LEMMA ScheduleFields ==
  ASSUME NEW s \in Schedules \ {None}
  PROVE  /\ s.cliff_time \in Nat /\ s.cliff_amount \in Amounts
         /\ s.vesting_period \in Nat /\ s.vesting_increment \in Amounts
         /\ s.initial_minimum_balance \in Amounts
         /\ PastCliff(s) \in Amounts
         /\ PastCliff(s) <= s.initial_minimum_balance
<1>1. /\ s.cliff_time \in Nat /\ s.cliff_amount \in Amounts
      /\ s.vesting_period \in Nat /\ s.vesting_increment \in Amounts
      /\ s.initial_minimum_balance \in Amounts
  BY SchedulesAssumption
<1>2. /\ PastCliff(s) \in Nat
      /\ PastCliff(s) <= s.initial_minimum_balance
  <2>1. s.initial_minimum_balance \in Nat /\ s.cliff_amount \in Nat
    BY <1>1, AmountsAssumption DEF Amounts
  <2> QED
    BY <2>1, Subtracts DEF PastCliff
<1>3. \A n \in Nat, m \in Amounts : n <= m => n \in Amounts
  BY AmountsAssumption DEF Amounts
<1> QED
  BY <1>1, <1>2, <1>3

LEMMA Periods ==
  ASSUME NEW s \in Schedules \ {None}, NEW slot \in Nat,
         slot >= s.cliff_time, s.vesting_period # 0
  PROVE  NumPeriods(slot, s) \in Nat
<1> DEFINE n == slot - s.cliff_time
           d == s.vesting_period
<1>1. d \in Nat \ {0}
  BY ScheduleFields
<1>2. n \in Nat
  BY ScheduleFields
<1> HIDE DEF n, d
<1>3. n \div d \in Nat
  BY <1>1, <1>2
<1> QED
  BY <1>3 DEF NumPeriods, n, d

LEMMA DecrementType ==
  ASSUME NEW n \in Nat, NEW increment \in Amounts
  PROVE  Decrement(n, increment) \in Amounts
<1>1. n * increment \in Int
  BY AmountsAssumption DEF Amounts
<1> QED
  BY <1>1, Wraps, AmountsAssumption DEF Decrement, Amounts

LEMMA MinBalanceType ==
  ASSUME NEW s \in Schedules \ {None}, NEW slot \in Nat
  PROVE  MinBalance(slot, s) \in Amounts
<1>0. /\ 0 \in Amounts /\ Amounts \subseteq Nat
      /\ \A n \in Nat, m \in Amounts : n <= m => n \in Amounts
  BY AmountsAssumption DEF Amounts
<1>1. CASE slot < s.cliff_time
  BY <1>1, ScheduleFields DEF MinBalance
<1>2. CASE ~ (slot < s.cliff_time) /\ (s.vesting_period = 0 \/ PastCliff(s) = 0)
  BY <1>0, <1>2 DEF MinBalance
<1>3. CASE ~ (slot < s.cliff_time) /\ ~ (s.vesting_period = 0 \/ PastCliff(s) = 0)
  <2> DEFINE d == Decrement(NumPeriods(slot, s), s.vesting_increment)
  <2>1. slot >= s.cliff_time
    BY <1>3, ScheduleFields
  <2>2. d \in Amounts
    BY <1>3, <2>1, Periods, DecrementType, ScheduleFields
  <2>3. PastCliff(s) \in Amounts
    BY ScheduleFields
  <2>4. SaturatingSub(PastCliff(s), d) \in Amounts
    BY <1>0, <2>2, <2>3, Subtracts
  <2> QED
    BY <1>3, <2>4 DEF MinBalance
<1> QED
  BY <1>1, <1>2, <1>3

LEMMA IncrementalType ==
  ASSUME NEW s \in Schedules \ {None}, NEW from \in Nat, NEW to \in Nat
  PROVE  Incremental(from, to, s) \in Amounts
<1>1. MinBalance(from, s) \in Amounts /\ MinBalance(to, s) \in Amounts
  BY MinBalanceType
<1>2. /\ 0 \in Amounts /\ Amounts \subseteq Nat
      /\ \A n \in Nat, m \in Amounts : n <= m => n \in Amounts
  BY AmountsAssumption DEF Amounts
<1>3. SaturatingSub(MinBalance(from, s), MinBalance(to, s)) \in Amounts
  BY <1>1, <1>2, Subtracts
<1> QED
  BY <1>2, <1>3 DEF Incremental

Replies == [total : Amounts, liquid : Amounts, locked : Amounts]

LEMMA BalancesType ==
  ASSUME NEW total \in Amounts, NEW liquid \in Amounts
  PROVE  Balances(total, liquid) \in Replies
<1>1. total - liquid \in Int
  BY AmountsAssumption DEF Amounts
<1> QED
  BY <1>1, Wraps DEF Balances, Replies

-----------------------------------------------------------------------------
LEMMA BalanceStepInv ==
  ASSUME ReadsInv, BalanceStep, UNCHANGED blockVars
  PROVE  ReadsInv'
<1>0. /\ status' = status
      /\ ArchiveInv /\ ArchiveTypeOK /\ BalanceTypeOK /\ RowInv /\ BalanceOfBlock
      /\ 0 \in Amounts /\ None \notin Blocks
      /\ reply \in Replies
  BY AmountsAssumption, TreeAssumption
     DEF BalanceStep, FindBlock, FindAccount, ReadTiming, AskFrontier,
         DaemonBalance, BalanceFails, BalanceReplied, ReadsInv, ArchiveInv,
         BalanceTypeOK, Replies, Amounts
<1>1. /\ Stored' = Stored /\ Canonical' = Canonical /\ Visible' = Visible
      /\ Visible \subseteq Stored /\ Canonical \subseteq Visible
      /\ Stored \subseteq Blocks
  BY <1>0, SameStatus DEF Visible, Canonical, Stored
<1>2. ArchiveInv' /\ BlockTypeOK' /\ IndexInv'
  BY <1>0, BalanceKeeps
<1> SUFFICES BalanceTypeOK' /\ RowInv' /\ BalanceOfBlock'
  BY <1>2 DEF ReadsInv
<1>3. CASE FindBlock
  <2>1. PICK b \in FetchOptional({c \in Visible : /\ at \in {None, Height[c]}
                                                  /\ atHash \in {None, c}}) :
          /\ block' = b
          /\ final' = (b \in Canonical)
          /\ bphase' = IF b = None THEN "missing" ELSE "account"
    BY <1>3 DEF FindBlock
  <2>2. b \in Visible \cup {None}
    BY <2>1 DEF FetchOptional
  <2>3. bphase = "find" /\ UNCHANGED <<row, schedule, reply, forked>>
    BY <1>3 DEF FindBlock
  <2>4. BalanceTypeOK'
    BY <1>0, <1>1, <2>1, <2>2, <2>3 DEF BalanceTypeOK, BalancePhases
  <2>5. RowInv'
    BY <1>0, <1>1, <2>1, <2>2, <2>3 DEF RowInv
  <2>6. BalanceOfBlock'
    BY <2>1 DEF BalanceOfBlock
  <2> QED
    BY <2>4, <2>5, <2>6
<1>4. CASE FindAccount
  <2>1. PICK b \in FetchOptional(RowsUpTo(Height[block])) :
          /\ row' = b
          /\ bphase' = IF b = None THEN "answered" ELSE "timing"
    BY <1>4 DEF FindAccount
  <2>2. bphase = "account" /\ UNCHANGED <<block, schedule, reply, final, forked>>
    BY <1>4 DEF FindAccount
  <2>3. b \in Touched \cup {None} /\ (b # None => Height[b] <= Height[block])
    BY <2>1 DEF FetchOptional, RowsUpTo, Tops
  <2>4. BalanceTypeOK'
    BY <1>0, <1>1, <2>1, <2>2, <2>3, AmountsAssumption
       DEF BalanceTypeOK, BalancePhases
  <2>5. RowInv'
    BY <2>1, <2>2 DEF RowInv
  <2>6. BalanceOfBlock'
    <3>1. ASSUME final \/ ~ forked
          PROVE  b \in FetchOptional(Tops(Line[block] \cap Touched))
      <4>1. block \in Visible /\ (block \in Canonical \/ OneLine(Visible))
        BY <1>0, <1>1, <2>2, <3>1 DEF BalanceTypeOK, RowInv
      <4>2. PICK t \in Blocks : SettledTo(t)
        BY <1>0, <1>1, <4>1 DEF ArchiveInv
      <4>3. {c \in Visible : Height[c] <= Height[block]} = Line[block]
        BY <1>0, <4>1, <4>2, VisibleLine
      <4>4. {c \in Visible \cap Touched : Height[c] <= Height[block]}
              = Line[block] \cap Touched
        BY <4>3
      <4> QED
        BY <2>1, <4>4 DEF RowsUpTo
    <3> QED
      BY <2>1, <2>2, <3>1 DEF BalanceOfBlock
  <2> QED
    BY <2>4, <2>5, <2>6
<1>5. CASE ReadTiming
  <2>1. /\ bphase = "timing" /\ bphase' \in {"answered", "panicked"}
        /\ schedule' \in Schedules
        /\ UNCHANGED <<block, row, final, forked>>
    BY <1>5 DEF ReadTiming
  <2>2. reply' \in Replies
    <3>1. AmountAt[row] \in Amounts /\ Slot[row] \in Nat /\ Slot[block] \in Nat
      BY <1>0, <1>1, <2>1, AmountsAssumption DEF BalanceTypeOK
    <3>2. CASE schedule' = None
      BY <1>5, <3>1, <3>2, BalancesType DEF ReadTiming
    <3>3. CASE schedule' # None
      <4>1. schedule' \in Schedules \ {None}
        BY <2>1, <3>3
      <4>2. Incremental(Slot[row], Slot[block], schedule') \in Amounts
        BY <3>1, <4>1, IncrementalType
      <4>3. AmountAt[row] + Incremental(Slot[row], Slot[block], schedule') \in Int
        BY <3>1, <4>2, AmountsAssumption DEF Amounts
      <4>4. Wrap(AmountAt[row] + Incremental(Slot[row], Slot[block], schedule'))
              \in Amounts
        BY <4>3, Wraps
      <4> QED
        BY <1>0, <1>5, <3>1, <3>3, <4>4, BalancesType DEF ReadTiming
    <3> QED
      BY <3>2, <3>3
  <2>3. BalanceTypeOK'
    BY <1>0, <1>1, <2>1, <2>2 DEF BalanceTypeOK, BalancePhases, Replies
  <2>4. RowInv'
    BY <2>1 DEF RowInv
  <2>5. BalanceOfBlock'
    BY <1>0, <2>1 DEF BalanceOfBlock
  <2> QED
    BY <2>3, <2>4, <2>5
<1>6. CASE AskFrontier
  <2>1. /\ bphase = "idle" /\ bphase' = "frontier"
        /\ UNCHANGED <<block, row, schedule, reply, final, forked>>
    BY <1>6 DEF AskFrontier
  <2>2. BalanceTypeOK'
    BY <1>0, <1>1, <2>1 DEF BalanceTypeOK, BalancePhases
  <2> QED
    BY <2>1, <2>2 DEF RowInv, BalanceOfBlock
<1>7. CASE DaemonBalance
  <2>1. /\ bphase = "frontier" /\ bphase' \in {"missing", "answered"}
        /\ UNCHANGED <<block, row, schedule, final, forked>>
    BY <1>7 DEF DaemonBalance
  <2>2. reply' \in Replies
    <3>1. \A b \in Touched : AmountAt[b] \in Amounts
      BY AmountsAssumption
    <3> QED
      BY <1>0, <1>7, <3>1, BalancesType DEF DaemonBalance
  <2>3. BalanceTypeOK'
    BY <1>0, <1>1, <2>1, <2>2 DEF BalanceTypeOK, BalancePhases, Replies
  <2>4. block = None
    BY <1>0, <2>1 DEF BalanceTypeOK
  <2> QED
    BY <2>1, <2>3, <2>4 DEF RowInv, BalanceOfBlock
<1>8. CASE BalanceFails
  <2>1. /\ bphase' = "failed"
        /\ UNCHANGED <<block, row, schedule, reply, final, forked>>
    BY <1>8 DEF BalanceFails
  <2>2. BalanceTypeOK'
    BY <1>0, <1>1, <2>1 DEF BalanceTypeOK, BalancePhases
  <2> QED
    BY <2>1, <2>2 DEF RowInv, BalanceOfBlock
<1>9. CASE BalanceReplied
  <2>1. NoReply \in Replies
    BY <1>0 DEF NoReply, Replies
  <2>2. BalanceTypeOK'
    BY <1>0, <1>1, <1>9, <2>1
       DEF BalanceReplied, BalanceTypeOK, BalancePhases, Replies
  <2> QED
    BY <1>9, <2>2 DEF BalanceReplied, RowInv, BalanceOfBlock
<1> QED
  BY <1>3, <1>4, <1>5, <1>6, <1>7, <1>8, <1>9 DEF BalanceStep

-----------------------------------------------------------------------------
LEMMA AskInv ==
  ASSUME ReadsInv, Ask
  PROVE  ReadsInv'
<1>1. PICK i \in Heights \cup {None}, h \in Blocks \cup {None} :
        \/ AskBlock(i, h) /\ bphase = "idle" /\ UNCHANGED balanceVars
        \/ AskBalance(i, h) /\ phase = "idle" /\ UNCHANGED blockVars
  BY DEF Ask
<1>2. CASE AskBlock(i, h) /\ UNCHANGED balanceVars
  <2>1. status' = status /\ Stored' = Stored
    BY <1>2, SameStatus DEF AskBlock
  <2>2. BlockTypeOK'
    BY <1>2, <2>1 DEF AskBlock, ReadsInv, BlockTypeOK, BlockPhases
  <2>3. IndexInv'
    BY <1>2 DEF AskBlock, IndexInv
  <2> QED
    BY <1>2, <2>1, <2>2, <2>3, BlockKeeps DEF ReadsInv
<1>3. CASE AskBalance(i, h) /\ UNCHANGED blockVars
  <2>1. /\ status' = status /\ Stored' = Stored /\ Canonical' = Canonical
        /\ Visible' = Visible
    BY <1>3, SameStatus DEF AskBalance
  <2>2. BalanceTypeOK'
    BY <1>3, <2>1 DEF AskBalance, ReadsInv, BalanceTypeOK, BalancePhases
  <2>3. RowInv'
    <3>1. bphase' = "find" /\ (~ forked' => OneLine(Visible))
      BY <1>3 DEF AskBalance
    <3>2. OneLine(Visible)' <=> OneLine(Visible)
      BY <2>1 DEF OneLine
    <3> QED
      BY <3>1, <3>2 DEF RowInv
  <2>4. BalanceOfBlock'
    BY <1>3 DEF AskBalance, BalanceOfBlock
  <2> QED
    BY <1>3, <2>1, <2>2, <2>3, <2>4, BalanceKeeps DEF ReadsInv
<1> QED
  BY <1>1, <1>2, <1>3

LEMMA BlockArrivesInv ==
  ASSUME ReadsInv, NEW b \in Blocks, BlockArrives(b)
  PROVE  ReadsInv'
<1>0. /\ ArchiveInv /\ Arrive(b)
      /\ forked' = (forked \/ (bphase \in {"find", "account"} /\ ~ OneLine(Visible')))
      /\ UNCHANGED blockVars
      /\ UNCHANGED <<bphase, at, atHash, block, row, schedule, reply, final>>
  BY DEF ReadsInv, BlockArrives
<1>1. ArchiveInv' /\ Canonical \subseteq Canonical'
  BY <1>0, ArriveInv, CanonicalStays
<1>2. Stored \subseteq Stored'
  BY <1>0 DEF Arrive, StatusAfter, Stored
<1>3. BlockTypeOK'
  BY <1>0, <1>2 DEF ReadsInv, BlockTypeOK, blockVars
<1>4. IndexInv'
  <2>1. ASSUME phase' = "byIndex"
        PROVE  Canonical' # {} /\ maxCanonical' <= MaxCanonicalHeight'
    <3>1. phase = "byIndex" /\ maxCanonical' = maxCanonical
      BY <1>0, <2>1 DEF blockVars
    <3>2. Canonical # {} /\ maxCanonical <= MaxCanonicalHeight
      BY <3>1 DEF ReadsInv, IndexInv
    <3>3. maxCanonical \in Nat
      BY DEF ReadsInv, BlockTypeOK
    <3>4. /\ Canonical' # {}
          /\ MaxCanonicalHeight \in Nat /\ MaxCanonicalHeight' \in Nat
          /\ MaxCanonicalHeight <= MaxCanonicalHeight'
      BY <1>0, <3>2, SettledRises
    <3> QED
      BY <3>1, <3>2, <3>3, <3>4
  <2> QED
    BY <2>1 DEF IndexInv
<1>5. BalanceTypeOK'
  BY <1>0, <1>1, <1>2 DEF ReadsInv, BalanceTypeOK
<1>6. RowInv'
  <2>1. ASSUME ~ forked'
        PROVE  /\ bphase \in {"find", "account"} => OneLine(Visible')
               /\ bphase = "account" => block \in Visible'
    <3>1. ~ forked /\ (bphase \in {"find", "account"} => OneLine(Visible'))
      BY <1>0, <2>1 DEF ReadsInv, BalanceTypeOK
    <3>2. ASSUME bphase = "account" PROVE block \in Visible'
      <4>1. OneLine(Visible) /\ block \in Visible
        BY <3>1, <3>2 DEF ReadsInv, RowInv
      <4> QED
        BY <1>0, <4>1, StaysVisible
    <3> QED
      BY <3>1, <3>2
  <2>2. OneLine(Visible)' <=> OneLine(Visible')
    BY DEF OneLine
  <2> QED
    BY <1>0, <2>1, <2>2 DEF RowInv
<1>7. BalanceOfBlock'
  BY <1>0 DEF ReadsInv, BalanceOfBlock
<1> QED
  BY <1>1, <1>3, <1>4, <1>5, <1>6, <1>7 DEF ReadsInv

\* The invariant of a step of any kind, and of none.
LEMMA ReadsStep == ReadsInv /\ [ReadsNext]_readsVars => ReadsInv'
<1> SUFFICES ASSUME ReadsInv, [ReadsNext]_readsVars PROVE ReadsInv'
  OBVIOUS
<1>1. CASE Ask
  BY <1>1, AskInv
<1>2. CASE BlockStep /\ UNCHANGED balanceVars
  BY <1>2, BlockStepInv
<1>3. CASE BalanceStep /\ UNCHANGED blockVars
  BY <1>3, BalanceStepInv
<1>4. ASSUME NEW b \in Blocks, BlockArrives(b) PROVE ReadsInv'
  BY <1>4, BlockArrivesInv
<1>5. CASE UNCHANGED readsVars
  <2>1. status' = status /\ UNCHANGED blockVars /\ UNCHANGED balanceVars
    BY <1>5 DEF readsVars
  <2> QED
    BY <2>1, BlockKeeps, BalanceKeeps DEF ReadsInv
<1> QED
  BY <1>1, <1>2, <1>3, <1>4, <1>5 DEF ReadsNext

LEMMA ReadsInitInv == ReadsInit => ReadsInv
<1> SUFFICES ASSUME ReadsInit PROVE ReadsInv
  OBVIOUS
<1>1. ArchiveInv /\ 0 \in Amounts
  BY ArchiveInitInv, AmountsAssumption DEF ReadsInit, Amounts
<1>2. BlockTypeOK /\ IndexInv
  BY DEF ReadsInit, BlockInit, BlockTypeOK, BlockPhases, IndexInv
<1>3. BalanceTypeOK
  <2>1. NoReply \in Replies
    BY <1>1 DEF NoReply, Replies
  <2>2. schedule \in Schedules \cup {None}
    BY DEF ReadsInit, BalanceInit
  <2> QED
    BY <2>1, <2>2
       DEF ReadsInit, BalanceInit, BalanceTypeOK, BalancePhases, Replies
<1>4. RowInv /\ BalanceOfBlock
  BY DEF ReadsInit, BalanceInit, RowInv, BalanceOfBlock
<1> QED
  BY <1>1, <1>2, <1>3, <1>4 DEF ReadsInv

-----------------------------------------------------------------------------
\* Division and multiplication of naturals.
LEMMA Euclid ==
  ASSUME NEW a \in Nat, NEW d \in Nat \ {0}
  PROVE  /\ a \div d \in Nat
         /\ d * (a \div d) <= a
         /\ a < d * ((a \div d) + 1)
<1>1. a \div d \in Nat
  OBVIOUS
<1>2. a % d \in 0..(d - 1)
  OBVIOUS
<1>3. a = d * (a \div d) + (a % d)
  OBVIOUS
<1> QED
  BY <1>1, <1>2, <1>3

LEMMA TimesMonotone ==
  ASSUME NEW a \in Nat, NEW b \in Nat, NEW c \in Nat, a <= b
  PROVE  a * c <= b * c
OBVIOUS

LEMMA DivMonotone ==
  ASSUME NEW a \in Nat, NEW b \in Nat, NEW d \in Nat \ {0}, a <= b
  PROVE  a \div d <= b \div d
<1> DEFINE p == a \div d
           q == b \div d
<1>1. p \in Nat /\ q \in Nat /\ d * p <= a /\ b < d * (q + 1)
  BY Euclid
<1> HIDE DEF p, q
<1>2. SUFFICES ASSUME q + 1 <= p PROVE FALSE
  BY <1>1 DEF p, q
<1>3. (q + 1) * d <= p * d
  BY <1>1, <1>2, TimesMonotone
<1>4. /\ d * p = p * d /\ d * (q + 1) = (q + 1) * d
      /\ d * p \in Nat /\ d * (q + 1) \in Nat
  BY <1>1
<1> QED
  BY <1>1, <1>3, <1>4

\* The check before the product of vesting_decrement is exact.
LEMMA ProductFits ==
  ASSUME NEW m \in Nat, NEW n \in Nat \ {0}, NEW i \in Nat
  PROVE  (m \div n < i) <=> (m < n * i)
<1> DEFINE q == m \div n
<1>1. q \in Nat /\ n * q <= m /\ m < n * (q + 1)
  BY Euclid
<1> HIDE DEF q
<1>2. /\ n * q = q * n /\ n * i = i * n /\ n * (q + 1) = (q + 1) * n
      /\ q * n \in Nat /\ i * n \in Nat /\ (q + 1) * n \in Nat
  BY <1>1
<1>3. CASE q < i
  <2>1. (q + 1) * n <= i * n
    BY <1>1, <1>3, TimesMonotone
  <2> QED
    BY <1>1, <1>2, <1>3, <2>1 DEF q
<1>4. CASE ~ (q < i)
  <2>1. i * n <= q * n
    BY <1>1, <1>4, TimesMonotone
  <2> QED
    BY <1>1, <1>2, <1>4, <2>1 DEF q
<1> QED
  BY <1>3, <1>4

LEMMA DecrementIs ==
  ASSUME NEW n \in Nat \ {0}, NEW increment \in Amounts
  PROVE  /\ n * increment \in Nat
         /\ Decrement(n, increment) =
              IF MaxU64 < n * increment THEN MaxU64 ELSE n * increment
<1>1. increment \in Nat /\ MaxU64 \in Nat
  BY AmountsAssumption DEF Amounts
<1> DEFINE p == n * increment
<1>2. p \in Nat
  BY <1>1
<1>3. (MaxU64 \div n < increment) <=> (MaxU64 < p)
  BY <1>1, ProductFits
<1> HIDE DEF p
<1>4. p <= MaxU64 => p % (MaxU64 + 1) = p
  BY <1>1, <1>2
<1> QED
  BY <1>1, <1>2, <1>3, <1>4 DEF Decrement, Wrap, p

LEMMA MinBalanceIsMinimum ==
  ASSUME NEW s \in Schedules \ {None}, NEW slot \in Nat, ~ Panics(slot, s)
  PROVE  MinBalance(slot, s) = Minimum(slot, s)
<1>1. /\ s.cliff_time \in Nat /\ s.cliff_amount \in Nat
      /\ s.vesting_period \in Nat /\ s.vesting_increment \in Amounts
      /\ s.vesting_increment \in Nat
      /\ s.initial_minimum_balance \in Nat
      /\ s.initial_minimum_balance <= MaxU64 /\ MaxU64 \in Nat
  BY ScheduleFields, AmountsAssumption DEF Amounts
<1>2. CASE slot < s.cliff_time
  BY <1>2 DEF MinBalance, Minimum
<1>3. CASE ~ (slot < s.cliff_time) /\ s.vesting_period = 0
  BY <1>3 DEF MinBalance, Minimum
<1>4. CASE ~ (slot < s.cliff_time) /\ s.vesting_period # 0
  <2> DEFINE n == NumPeriods(slot, s)
             p == n * s.vesting_increment
             left == s.initial_minimum_balance - s.cliff_amount - p
  <2>1. slot >= s.cliff_time
    BY <1>1, <1>4
  <2>2. n \in Nat
    BY <1>4, <2>1, Periods
  <2>3. p \in Nat
    BY <1>1, <2>2
  <2>4. Minimum(slot, s) = IF left < 0 THEN 0 ELSE left
    BY <1>4 DEF Minimum
  <2>5. CASE PastCliff(s) = 0
    <3>1. MinBalance(slot, s) = 0
      BY <1>4, <2>5 DEF MinBalance
    <3>2. s.initial_minimum_balance <= s.cliff_amount
      BY <1>1, <2>5 DEF PastCliff, SaturatingSub
    <3> HIDE DEF p
    <3> QED
      BY <1>1, <2>3, <2>4, <3>1, <3>2
  <2>6. CASE PastCliff(s) # 0
    <3>1. PastCliff(s) = s.initial_minimum_balance - s.cliff_amount
          /\ PastCliff(s) \in Nat /\ PastCliff(s) <= MaxU64
      BY <1>1, <2>6 DEF PastCliff, SaturatingSub
    <3>2. n # 0
      BY <1>4, <2>1, <2>6 DEF Panics
    <3>3. Decrement(n, s.vesting_increment) = IF MaxU64 < p THEN MaxU64 ELSE p
      BY <1>1, <2>2, <3>2, DecrementIs
    <3>4. MinBalance(slot, s) =
            SaturatingSub(PastCliff(s), Decrement(n, s.vesting_increment))
      BY <1>4, <2>6 DEF MinBalance
    <3> HIDE DEF p, n
    <3> QED
      BY <1>1, <2>3, <2>4, <3>1, <3>3, <3>4 DEF SaturatingSub
  <2> QED
    BY <2>5, <2>6
<1> QED
  BY <1>2, <1>3, <1>4

\* A minimum balance never rises.
LEMMA MinimumFalls ==
  ASSUME NEW s \in Schedules \ {None}, NEW from \in Nat, NEW to \in Nat, from <= to
  PROVE  /\ Minimum(from, s) \in Nat /\ Minimum(to, s) \in Nat
         /\ Minimum(to, s) <= Minimum(from, s)
<1>1. /\ s.cliff_time \in Nat /\ s.cliff_amount \in Nat
      /\ s.vesting_period \in Nat /\ s.vesting_increment \in Nat
      /\ s.initial_minimum_balance \in Nat
  BY ScheduleFields, AmountsAssumption DEF Amounts
<1> DEFINE p(slot) == NumPeriods(slot, s) * s.vesting_increment
           left(slot) == s.initial_minimum_balance - s.cliff_amount - p(slot)
<1>2. ASSUME NEW slot \in Nat, s.cliff_time <= slot, s.vesting_period # 0
      PROVE  /\ p(slot) \in Nat
             /\ Minimum(slot, s) = IF left(slot) < 0 THEN 0 ELSE left(slot)
  <2>1. NumPeriods(slot, s) \in Nat
    BY <1>1, <1>2, Periods
  <2>2. p(slot) \in Nat
    BY <1>1, <2>1
  <2>3. ~ (slot < s.cliff_time)
    BY <1>1, <1>2
  <2> QED
    BY <1>2, <2>2, <2>3 DEF Minimum
<1>3. ASSUME NEW slot \in Nat
      PROVE  /\ Minimum(slot, s) \in Nat
             /\ Minimum(slot, s) <= s.initial_minimum_balance
  <2>1. CASE slot < s.cliff_time \/ s.vesting_period = 0
    BY <1>1, <2>1 DEF Minimum
  <2>2. CASE ~ (slot < s.cliff_time) /\ s.vesting_period # 0
    <3>1. /\ p(slot) \in Nat
          /\ Minimum(slot, s) = IF left(slot) < 0 THEN 0 ELSE left(slot)
      BY <1>1, <1>2, <2>2
    <3> HIDE DEF p
    <3> QED
      BY <1>1, <3>1
  <2> QED
    BY <2>1, <2>2
<1>4. CASE from < s.cliff_time
  BY <1>1, <1>3, <1>4 DEF Minimum
<1>5. CASE ~ (from < s.cliff_time) /\ s.vesting_period = 0
  BY <1>1, <1>5 DEF Minimum
<1>6. CASE ~ (from < s.cliff_time) /\ s.vesting_period # 0
  <2>1. s.cliff_time <= from /\ s.cliff_time <= to
    BY <1>1, <1>6
  <2>2. NumPeriods(from, s) <= NumPeriods(to, s)
    <3> DEFINE a == from - s.cliff_time
               b == to - s.cliff_time
               d == s.vesting_period
    <3>1. a \in Nat /\ b \in Nat /\ a <= b /\ d \in Nat \ {0}
      BY <1>1, <1>6, <2>1
    <3> HIDE DEF a, b, d
    <3>2. a \div d <= b \div d
      BY <3>1, DivMonotone
    <3> QED
      BY <3>2 DEF NumPeriods, a, b, d
  <2>3. p(from) <= p(to)
    BY <1>1, <1>6, <2>1, <2>2, Periods, TimesMonotone
  <2>4. /\ p(from) \in Nat /\ p(to) \in Nat
        /\ Minimum(from, s) = IF left(from) < 0 THEN 0 ELSE left(from)
        /\ Minimum(to, s) = IF left(to) < 0 THEN 0 ELSE left(to)
    BY <1>2, <1>6, <2>1
  <2> HIDE DEF p
  <2>5. left(to) <= left(from) /\ left(to) \in Int /\ left(from) \in Int
    BY <1>1, <2>3, <2>4
  <2> HIDE DEF left
  <2> QED
    BY <1>3, <2>4, <2>5
<1> QED
  BY <1>3, <1>4, <1>5, <1>6

\* What incremental_balance_between_slots gives, where it does not panic.
LEMMA IncrementalIs ==
  ASSUME NEW s \in Schedules \ {None}, NEW from \in Nat, NEW to \in Nat,
         ~ IncrementalPanics(from, to, s)
  PROVE  LET freed == IF to <= from THEN 0 ELSE Minimum(from, s) - Minimum(to, s)
         IN  freed >= 0 /\ Incremental(from, to, s) = freed
<1>1. CASE to <= from
  BY <1>1 DEF Incremental
<1>2. CASE ~ (to <= from)
  <2>1. from < to /\ ~ Panics(from, s) /\ ~ Panics(to, s)
    BY <1>2 DEF IncrementalPanics
  <2>2. MinBalance(from, s) = Minimum(from, s) /\ MinBalance(to, s) = Minimum(to, s)
    BY <2>1, MinBalanceIsMinimum
  <2>3. /\ Minimum(from, s) \in Nat /\ Minimum(to, s) \in Nat
        /\ Minimum(to, s) <= Minimum(from, s)
    BY <2>1, MinimumFalls
  <2>4. Incremental(from, to, s) = Minimum(from, s) - Minimum(to, s)
    BY <1>2, <2>2, <2>3, Subtracts DEF Incremental
  <2> QED
    BY <1>2, <2>3, <2>4
<1> QED
  BY <1>1, <1>2

LEMMA VestingStep ==
  ReadsInv /\ VestingExact /\ [ReadsNext]_readsVars => VestingExact'
<1> SUFFICES ASSUME ReadsInv, VestingExact, [ReadsNext]_readsVars
             PROVE  VestingExact'
  OBVIOUS
<1>1. CASE UNCHANGED <<bphase, block, row, schedule, reply>>
  BY <1>1 DEF VestingExact
<1>2. CASE ReadTiming
  <2> SUFFICES ASSUME bphase' = "answered", row' # None, schedule' # None
               PROVE  LET from == Slot[row']
                          to == Slot[block']
                          freed == IF to <= from THEN 0
                                   ELSE Minimum(from, schedule') - Minimum(to, schedule')
                      IN  freed >= 0 /\ reply'.liquid = Wrap(reply'.total + freed)
    BY DEF VestingExact
  <2>1. /\ bphase = "timing" /\ schedule' \in Schedules \ {None}
        /\ row' = row /\ block' = block
        /\ ~ IncrementalPanics(Slot[row], Slot[block], schedule')
        /\ reply' = Balances(AmountAt[row], Wrap(AmountAt[row] +
             Incremental(Slot[row], Slot[block], schedule')))
    BY <1>2 DEF ReadTiming
  <2>2. Slot[row] \in Nat /\ Slot[block] \in Nat
    BY <2>1, AmountsAssumption DEF ReadsInv, BalanceTypeOK, Stored
  <2>3. /\ reply'.total = AmountAt[row]
        /\ reply'.liquid = Wrap(AmountAt[row] +
             Incremental(Slot[row], Slot[block], schedule'))
    BY <2>1 DEF Balances
  <2> QED
    BY <2>1, <2>2, <2>3, IncrementalIs
<1>3. CASE bphase' \notin {"answered"}
  BY <1>3 DEF VestingExact
<1>4. CASE FindAccount
  BY <1>4 DEF FindAccount, VestingExact
<1>5. CASE DaemonBalance
  BY <1>5 DEF DaemonBalance, VestingExact, ReadsInv, BalanceTypeOK
<1>6. CASE BalanceStep
  BY <1>2, <1>3, <1>4, <1>5, <1>6
     DEF BalanceStep, FindBlock, AskFrontier, BalanceFails, BalanceReplied
<1>7. CASE Ask
  BY <1>1, <1>3, <1>7 DEF Ask, AskBalance, balanceVars
<1> QED
  BY <1>1, <1>6, <1>7 DEF ReadsNext, BlockArrives, balanceVars, readsVars

-----------------------------------------------------------------------------
(***************************************************************************)
(* ReadsInv is inductive, for every tree of blocks and every K.            *)
(***************************************************************************)
THEOREM ReadsInvariant == ReadsSpec => []ReadsInv
BY ReadsInitInv, ReadsStep, PTL DEF ReadsSpec

(***************************************************************************)
(* The handlers of block.rs and account_balance.rs only go on with blocks  *)
(* the archive has, and their replies fit in u64.                          *)
(***************************************************************************)
THEOREM ReadsTypeCorrect == ReadsSpec => []ReadsTypeOK
<1>1. ReadsInv => ReadsTypeOK
  BY DEF ReadsInv, ReadsTypeOK, ArchiveInv
<1> QED
  BY <1>1, ReadsInvariant, PTL

(***************************************************************************)
(* account_balance.rs answers with the last row of the account on the line *)
(* of the block it found, if that block is final or no fork was visible,   *)
(* whatever the archiver writes between its two statements.                *)
(***************************************************************************)
THEOREM ReadsBalanceOfBlock == ReadsSpec => []BalanceOfBlock
<1>1. ReadsInv => BalanceOfBlock
  BY DEF ReadsInv
<1> QED
  BY <1>1, ReadsInvariant, PTL

(***************************************************************************)
(* incremental_balance_between_slots, where it answers, is exact for every *)
(* schedule and every width of the amounts.                                *)
(***************************************************************************)
THEOREM ReadsVestingExact == ReadsSpec => []VestingExact
<1>1. ReadsInit => VestingExact
  BY DEF ReadsInit, BalanceInit, VestingExact
<1> QED
  BY <1>1, VestingStep, ReadsInvariant, PTL DEF ReadsSpec

\* The second statement of a lookup by height.
LEMMA SecondStatement ==
  ASSUME ReadsInv, [ReadsNext]_readsVars,
         phase = "byIndex", phase' \in {"parent", "missing"}
  PROVE  LookupByIndex
<1>1. phase' # phase
  OBVIOUS
<1>2. CASE BlockStep
  BY <1>2 DEF BlockStep, Lookup, ReadMaxCanonical, LookupByIndex, ReadParent,
              ReadCommands, BlockFails, BlockReplied, BlockDone
<1>3. CASE UNCHANGED blockVars
  BY <1>1, <1>3 DEF blockVars
<1>4. CASE \E i \in Heights \cup {None}, h \in Blocks \cup {None} : AskBlock(i, h)
  BY <1>4 DEF AskBlock
<1> QED
  BY <1>2, <1>3, <1>4 DEF ReadsNext, Ask, BlockArrives, readsVars

(***************************************************************************)
(* block.rs answers for a height with the block of the best chain there,   *)
(* or, if the archive settled two heights or more between its statements,  *)
(* perhaps with none.                                                      *)
(***************************************************************************)
THEOREM ReadsIndexLookupRight == ReadsSpec => IndexLookupRight
<1> DEFINE Right ==
      phase = "byIndex" /\ phase' \in {"parent", "missing"}
        => IF MaxCanonicalHeight <= maxCanonical + 1
           THEN found' = OnBestChain(index)
           ELSE found' \in {None, OnBestChain(index)}
<1>1. ReadsInv /\ [ReadsNext]_readsVars => Right
  <2> SUFFICES ASSUME ReadsInv, [ReadsNext]_readsVars,
                      phase = "byIndex", phase' \in {"parent", "missing"}
               PROVE  IF MaxCanonicalHeight <= maxCanonical + 1
                      THEN found' = OnBestChain(index)
                      ELSE found' \in {None, OnBestChain(index)}
    OBVIOUS
  <2>1. PICK b \in FetchOptional(IF index <= maxCanonical THEN QueryCanonical(index)
                                 ELSE QueryPending(index)) : found' = b
    BY SecondStatement DEF LookupByIndex, Take
  <2>2. /\ Canonical # {} /\ maxCanonical <= MaxCanonicalHeight
        /\ maxCanonical \in Nat /\ index \in Nat
    BY HeightsNat DEF ReadsInv, IndexInv, BlockTypeOK
  <2>3. PICK t \in Blocks : SettledTo(t)
    <3>1. Stored # {}
      BY <2>2 DEF Stored, Canonical
    <3> QED
      BY <3>1 DEF ReadsInv, ArchiveInv
  <2>4. MaxCanonicalHeight = Height[t] /\ Height[t] \in Nat /\ Stored # {}
    BY <2>2, <2>3, TipIs, TreeAssumption DEF SettledTo, Stored, Canonical
  <2>5. CASE index <= maxCanonical
    <3>1. index <= Height[t] /\ b \in FetchOptional(QueryCanonical(index))
      BY <2>1, <2>2, <2>4, <2>5
    <3>2. b = OnBestChain(index)
      BY <2>2, <2>3, <2>4, <3>1, CanonicalLookup
    <3> QED
      BY <2>1, <3>2
  <2>6. CASE ~ (index <= maxCanonical)
    <3>1. /\ b \in FetchOptional(QueryPending(index))
          /\ MaxCanonicalHeight <= maxCanonical + 1 => Height[t] <= index
      BY <2>1, <2>2, <2>4, <2>6
    <3>2. /\ Height[t] <= index => b = OnBestChain(index)
          /\ b \in {None, OnBestChain(index)}
      BY <2>2, <2>3, <2>4, <3>1, PendingLookup
    <3> QED
      BY <2>1, <3>1, <3>2
  <2> QED
    BY <2>5, <2>6
<1>2. Right => [Right]_<<status, blockVars>>
  OBVIOUS
<1> QED
  BY <1>1, ReadsInvariant, PTL DEF ReadsSpec, IndexLookupRight
=============================================================================
