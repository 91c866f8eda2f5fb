---------------------------- MODULE SearchProofs ----------------------------
(***************************************************************************)
(* Proofs about Search: a response never names more commands than its      *)
(* limit, and a walk along next_offset always moves on; while the archive  *)
(* stands still the pages of a walk repeat nothing, total_count of a first *)
(* page is right, and a walk over a single table misses nothing.           *)
(***************************************************************************)
EXTENDS Search, FiniteSetTheorems, TLAPS

AllRows == Commands \X (Accounts \cup {"zkapp"})

Names(S) == {r[1] : r \in S}

UserRows == Cardinality(page["user"])
InternalRows == Cardinality(page["internal"])

(***************************************************************************)
(* What is known before each statement.  Before the third one there are    *)
(* two cases: the second one was a fetch, and the limit has been reduced   *)
(* by the rows of the first; or it was a count, the limit being used up.   *)
(***************************************************************************)
BeforeUsers ==
  phase = "users" =>
    /\ offset = asked.offset /\ limit = asked.limit
    /\ page = NoRows /\ total = 0

BeforeInternals ==
  phase = "internals" =>
    /\ limit = asked.limit
    /\ page["internal"] = {} /\ page["zkapp"] = {}
    /\ Cardinality(Names(page["user"])) <= asked.limit
    /\ page["user"] = {} => total = 0

BeforeZkapps ==
  phase = "zkapps" =>
    /\ page["zkapp"] = {}
    /\ \/ /\ limit >= 1
          /\ limit + UserRows = asked.limit
          /\ Cardinality(Names(page["internal"])) <= limit
          /\ page["user"] = {} /\ page["internal"] = {} => total = 0
       \/ /\ limit = asked.limit
          /\ limit <= UserRows
          /\ page["internal"] = {}

SearchInv ==
  /\ SearchTypeOK
  /\ BeforeUsers /\ BeforeInternals /\ BeforeZkapps
  /\ PageWithinLimit
  /\ WalkAdvances

-----------------------------------------------------------------------------
\* Pages are finite.
LEMMA FiniteRows ==
  ASSUME NEW S \in SUBSET AllRows
  PROVE  IsFiniteSet(S) /\ Cardinality(S) \in Nat
<1>1. IsFiniteSet(Accounts \cup {"zkapp"})
  BY AccountsAssumption, FS_Singleton, FS_Union
<1>2. IsFiniteSet(AllRows)
  BY <1>1, CommandsAssumption, FS_Product DEF AllRows
<1> QED
  BY <1>2, FS_Subset, FS_CardinalityType

\* A set of rows names no more commands than it has rows.
LEMMA NamesBound ==
  ASSUME NEW S \in SUBSET AllRows
  PROVE  /\ IsFiniteSet(Names(S))
         /\ Cardinality(Names(S)) \in Nat
         /\ Cardinality(Names(S)) <= Cardinality(S)
<1> DEFINE f == [r \in S |-> r[1]]
<1>1. f \in Surjection(S, Names(S))
  BY DEF Surjection, Names
<1>2. IsFiniteSet(S)
  BY FiniteRows
<1> HIDE DEF f
<1>3. IsFiniteSet(Names(S)) /\ Cardinality(Names(S)) <= Cardinality(S)
  BY <1>1, <1>2, FS_Surjection
<1> QED
  BY <1>3, FS_CardinalityType

\* The rank of a command is a number, and larger commands rank higher.
LEMMA RankRises ==
  ASSUME NEW S \in SUBSET Commands
  PROVE  /\ \A c \in S : Rank(c, S) \in Nat
         /\ \A c, d \in S : c < d => Rank(c, S) < Rank(d, S)
<1> DEFINE UpTo(c) == {d \in S : d <= c}
<1>1. IsFiniteSet(S)
  BY CommandsAssumption, FS_Subset
<1>2. \A c \in S : UpTo(c) \in SUBSET S
  OBVIOUS
<1>3. \A c \in S : IsFiniteSet(UpTo(c)) /\ Cardinality(UpTo(c)) \in Nat
  BY <1>1, <1>2, FS_Subset, FS_CardinalityType
<1>4. ASSUME NEW c \in S, NEW d \in S, c < d
      PROVE  Cardinality(UpTo(c)) < Cardinality(UpTo(d))
  <2>1. S \subseteq Nat
    BY CommandsAssumption
  <2>2. UpTo(c) \in SUBSET UpTo(d)
    <3>1. ASSUME NEW e \in S, e <= c
          PROVE  e <= d
      <4>1. c \in Nat /\ d \in Nat /\ e \in Nat
        BY <2>1
      <4> QED
        BY <4>1, <3>1, <1>4
    <3> QED
      BY <3>1
  <2>3. d \in UpTo(d) /\ d \notin UpTo(c)
    BY <2>1, <1>4
  <2> HIDE DEF UpTo
  <2>4. /\ Cardinality(UpTo(c)) <= Cardinality(UpTo(d))
        /\ Cardinality(UpTo(d)) = Cardinality(UpTo(c)) => UpTo(d) = UpTo(c)
    BY <2>2, <1>3, FS_Subset
  <2> QED
    BY <2>3, <2>4, <1>3
<1>5. \A c \in S : Rank(c, S) = Cardinality(UpTo(c))
  BY DEF Rank
<1> HIDE DEF UpTo
<1>6. \A c \in S : Rank(c, S) \in Nat
  BY <1>3, <1>5
<1>7. ASSUME NEW c \in S, NEW d \in S, c < d
      PROVE  Rank(c, S) < Rank(d, S)
  <2>1. Rank(c, S) = Cardinality(UpTo(c)) /\ Rank(d, S) = Cardinality(UpTo(d))
    BY <1>5
  <2>2. Cardinality(UpTo(c)) < Cardinality(UpTo(d))
    BY <1>4, <1>7
  <2> QED
    BY <2>1, <2>2
<1> QED
  BY <1>6, <1>7

\* LIMIT l lets at most l commands through.
LEMMA SliceBound ==
  ASSUME NEW S \in SUBSET Commands, NEW o \in Nat, NEW l \in Nat
  PROVE  /\ Slice(S, o, l) \in SUBSET S
         /\ Cardinality(Slice(S, o, l)) <= l
<1> DEFINE T == (o + 1)..(o + l)
           f == [c \in Slice(S, o, l) |-> Rank(c, S)]
<1>1. Slice(S, o, l) \in SUBSET S
  BY DEF Slice
<1>2. \A c \in Slice(S, o, l) : Rank(c, S) \in T
  <2>1. \A c \in S : Rank(c, S) \in Nat
    BY RankRises
  <2> QED
    BY <2>1 DEF Slice
<1>3. \A c, d \in Slice(S, o, l) : Rank(c, S) = Rank(d, S) => c = d
  <2>1. S \subseteq Nat
    BY CommandsAssumption
  <2>2. /\ \A c \in S : Rank(c, S) \in Nat
        /\ \A c, d \in S : c < d => Rank(c, S) < Rank(d, S)
    BY RankRises
  <2>3. SUFFICES ASSUME NEW c \in Slice(S, o, l), NEW d \in Slice(S, o, l), c # d
                 PROVE  Rank(c, S) # Rank(d, S)
    OBVIOUS
  <2>4. c \in S /\ d \in S /\ c \in Nat /\ d \in Nat
    BY <1>1, <2>1, <2>3
  <2>5. c < d \/ d < c
    BY <2>3, <2>4
  <2>6. Rank(c, S) < Rank(d, S) \/ Rank(d, S) < Rank(c, S)
    BY <2>2, <2>4, <2>5
  <2> QED
    BY <2>2, <2>4, <2>6
<1>4. f \in Injection(Slice(S, o, l), T)
  BY <1>2, <1>3 DEF Injection, IsInjective
<1>5. IsFiniteSet(T) /\ Cardinality(T) = l
  BY FS_Interval
<1> HIDE DEF f, T
<1> QED
  BY <1>1, <1>4, <1>5, FS_Injection

\* What a statement returns: rows of the request's commands, naming at most
\* l of them.
LEMMA FetchBound ==
  ASSUME SearchTypeOK, NEW t \in Tables, NEW o \in Nat, NEW l \in Nat,
         NEW rows \in {Joined(Slice(Matching(t), o, l)), Grouped(Slice(Matching(t), o, l))}
  PROVE  /\ rows \in SUBSET AllRows
         /\ Cardinality(Names(rows)) \in Nat
         /\ Cardinality(Names(rows)) <= l
         /\ TotalCount(t, rows) \in Nat
         /\ rows = {} => TotalCount(t, rows) = 0
<1>1. Matching(t) \in SUBSET Commands
  BY DEF Matching, SearchTypeOK
<1> DEFINE S == Slice(Matching(t), o, l)
<1>2. S \in SUBSET Commands /\ Cardinality(S) <= l
  BY <1>1, SliceBound
<1>3. IsFiniteSet(S) /\ IsFiniteSet(Matching(t))
  BY <1>1, <1>2, CommandsAssumption, FS_Subset
<1>4. /\ Joined(S) \in SUBSET AllRows /\ Grouped(S) \in SUBSET AllRows
      /\ Names(Joined(S)) \in SUBSET S /\ Names(Grouped(S)) \in SUBSET S
  BY <1>2 DEF Joined, Grouped, AllRows, Names
<1>5. rows \in SUBSET AllRows /\ Names(rows) \in SUBSET S
  BY <1>4
<1>6. Cardinality(S) \in Nat /\ Cardinality(Matching(t)) \in Nat
  BY <1>3, FS_CardinalityType
<1>7. Cardinality(Names(rows)) <= Cardinality(S)
  BY <1>3, <1>5, FS_Subset
<1> HIDE DEF S
<1>8. TotalCount(t, rows) \in Nat /\ (rows = {} => TotalCount(t, rows) = 0)
  BY <1>6 DEF TotalCount
<1> QED
  BY <1>2, <1>5, <1>6, <1>7, <1>8, NamesBound

\* The commands of a page are no more than those of its parts together.
LEMMA FoundBound ==
  ASSUME NEW p \in [Tables -> SUBSET AllRows]
  PROVE  Cardinality(Names(UNION {p[t] : t \in Tables})) <=
           Cardinality(Names(p["user"])) + Cardinality(Names(p["internal"]))
             + Cardinality(Names(p["zkapp"]))
<1> DEFINE u == Names(p["user"])
           i == Names(p["internal"])
           z == Names(p["zkapp"])
<1>1. Names(UNION {p[t] : t \in Tables}) = (u \cup i) \cup z
  BY DEF Names, Tables
<1>2. \A t \in Tables : p[t] \in SUBSET AllRows
  OBVIOUS
<1>3. IsFiniteSet(u) /\ IsFiniteSet(i) /\ IsFiniteSet(z)
  BY <1>2, NamesBound DEF Tables
<1> HIDE DEF u, i, z
<1>4. IsFiniteSet(u \cup i) /\ IsFiniteSet(u \cap i) /\ IsFiniteSet((u \cup i) \cap z)
  BY <1>3, FS_Union, FS_Subset
<1>5. /\ Cardinality(u) \in Nat /\ Cardinality(i) \in Nat /\ Cardinality(z) \in Nat
      /\ Cardinality(u \cap i) \in Nat /\ Cardinality((u \cup i) \cap z) \in Nat
      /\ Cardinality(u \cup i) \in Nat
  BY <1>3, <1>4, FS_CardinalityType
<1>6. Cardinality(u \cup i) = Cardinality(u) + Cardinality(i) - Cardinality(u \cap i)
  BY <1>3, FS_Union
<1>7. Cardinality((u \cup i) \cup z) =
        Cardinality(u \cup i) + Cardinality(z) - Cardinality((u \cup i) \cap z)
  BY <1>3, <1>4, FS_Union
<1>8. Cardinality((u \cup i) \cup z) <= Cardinality(u) + Cardinality(i) + Cardinality(z)
  BY <1>5, <1>6, <1>7
<1> QED
  BY <1>1, <1>8 DEF u, i, z

-----------------------------------------------------------------------------
\* What the page of a state in SearchInv is made of.
LEMMA PageParts ==
  ASSUME SearchTypeOK
  PROVE  /\ page \in [Tables -> SUBSET AllRows]
         /\ \A t \in Tables :
              /\ IsFiniteSet(page[t]) /\ Cardinality(page[t]) \in Nat
              /\ Cardinality(Names(page[t])) \in Nat
              /\ Cardinality(Names(page[t])) <= Cardinality(page[t])
              /\ Cardinality(page[t]) = 0 <=> page[t] = {}
<1>1. page \in [Tables -> SUBSET AllRows]
  BY DEF SearchTypeOK, AllRows
<1>2. \A t \in Tables : page[t] \in SUBSET AllRows
  BY <1>1
<1> QED
  BY <1>1, <1>2, FiniteRows, NamesBound, FS_EmptySet

LEMMA NoRowsNoNames ==
  Names({}) = {} /\ Cardinality({}) = 0
BY FS_EmptySet DEF Names

\* A page without rows is within any limit.
LEMMA EmptyPage ==
  ASSUME SearchTypeOK', page' = NoRows
  PROVE  PageWithinLimit'
<1>1. Found' = {}
  BY DEF Found, Rows, NoRows, Tables
<1>2. asked'.limit \in Nat
  BY DEF SearchTypeOK
<1> QED
  BY <1>1, <1>2, FS_EmptySet DEF PageWithinLimit

\* The limit holds when the parts of the page keep it together.
LEMMA PartsWithinLimit ==
  ASSUME SearchTypeOK,
         Cardinality(Names(page["user"])) + Cardinality(Names(page["internal"]))
           + Cardinality(Names(page["zkapp"])) <= asked.limit
  PROVE  PageWithinLimit
<1>1. page \in [Tables -> SUBSET AllRows]
  BY PageParts
<1>2. Found = Names(UNION {page[t] : t \in Tables})
  BY DEF Found, Rows, Names
<1>3. Found \in SUBSET Commands
  BY <1>1 DEF Found, Rows, AllRows, Tables
<1>4. Cardinality(Found) \in Nat
  BY <1>3, CommandsAssumption, FS_Subset, FS_CardinalityType
<1>5. Cardinality(Names(UNION {page[t] : t \in Tables})) <=
        Cardinality(Names(page["user"])) + Cardinality(Names(page["internal"]))
          + Cardinality(Names(page["zkapp"]))
  BY <1>1, FoundBound
<1>6. /\ Cardinality(Names(page["user"])) \in Nat
      /\ Cardinality(Names(page["internal"])) \in Nat
      /\ Cardinality(Names(page["zkapp"])) \in Nat
      /\ asked.limit \in Nat
  <2>1. asked.limit \in Nat
    BY DEF SearchTypeOK
  <2>2. \A t \in Tables : Cardinality(Names(page[t])) \in Nat
    BY PageParts
  <2>3. "user" \in Tables /\ "internal" \in Tables /\ "zkapp" \in Tables
    BY DEF Tables
  <2> QED
    BY <2>1, <2>2, <2>3
<1>7. Cardinality(Found) <=
        Cardinality(Names(page["user"])) + Cardinality(Names(page["internal"]))
          + Cardinality(Names(page["zkapp"]))
  BY <1>2, <1>5
<1>8. Cardinality(Found) <= asked.limit
  BY <1>4, <1>6, <1>7
<1> QED
  BY <1>8 DEF PageWithinLimit

LEMMA InitSearchInv == SearchInit => SearchInv
<1> SUFFICES ASSUME SearchInit PROVE SearchInv
  OBVIOUS
<1>1. SearchTypeOK
  BY BlocksAssumption, NoOffsetAssumption, ChangesAssumption
     DEF SearchInit, SearchTypeOK, NoRows, Tables, Statuses
<1>2. Found = {}
  BY DEF SearchInit, Found, Rows, NoRows, Tables
<1>3. PageWithinLimit
  BY <1>2, FS_EmptySet DEF SearchInit, PageWithinLimit
<1> QED
  BY <1>1, <1>3 DEF SearchInit, SearchInv, BeforeUsers, BeforeInternals,
     BeforeZkapps, WalkAdvances

\* A request begins, the client's first of a walk or a later one.
LEMMA StartInv ==
  ASSUME SearchInv, NEW request \in [wanted : SUBSET Commands, offset : Nat, limit : Nat],
         Start(request), status' = status, changes' = changes,
         origin' \in Nat, walked' \in SUBSET AllRows, steady' \in BOOLEAN
  PROVE  SearchInv'
<1>1. SearchTypeOK'
  BY DEF SearchInv, SearchTypeOK, Start, AllRows, NoRows
<1>2. PageWithinLimit'
  BY <1>1, EmptyPage DEF Start
<1> QED
  BY <1>1, <1>2 DEF SearchInv, Start, BeforeUsers, BeforeInternals, BeforeZkapps,
     WalkAdvances

LEMMA SearchActionInv ==
  ASSUME SearchInv, NEW wanted \in SUBSET Commands, NEW o \in Offsets, NEW l \in Limits,
         Search(wanted, o, l)
  PROVE  SearchInv'
<1>1. [wanted |-> wanted, offset |-> o, limit |-> l]
        \in [wanted : SUBSET Commands, offset : Nat, limit : Nat]
  BY RequestsAssumption
<1>2. origin' \in Nat /\ walked' \in SUBSET AllRows /\ steady' \in BOOLEAN
  BY RequestsAssumption DEF Search
<1> QED
  BY <1>1, <1>2, StartInv DEF Search, archiveVars

LEMMA ContinueInv ==
  ASSUME SearchInv, Continue
  PROVE  SearchInv'
<1>1. SearchTypeOK
  BY DEF SearchInv
<1>2. [asked EXCEPT !.offset = next] \in [wanted : SUBSET Commands, offset : Nat, limit : Nat]
  BY <1>1 DEF SearchTypeOK, Continue
<1>3. walked' \in SUBSET AllRows
  BY <1>1 DEF SearchTypeOK, Continue, AllRows, Tables
<1>4. origin' \in Nat /\ steady' \in BOOLEAN
  BY <1>1 DEF SearchTypeOK, Continue
<1> QED
  BY <1>2, <1>3, <1>4, StartInv DEF Continue, archiveVars

LEMMA FailInv ==
  ASSUME SearchInv, Fail
  PROVE  SearchInv'
<1>1. SearchTypeOK'
  BY DEF SearchInv, SearchTypeOK, Fail, NoRows, archiveVars, walkVars
<1>2. PageWithinLimit'
  BY <1>1, EmptyPage DEF Fail
<1> QED
  BY <1>1, <1>2 DEF SearchInv, Fail, BeforeUsers, BeforeInternals, BeforeZkapps,
     WalkAdvances

LEMMA FetchUsersInv ==
  ASSUME SearchInv, FetchUsers
  PROVE  SearchInv'
<1> DEFINE rows == Joined(Slice(Matching("user"), offset, limit))
<1>1. SearchTypeOK /\ "user" \in Tables /\ asked.limit \in Nat
  BY DEF SearchInv, SearchTypeOK, Tables
<1>2. /\ offset = asked.offset /\ limit = asked.limit /\ page = NoRows /\ total = 0
      /\ offset \in Nat /\ limit \in Nat
  BY DEF SearchInv, BeforeUsers, FetchUsers, SearchTypeOK
<1>3. /\ rows \in SUBSET AllRows
      /\ Cardinality(Names(rows)) \in Nat /\ Cardinality(Names(rows)) <= limit
      /\ TotalCount("user", rows) \in Nat
      /\ rows = {} => TotalCount("user", rows) = 0
  BY <1>1, <1>2, FetchBound
<1> HIDE DEF rows
<1>4. /\ page' = [page EXCEPT !["user"] = rows]
      /\ total' = total + TotalCount("user", rows)
      /\ phase' = "internals"
      /\ UNCHANGED <<archiveVars, walkVars, offset, limit, next>>
  BY DEF FetchUsers, fetch_user_commands, rows
<1>5. page'["user"] = rows /\ page'["internal"] = {} /\ page'["zkapp"] = {}
  BY <1>2, <1>4 DEF NoRows, Tables
<1>6. SearchTypeOK'
  BY <1>1, <1>2, <1>3, <1>4 DEF SearchTypeOK, archiveVars, walkVars, AllRows
<1>7. BeforeInternals'
  BY <1>2, <1>3, <1>4, <1>5 DEF BeforeInternals, walkVars
<1>8. PageWithinLimit'
  <2>1. Cardinality(Names(rows)) + 0 + 0 <= asked'.limit
    BY <1>1, <1>2, <1>3, <1>4 DEF walkVars
  <2>2. (Cardinality(Names(page["user"])) + Cardinality(Names(page["internal"]))
          + Cardinality(Names(page["zkapp"])) <= asked.limit)'
    BY <1>5, <2>1, NoRowsNoNames
  <2> QED
    BY <1>6, <2>2, PartsWithinLimit, PTL
<1> QED
  BY <1>4, <1>6, <1>7, <1>8 DEF SearchInv, BeforeUsers, BeforeZkapps, WalkAdvances

LEMMA FetchInternalsInv ==
  ASSUME SearchInv, FetchInternals
  PROVE  SearchInv'
<1> DEFINE o == Less(offset, UserRows)
           l == Less(limit, UserRows)
           rows == Joined(Slice(Matching("internal"), o, l))
<1>1. SearchTypeOK /\ "internal" \in Tables
  BY DEF SearchInv, Tables
<1>2. /\ limit = asked.limit
      /\ page["internal"] = {} /\ page["zkapp"] = {}
      /\ Cardinality(Names(page["user"])) <= asked.limit
      /\ page["user"] = {} => total = 0
  BY DEF SearchInv, BeforeInternals, FetchInternals
<1>3. /\ UserRows \in Nat
      /\ Cardinality(Names(page["user"])) \in Nat
      /\ Cardinality(Names(page["user"])) <= UserRows
  <2>1. "user" \in Tables
    BY DEF Tables
  <2> QED
    BY <1>1, <2>1, PageParts DEF UserRows
<1>4. offset \in Nat /\ limit \in Nat /\ limit > UserRows
  <2>1. InternalRows = 0
    BY <1>2, NoRowsNoNames DEF InternalRows
  <2> QED
    BY <1>1, <1>3, <2>1 DEF SearchTypeOK, FetchInternals, PageLen, UserRows, InternalRows
<1>5. o \in Nat /\ l \in Nat /\ l >= 1 /\ l + UserRows = asked.limit
  BY <1>2, <1>3, <1>4 DEF Less
<1>6. /\ offset' = o /\ limit' = l /\ phase' = "zkapps"
      /\ page' = [page EXCEPT !["internal"] = rows]
      /\ total' = total + TotalCount("internal", rows)
      /\ UNCHANGED <<archiveVars, walkVars, next>>
  BY DEF FetchInternals, fetch_internal_commands, UserRows
<1> HIDE DEF o, l
<1>7. /\ rows \in SUBSET AllRows
      /\ Cardinality(Names(rows)) \in Nat /\ Cardinality(Names(rows)) <= l
      /\ TotalCount("internal", rows) \in Nat
      /\ rows = {} => TotalCount("internal", rows) = 0
  BY <1>1, <1>5, FetchBound
<1> HIDE DEF rows
<1>8. page'["user"] = page["user"] /\ page'["internal"] = rows /\ page'["zkapp"] = {}
  BY <1>1, <1>2, <1>6 DEF SearchTypeOK, Tables
<1>9. SearchTypeOK'
  BY <1>1, <1>5, <1>6, <1>7 DEF SearchTypeOK, archiveVars, walkVars, AllRows
<1>10. BeforeZkapps'
  <2>1. UserRows' = UserRows
    BY <1>8 DEF UserRows
  <2> QED
    BY <1>1, <1>2, <1>5, <1>6, <1>7, <1>8, <2>1 DEF BeforeZkapps, walkVars, SearchTypeOK
<1>11. PageWithinLimit'
  <2>1. Cardinality(Names(page["user"])) + Cardinality(Names(rows)) + 0 <= asked'.limit
    BY <1>3, <1>5, <1>6, <1>7 DEF walkVars
  <2>2. (Cardinality(Names(page["user"])) + Cardinality(Names(page["internal"]))
          + Cardinality(Names(page["zkapp"])) <= asked.limit)'
    BY <1>8, <2>1, NoRowsNoNames
  <2> QED
    BY <1>9, <2>2, PartsWithinLimit, PTL
<1> QED
  BY <1>6, <1>9, <1>10, <1>11 DEF SearchInv, BeforeUsers, BeforeInternals, WalkAdvances

LEMMA CountInternalsInv ==
  ASSUME SearchInv, CountInternals
  PROVE  SearchInv'
<1> DEFINE first == Joined(Slice(Matching("internal"), 0, 1))
<1>1. SearchTypeOK /\ "internal" \in Tables
  BY DEF SearchInv, Tables
<1>2. TotalCount("internal", first) \in Nat
  BY <1>1, FetchBound
<1> HIDE DEF first
<1>3. /\ limit <= PageLen /\ phase' = "zkapps" /\ phase = "internals"
      /\ total' = total + TotalCount("internal", first)
      /\ UNCHANGED <<archiveVars, walkVars, offset, limit, page, next>>
  BY DEF CountInternals, fetch_internal_commands, first
<1>4. SearchTypeOK'
  BY <1>1, <1>2, <1>3 DEF SearchTypeOK, archiveVars, walkVars
<1>5. BeforeZkapps'
  <2>1. limit = asked.limit /\ page["internal"] = {} /\ page["zkapp"] = {}
    BY <1>3 DEF SearchInv, BeforeInternals
  <2>2. UserRows \in Nat
    <3>1. "user" \in Tables
      BY DEF Tables
    <3> QED
      BY <1>1, <3>1, PageParts DEF UserRows
  <2>3. limit <= UserRows
    BY <1>1, <1>3, <2>1, <2>2, NoRowsNoNames DEF PageLen, UserRows, SearchTypeOK
  <2> QED
    BY <1>3, <2>1, <2>3 DEF BeforeZkapps, UserRows, walkVars
<1>6. PageWithinLimit'
  BY <1>3 DEF SearchInv, PageWithinLimit, Found, Rows, walkVars
<1> QED
  BY <1>3, <1>4, <1>5, <1>6 DEF SearchInv, BeforeUsers, BeforeInternals, WalkAdvances

\* A response of some transactions, or of none with a count of zero, leads
\* forward.
LEMMA RespondAdvances ==
  ASSUME SearchTypeOK, NEW len \in Nat, NEW count \in Nat, Respond(len, count),
         asked' = asked, len = 0 /\ asked.limit >= 1 => count = 0
  PROVE  /\ WalkAdvances'
         /\ next' \in Nat \cup {None} /\ total' \in Nat /\ phase' = "answered"
<1>1. asked.offset \in Nat /\ asked.limit \in Nat
  BY DEF SearchTypeOK
<1>2. /\ next' = IF asked.offset + len < count THEN asked.offset + len ELSE None
      /\ total' = count /\ phase' = "answered"
  BY DEF Respond
<1>3. ASSUME asked.limit >= 1, next' # None
      PROVE  next' > asked.offset
  <2>1. asked.offset + len < count /\ next' = asked.offset + len
    BY <1>2, <1>3
  <2>2. len # 0
    BY <1>1, <1>3, <2>1
  <2> QED
    BY <1>1, <2>1, <2>2
<1>4. WalkAdvances'
  BY <1>3 DEF WalkAdvances
<1> QED
  BY <1>1, <1>2, <1>4

LEMMA FetchZkappsInv ==
  ASSUME SearchInv, FetchZkapps
  PROVE  SearchInv'
<1> DEFINE o == Less(offset, InternalRows)
           l == Less(limit, InternalRows)
           rows == Grouped(Slice(Matching("zkapp"), o, l))
           len == PageLen + Cardinality(rows)
           count == total + TotalCount("zkapp", rows)
<1>1. /\ SearchTypeOK
      /\ "user" \in Tables /\ "internal" \in Tables /\ "zkapp" \in Tables
  BY DEF SearchInv, Tables
<1>2. /\ UserRows \in Nat /\ InternalRows \in Nat
      /\ UserRows = 0 <=> page["user"] = {}
      /\ InternalRows = 0 <=> page["internal"] = {}
      /\ Cardinality(Names(page["user"])) \in Nat
      /\ Cardinality(Names(page["user"])) <= UserRows
      /\ Cardinality(Names(page["internal"])) \in Nat
      /\ Cardinality(Names(page["internal"])) <= InternalRows
  BY <1>1, PageParts DEF UserRows, InternalRows
<1>3. /\ offset \in Nat /\ limit \in Nat /\ total \in Nat /\ asked.limit \in Nat
      /\ PageLen = UserRows + InternalRows /\ limit > PageLen
  BY <1>1 DEF SearchTypeOK, FetchZkapps, PageLen, UserRows, InternalRows
<1>4. /\ limit + UserRows = asked.limit
      /\ page["user"] = {} /\ page["internal"] = {} => total = 0
  <2>1. ~(limit <= UserRows)
    BY <1>2, <1>3
  <2> QED
    BY <2>1 DEF SearchInv, BeforeZkapps, FetchZkapps
<1>5. o \in Nat /\ l \in Nat /\ l + InternalRows = limit
  BY <1>2, <1>3 DEF Less
<1>6. /\ offset' = o /\ limit' = l
      /\ page' = [page EXCEPT !["zkapp"] = rows]
      /\ Respond(len, count)
      /\ UNCHANGED <<archiveVars, walkVars>>
  BY DEF FetchZkapps, fetch_zkapp_commands, InternalRows
<1> HIDE DEF o, l
<1>7. /\ rows \in SUBSET AllRows
      /\ Cardinality(Names(rows)) \in Nat /\ Cardinality(Names(rows)) <= l
      /\ TotalCount("zkapp", rows) \in Nat
      /\ rows = {} => TotalCount("zkapp", rows) = 0
  BY <1>1, <1>5, FetchBound
<1> HIDE DEF rows
<1>8. Cardinality(rows) \in Nat /\ (Cardinality(rows) = 0 <=> rows = {})
  BY <1>7, FiniteRows, FS_EmptySet
<1>9. len \in Nat /\ count \in Nat /\ (len = 0 => count = 0)
  <2>1. len \in Nat /\ count \in Nat
    BY <1>2, <1>3, <1>7, <1>8
  <2>2. len = 0 => UserRows = 0 /\ InternalRows = 0 /\ Cardinality(rows) = 0
    <3>1. len = UserRows + InternalRows + Cardinality(rows)
      BY <1>3
    <3>2. UserRows \in Nat /\ InternalRows \in Nat /\ Cardinality(rows) \in Nat
      BY <1>2, <1>8
    <3>3. \A a, b, c \in Nat : a + b + c = 0 => a = 0 /\ b = 0 /\ c = 0
      OBVIOUS
    <3>4. ASSUME len = 0
          PROVE  UserRows + InternalRows + Cardinality(rows) = 0
      BY <3>1, <3>4
    <3> QED
      BY <3>2, <3>3, <3>4
  <2>3. len = 0 => total = 0 /\ TotalCount("zkapp", rows) = 0
    BY <2>2, <1>2, <1>4, <1>7, <1>8
  <2>4. len = 0 => count = 0
    BY <2>3
  <2> QED
    BY <2>1, <2>4
<1> HIDE DEF len, count
<1>10. /\ WalkAdvances'
       /\ next' \in Nat \cup {None} /\ total' \in Nat /\ phase' = "answered"
  BY <1>1, <1>6, <1>9, RespondAdvances DEF walkVars
<1>11. /\ page'["user"] = page["user"] /\ page'["internal"] = page["internal"]
       /\ page'["zkapp"] = rows
  BY <1>1, <1>6 DEF SearchTypeOK, Tables
<1>12. SearchTypeOK'
  BY <1>1, <1>5, <1>6, <1>7, <1>10 DEF SearchTypeOK, archiveVars, walkVars, AllRows
<1>13. PageWithinLimit'
  <2>1. Cardinality(Names(page["user"])) + Cardinality(Names(page["internal"]))
          + Cardinality(Names(rows)) <= asked'.limit
    BY <1>2, <1>3, <1>4, <1>5, <1>6, <1>7 DEF walkVars
  <2>2. (Cardinality(Names(page["user"])) + Cardinality(Names(page["internal"]))
          + Cardinality(Names(page["zkapp"])) <= asked.limit)'
    BY <1>11, <2>1
  <2> QED
    BY <1>12, <2>2, PartsWithinLimit, PTL
<1> QED
  BY <1>10, <1>12, <1>13 DEF SearchInv, BeforeUsers, BeforeInternals, BeforeZkapps

LEMMA CountZkappsInv ==
  ASSUME SearchInv, CountZkapps
  PROVE  SearchInv'
<1> DEFINE first == Grouped(Slice(Matching("zkapp"), 0, 1))
           count == total + TotalCount("zkapp", first)
<1>1. /\ SearchTypeOK
      /\ "user" \in Tables /\ "internal" \in Tables /\ "zkapp" \in Tables
  BY DEF SearchInv, Tables
<1>2. TotalCount("zkapp", first) \in Nat
  BY <1>1, FetchBound
<1> HIDE DEF first
<1>3. UserRows \in Nat /\ InternalRows \in Nat
  BY <1>1, PageParts DEF UserRows, InternalRows
<1>4. /\ PageLen \in Nat /\ limit <= PageLen /\ count \in Nat
      /\ limit \in Nat /\ asked.limit \in Nat
  BY <1>1, <1>2, <1>3 DEF CountZkapps, PageLen, UserRows, InternalRows, SearchTypeOK
<1>5. /\ Respond(PageLen, count)
      /\ UNCHANGED <<archiveVars, walkVars, offset, limit, page>>
  BY DEF CountZkapps, fetch_zkapp_commands, first
<1>6. limit >= 1 \/ limit = asked.limit
  BY DEF SearchInv, BeforeZkapps, CountZkapps
<1>7. ~(PageLen = 0 /\ asked.limit >= 1)
  BY <1>4, <1>6
<1> HIDE DEF count
<1>8. /\ WalkAdvances'
      /\ next' \in Nat \cup {None} /\ total' \in Nat /\ phase' = "answered"
  BY <1>1, <1>4, <1>5, <1>7, RespondAdvances DEF walkVars
<1>9. SearchTypeOK'
  BY <1>1, <1>5, <1>8 DEF SearchTypeOK, archiveVars, walkVars
<1>10. PageWithinLimit'
  BY <1>5 DEF SearchInv, PageWithinLimit, Found, Rows, walkVars
<1> QED
  BY <1>8, <1>9, <1>10 DEF SearchInv, BeforeUsers, BeforeInternals, BeforeZkapps

\* The archive moves under the handler's feet, not its variables.
LEMMA ArchiveInv ==
  ASSUME SearchInv, NEW b \in Blocks, BlockArrives(b) \/ Canonicalise(b)
  PROVE  SearchInv'
<1>1. UNCHANGED <<asked, origin, walked, phase, offset, limit, page, total, next>>
  BY Zenon DEF BlockArrives, Canonicalise
<1>2. status' \in [Blocks -> Statuses]
  BY DEF BlockArrives, Canonicalise, SearchInv, SearchTypeOK, Statuses
<1>3. changes' \in 0..MaxChanges /\ steady' \in BOOLEAN
  <2>1. changes \in 0..MaxChanges /\ changes < MaxChanges /\ changes' = changes + 1
    BY DEF BlockArrives, Canonicalise, SearchInv, SearchTypeOK
  <2>2. steady' \in BOOLEAN
    BY DEF BlockArrives, Canonicalise
  <2>3. changes + 1 \in 0..MaxChanges
    BY <2>1, ChangesAssumption
  <2> QED
    BY <2>1, <2>2, <2>3
<1>4. SearchTypeOK'
  BY <1>1, <1>2, <1>3 DEF SearchInv, SearchTypeOK
<1> QED
  BY <1>1, <1>4 DEF SearchInv, BeforeUsers, BeforeInternals, BeforeZkapps,
     PageWithinLimit, Found, Rows, WalkAdvances, UserRows

LEMMA NextSearchInv == SearchInv /\ [SearchNext]_searchVars => SearchInv'
<1> SUFFICES ASSUME SearchInv, [SearchNext]_searchVars PROVE SearchInv'
  OBVIOUS
<1>1. CASE UNCHANGED searchVars
  BY <1>1 DEF searchVars, archiveVars, walkVars, SearchInv, SearchTypeOK, BeforeUsers,
     BeforeInternals, BeforeZkapps, PageWithinLimit, Found, Rows, WalkAdvances, UserRows
<1>2. CASE \E wanted \in SUBSET Commands, o \in Offsets, l \in Limits : Search(wanted, o, l)
  BY <1>2, SearchActionInv
<1>3. CASE Continue \/ Fail
  BY <1>3, ContinueInv, FailInv
<1>4. CASE FetchUsers
  BY <1>4, FetchUsersInv
<1>5. CASE FetchInternals \/ CountInternals
  BY <1>5, FetchInternalsInv, CountInternalsInv
<1>6. CASE FetchZkapps \/ CountZkapps
  BY <1>6, FetchZkappsInv, CountZkappsInv
<1>7. CASE \E b \in Blocks : BlockArrives(b) \/ Canonicalise(b)
  BY <1>7, ArchiveInv
<1> QED
  BY <1>1, <1>2, <1>3, <1>4, <1>5, <1>6, <1>7 DEF SearchNext

-----------------------------------------------------------------------------
\* SearchInv holds throughout, whatever the archiver does between statements.
THEOREM SearchInvariant == SearchSpec => []SearchInv
BY InitSearchInv, NextSearchInv, PTL DEF SearchSpec

\* No response of search_transactions names more commands than its limit.
THEOREM SearchPageWithinLimit == SearchSpec => []PageWithinLimit
<1>1. SearchInv => PageWithinLimit
  BY DEF SearchInv
<1> QED
  BY <1>1, SearchInvariant, PTL

\* next_offset lies beyond the offset of the request it answers, so a client
\* with a limit of at least one never asks for the same page again.
THEOREM SearchWalkAdvances == SearchSpec => []WalkAdvances
<1>1. SearchInv => WalkAdvances
  BY DEF SearchInv
<1> QED
  BY <1>1, SearchInvariant, PTL
-----------------------------------------------------------------------------
\* Ranks run from 1 to the size of the table.
LEMMA RankWithin ==
  ASSUME NEW S \in SUBSET Commands, NEW c \in S
  PROVE  Rank(c, S) \in Nat /\ 1 <= Rank(c, S) /\ Rank(c, S) <= Cardinality(S)
<1> DEFINE D == {d \in S : d <= c}
<1>1. IsFiniteSet(S) /\ c \in Nat
  BY CommandsAssumption, FS_Subset
<1>2. c \in D /\ D \in SUBSET S
  BY <1>1
<1> HIDE DEF D
<1>3. IsFiniteSet(D) /\ Cardinality(D) <= Cardinality(S)
  BY <1>1, <1>2, FS_Subset
<1>4. Cardinality(D) \in Nat /\ Cardinality(D) # 0
  BY <1>2, <1>3, FS_CardinalityType, FS_EmptySet
<1>5. Rank(c, S) = Cardinality(D)
  BY DEF Rank, D
<1> QED
  BY <1>3, <1>4, <1>5

\* Slices are finite.
LEMMA SliceFinite ==
  ASSUME NEW S \in SUBSET Commands, NEW o, NEW l
  PROVE  /\ Slice(S, o, l) \in SUBSET S
         /\ IsFiniteSet(Slice(S, o, l)) /\ Cardinality(Slice(S, o, l)) \in Nat
<1>1. Slice(S, o, l) \in SUBSET S
  BY DEF Slice
<1> QED
  BY <1>1, CommandsAssumption, FS_Subset, FS_CardinalityType

\* A set that two others cover is no larger than both.
LEMMA CoverBound ==
  ASSUME NEW A, NEW B, NEW C \in SUBSET (A \cup B), IsFiniteSet(A), IsFiniteSet(B)
  PROVE  /\ IsFiniteSet(C) /\ Cardinality(C) \in Nat
         /\ Cardinality(C) <= Cardinality(A) + Cardinality(B)
<1>1. /\ IsFiniteSet(A \cup B)
      /\ Cardinality(A \cup B) = Cardinality(A) + Cardinality(B) - Cardinality(A \cap B)
  BY FS_Union
<1>2. IsFiniteSet(C) /\ Cardinality(C) <= Cardinality(A \cup B)
  BY <1>1, FS_Subset
<1>3. /\ Cardinality(A) \in Nat /\ Cardinality(B) \in Nat /\ Cardinality(C) \in Nat
      /\ Cardinality(A \cap B) \in Nat
  <2>1. IsFiniteSet(A \cap B)
    BY FS_Subset
  <2> QED
    BY <2>1, <1>2, FS_CardinalityType
<1> QED
  BY <1>1, <1>2, <1>3

\* A slice has no holes: it ends no further from its offset than it is large.
LEMMA SliceTight ==
  ASSUME NEW S \in SUBSET Commands, NEW o \in Nat, NEW l \in Nat,
         NEW c \in Slice(S, o, l)
  PROVE  o < Rank(c, S) /\ Rank(c, S) <= o + Cardinality(Slice(S, o, l))
<1> DEFINE D == {d \in S : d <= c}
           A == Slice(S, 0, o)
           B == Slice(S, o, l)
<1>1. c \in S /\ o < Rank(c, S) /\ Rank(c, S) <= o + l
  BY DEF Slice
<1>2. D \subseteq A \cup B
  <2>1. SUFFICES ASSUME NEW d \in D PROVE d \in A \cup B
    OBVIOUS
  <2>2. d \in S /\ d \in Nat /\ c \in Nat /\ d <= c
    BY <1>1, CommandsAssumption
  <2>3. Rank(d, S) \in Nat /\ 1 <= Rank(d, S) /\ Rank(c, S) \in Nat
    BY <1>1, <2>2, RankWithin
  <2>4. Rank(d, S) <= Rank(c, S)
    <3>1. CASE d = c
      BY <3>1, <2>3
    <3>2. CASE d < c
      BY <3>2, <1>1, <2>2, <2>3, RankRises
    <3> QED
      BY <2>2, <3>1, <3>2
  <2> QED
    BY <1>1, <2>2, <2>3, <2>4 DEF Slice
<1>3. IsFiniteSet(A) /\ IsFiniteSet(B) /\ Cardinality(A) \in Nat /\ Cardinality(B) \in Nat
  BY SliceFinite
<1>4. Cardinality(A) <= o
  BY SliceBound
<1>5. Rank(c, S) = Cardinality(D)
  BY DEF Rank
<1> HIDE DEF A, D
<1>6. Cardinality(D) \in Nat /\ Cardinality(D) <= Cardinality(A) + Cardinality(B)
  <2> HIDE DEF B
  <2> QED
    BY <1>2, <1>3, CoverBound
<1>7. Cardinality(D) <= o + Cardinality(B)
  <2> HIDE DEF B
  <2> QED
    BY <1>3, <1>4, <1>6
<1> QED
  BY <1>1, <1>5, <1>7

\* A slice that is shorter than its limit has reached the end of the table.
LEMMA SliceShort ==
  ASSUME NEW S \in SUBSET Commands, NEW o \in Nat, NEW l \in Nat,
         Cardinality(Slice(S, o, l)) < l
  PROVE  Cardinality(S) <= o + Cardinality(Slice(S, o, l))
<1> DEFINE m == Cardinality(S)
           A == Slice(S, 0, o)
           B == Slice(S, o, l)
           C == Slice(S, o + l, m - (o + l))
<1>1. IsFiniteSet(S) /\ m \in Nat
  BY CommandsAssumption, FS_Subset, FS_CardinalityType
<1>2. /\ IsFiniteSet(A) /\ Cardinality(A) \in Nat
      /\ IsFiniteSet(B) /\ Cardinality(B) \in Nat
      /\ IsFiniteSet(C) /\ Cardinality(C) \in Nat
  BY SliceFinite
<1>3. Cardinality(A) <= o
  BY SliceBound
<1>4. \A c \in S : Rank(c, S) \in Nat /\ 1 <= Rank(c, S) /\ Rank(c, S) <= m
  BY RankWithin
<1>5. CASE m <= o + l
  <2>1. S \subseteq A \cup B
    BY <1>1, <1>4, <1>5 DEF Slice
  <2> HIDE DEF m, A, B
  <2>2. Cardinality(S) <= Cardinality(A) + Cardinality(B)
    BY <1>2, <2>1, CoverBound
  <2>3. m <= o + Cardinality(B)
    BY <1>1, <1>2, <1>3, <2>2 DEF m
  <2> QED
    BY <2>3 DEF m, B
<1>6. CASE o + l < m
  <2>1. m - (o + l) \in Nat /\ o + l \in Nat
    BY <1>1, <1>6
  <2>2. Cardinality(C) <= m - (o + l)
    BY <2>1, SliceBound
  <2>3. S \subseteq (A \cup B) \cup C
    BY <1>1, <1>4, <1>6 DEF Slice
  <2> HIDE DEF m, A, B, C
  <2>4. IsFiniteSet(A \cup B) /\ Cardinality(A \cup B) <= Cardinality(A) + Cardinality(B)
    BY <1>2, CoverBound
  <2>5. Cardinality(S) <= Cardinality(A \cup B) + Cardinality(C)
    BY <1>2, <2>3, <2>4, CoverBound
  <2>6. Cardinality(A \cup B) \in Nat
    BY <2>4, FS_CardinalityType
  <2>7. l <= Cardinality(B)
    BY <1>1, <1>2, <1>3, <2>2, <2>4, <2>5, <2>6 DEF m
  <2> QED
    BY <2>7, <1>2 DEF B
<1> QED
  BY <1>1, <1>5, <1>6

\* Nothing is left beyond the end.
LEMMA SliceBeyond ==
  ASSUME NEW S \in SUBSET Commands, NEW o \in Nat, NEW l \in Nat, Cardinality(S) <= o
  PROVE  Slice(S, o, l) = {}
<1>1. Cardinality(S) \in Nat
  BY CommandsAssumption, FS_Subset, FS_CardinalityType
<1>2. \A c \in S : Rank(c, S) \in Nat /\ Rank(c, S) <= Cardinality(S)
  BY RankWithin
<1> QED
  BY <1>1, <1>2 DEF Slice
-----------------------------------------------------------------------------
(***************************************************************************)
(* A walk while the archive stands still.  The matching commands of each   *)
(* table stay the same, and how far a walk has come is where the next page *)
(* begins.                                                                 *)
(***************************************************************************)
Matches == [t \in Tables |-> Matching(t)]

ZkappRows == Cardinality(page["zkapp"])
Reach == asked.offset + UserRows + InternalRows + ZkappRows

\* No row of an earlier page stands beyond the offset of this one, and the
\* offset lies beyond the tables that come before the row's.
EarlierPages ==
  \A r \in walked :
    /\ Rank(r[1], Matches[TableOf[r[1]]]) <= asked.offset
    /\ TableOf[r[1]] # "user" => Cardinality(Matches["user"]) <= asked.offset
    /\ TableOf[r[1]] = "zkapp" => Cardinality(Matches["internal"]) <= asked.offset

\* Nor will a row of this one beyond the offset of the next.
ThisPage ==
  /\ \A t \in Tables : \A r \in page[t] :
       TableOf[r[1]] = t /\ Rank(r[1], Matches[t]) <= Reach
  /\ page["internal"] # {} \/ page["zkapp"] # {} => Cardinality(Matches["user"]) <= Reach
  /\ page["zkapp"] # {} => Cardinality(Matches["internal"]) <= Reach

FirstPage == asked.offset = 0 /\ asked.limit >= 1

AfterUsers ==
  phase = "internals" =>
    /\ offset = asked.offset
    /\ UserRows < limit => Cardinality(Matches["user"]) <= asked.offset + UserRows
    /\ Cardinality(Matches["user"]) <= asked.offset => page["user"] = {}
    /\ FirstPage => total = Cardinality(Matches["user"])

\* As in BeforeZkapps: the second statement was a fetch or a count.
AfterInternals ==
  phase = "zkapps" =>
    /\ FirstPage => total = Cardinality(Matches["user"]) + Cardinality(Matches["internal"])
    /\ \/ /\ offset = Less(asked.offset, UserRows)
          /\ Cardinality(Matches["user"]) <= asked.offset + UserRows
          /\ Cardinality(Matches["user"]) <= asked.offset => page["user"] = {}
          /\ InternalRows < limit => Cardinality(Matches["internal"]) <= offset + InternalRows
          /\ Cardinality(Matches["internal"]) <= offset => page["internal"] = {}
       \/ limit <= UserRows

Answered ==
  phase = "answered" =>
    /\ next # None => next = Reach
    /\ next = None => total <= Reach
    /\ FirstPage => total = Cardinality(Matches["user"]) + Cardinality(Matches["internal"])
                             + Cardinality(Matches["zkapp"])

WalkInv ==
  steady =>
    /\ EarlierPages /\ ThisPage /\ AfterUsers /\ AfterInternals
    /\ Rows \cap walked = {}
    /\ Answered

LEMMA MatchesTables ==
  ASSUME SearchTypeOK
  PROVE  \A t \in Tables : /\ Matches[t] = Matching(t)
                           /\ Matches[t] \in SUBSET Commands
                           /\ Cardinality(Matches[t]) \in Nat
                           /\ \A c \in Matches[t] : TableOf[c] = t
<1>1. \A t \in Tables : Matches[t] = Matching(t) /\ Matches[t] \in SUBSET Commands
  BY DEF Matches, Matching, SearchTypeOK
<1>2. \A t \in Tables : \A c \in Matches[t] : TableOf[c] = t
  BY DEF Matches, Matching
<1> QED
  BY <1>1, <1>2, CommandsAssumption, FS_Subset, FS_CardinalityType

\* What a statement returns for a set of commands names them, and no others.
LEMMA RowsName ==
  ASSUME NEW P \in SUBSET Commands, NEW rows \in {Joined(P), Grouped(P)}
  PROVE  rows \in SUBSET AllRows /\ Names(rows) = P
<1>1. CASE rows = Joined(P)
  <2>1. \A c \in P : \E a \in Accounts : a \in AccountsOf[c]
    BY AccountsAssumption
  <2>2. \A c \in P : \E r \in Joined(P) : r[1] = c
    <3> SUFFICES ASSUME NEW c \in P PROVE \E r \in Joined(P) : r[1] = c
      OBVIOUS
    <3>1. PICK a \in Accounts : a \in AccountsOf[c]
      BY <2>1
    <3>2. <<c, a>> \in Joined(P)
      BY <3>1 DEF Joined
    <3> QED
      BY <3>2
  <2>3. \A r \in Joined(P) : r[1] \in P
    BY DEF Joined
  <2>4. Joined(P) \in SUBSET AllRows
    BY DEF Joined, AllRows
  <2> QED
    BY <1>1, <2>2, <2>3, <2>4 DEF Names
<1>2. CASE rows = Grouped(P)
  <2>1. \A c \in P : \E r \in Grouped(P) : r[1] = c
    <3>1. \A c \in P : <<c, "zkapp">> \in Grouped(P) /\ <<c, "zkapp">>[1] = c
      BY DEF Grouped
    <3> QED
      BY <3>1
  <2>2. \A r \in Grouped(P) : r[1] \in P
    BY DEF Grouped
  <2>3. Grouped(P) \in SUBSET AllRows
    BY DEF Grouped, AllRows
  <2> QED
    BY <1>2, <2>1, <2>2, <2>3 DEF Names
<1> QED
  BY <1>1, <1>2

\* What a statement returns: rows from its offset on without a hole, to the
\* end of the table if there are fewer than its limit.
InPlace(t, o, l, rows) ==
  /\ rows \in SUBSET AllRows
  /\ Cardinality(rows) \in Nat
  /\ Cardinality(rows) = 0 <=> rows = {}
  /\ TotalCount(t, rows) \in Nat
  /\ \A r \in rows : /\ TableOf[r[1]] = t
                     /\ o < Rank(r[1], Matches[t])
                     /\ Rank(r[1], Matches[t]) <= o + Cardinality(rows)
  /\ Cardinality(rows) < l => Cardinality(Matches[t]) <= o + Cardinality(rows)
  /\ Cardinality(Matches[t]) <= o => rows = {}
  /\ o = 0 /\ l >= 1 => TotalCount(t, rows) = Cardinality(Matches[t])

LEMMA FetchPlaces ==
  ASSUME SearchTypeOK, NEW t \in Tables, NEW o \in Nat, NEW l \in Nat,
         NEW rows \in {Joined(Slice(Matching(t), o, l)), Grouped(Slice(Matching(t), o, l))}
  PROVE  InPlace(t, o, l, rows)
<1> DEFINE S == Matches[t]
           P == Slice(S, o, l)
<1>1. /\ S = Matching(t) /\ S \in SUBSET Commands /\ Cardinality(S) \in Nat
      /\ \A c \in S : TableOf[c] = t
  BY MatchesTables
<1>2. /\ P \in SUBSET S /\ Cardinality(P) \in Nat
  BY <1>1, SliceFinite
<1>3. \A c \in P : o < Rank(c, S) /\ Rank(c, S) <= o + Cardinality(P)
  BY <1>1, SliceTight
<1>4. Cardinality(P) < l => Cardinality(S) <= o + Cardinality(P)
  BY <1>1, SliceShort
<1>5. Cardinality(S) <= o => P = {}
  BY <1>1, SliceBeyond
<1>6. \A c \in S : Rank(c, S) \in Nat
  BY <1>1, RankRises
<1>7. rows \in {Joined(P), Grouped(P)}
  BY <1>1
<1> HIDE DEF S, P
<1>8. P \in SUBSET Commands
  BY <1>1, <1>2
<1>9. rows \in SUBSET AllRows /\ Names(rows) = P
  BY <1>7, <1>8, RowsName
<1>10. /\ Cardinality(rows) \in Nat /\ (Cardinality(rows) = 0 <=> rows = {})
       /\ Cardinality(P) <= Cardinality(rows)
  BY <1>9, FiniteRows, NamesBound, FS_EmptySet
<1>11. \A r \in rows : r[1] \in P
  BY <1>9 DEF Names
<1>12. ASSUME NEW r \in rows
       PROVE  /\ TableOf[r[1]] = t /\ o < Rank(r[1], S)
              /\ Rank(r[1], S) <= o + Cardinality(rows)
  <2>1. /\ r[1] \in S /\ TableOf[r[1]] = t
        /\ o < Rank(r[1], S) /\ Rank(r[1], S) <= o + Cardinality(P)
        /\ Rank(r[1], S) \in Nat
    BY <1>1, <1>2, <1>3, <1>6, <1>11
  <2> QED
    BY <1>2, <1>10, <2>1
<1>13. P = {} => rows = {}
  BY <1>11
<1>14. TotalCount(t, rows) = IF rows = {} THEN 0 ELSE Cardinality(S)
  BY <1>1 DEF TotalCount
<1>15. Cardinality(rows) < l => Cardinality(S) <= o + Cardinality(rows)
  BY <1>1, <1>2, <1>4, <1>10
<1>16. ASSUME o = 0, l >= 1
       PROVE  TotalCount(t, rows) = Cardinality(S)
  BY <1>1, <1>10, <1>14, <1>15, <1>16
<1> QED
  BY <1>1, <1>5, <1>9, <1>10, <1>12, <1>13, <1>14, <1>15, <1>16 DEF S, InPlace

\* The matching commands are the same as long as the archive and the filters
\* are.
LEMMA MatchesKept ==
  ASSUME status' = status, asked'.wanted = asked.wanted
  PROVE  Matches' = Matches
<1>1. Canonical' = Canonical
  BY DEF Canonical
<1>2. VisibleBlocks' = VisibleBlocks
  BY <1>1 DEF VisibleBlocks
<1> QED
  BY <1>2 DEF Matches, Matching

\* Any command has a place in a table, also one of another table.
LEMMA RankNat ==
  ASSUME NEW S \in SUBSET Commands, NEW c
  PROVE  Rank(c, S) \in Nat
<1>1. {d \in S : d <= c} \in SUBSET Commands
  OBVIOUS
<1> QED
  BY <1>1, CommandsAssumption, FS_Subset, FS_CardinalityType DEF Rank

\* The numbers of the handler and of its page.
LEMMA PageNumbers ==
  ASSUME SearchTypeOK
  PROVE  /\ UserRows \in Nat /\ InternalRows \in Nat /\ ZkappRows \in Nat
         /\ UserRows = 0 <=> page["user"] = {}
         /\ InternalRows = 0 <=> page["internal"] = {}
         /\ ZkappRows = 0 <=> page["zkapp"] = {}
         /\ PageLen = UserRows + InternalRows
         /\ asked.offset \in Nat /\ asked.limit \in Nat
         /\ offset \in Nat /\ limit \in Nat /\ total \in Nat
         /\ Reach \in Nat /\ asked.offset <= Reach
<1>1. "user" \in Tables /\ "internal" \in Tables /\ "zkapp" \in Tables
  BY DEF Tables
<1>2. /\ UserRows \in Nat /\ InternalRows \in Nat /\ ZkappRows \in Nat
      /\ UserRows = 0 <=> page["user"] = {}
      /\ InternalRows = 0 <=> page["internal"] = {}
      /\ ZkappRows = 0 <=> page["zkapp"] = {}
  BY <1>1, PageParts DEF UserRows, InternalRows, ZkappRows
<1>3. /\ asked.offset \in Nat /\ asked.limit \in Nat
      /\ offset \in Nat /\ limit \in Nat /\ total \in Nat
  BY DEF SearchTypeOK
<1>4. Reach \in Nat /\ asked.offset <= Reach
  BY <1>2, <1>3 DEF Reach
<1> QED
  BY <1>2, <1>3, <1>4 DEF PageLen, UserRows, InternalRows

\* The rows of a page and of a walk are rows of commands.
LEMMA RowsTyped ==
  ASSUME SearchTypeOK
  PROVE  /\ \A r \in walked : r[1] \in Commands /\ TableOf[r[1]] \in Tables
         /\ \A r \in walked : Rank(r[1], Matches[TableOf[r[1]]]) \in Nat
         /\ \A t \in Tables : \A r \in page[t] : Rank(r[1], Matches[t]) \in Nat
<1>1. \A r \in walked : r[1] \in Commands
  BY DEF SearchTypeOK
<1>2. \A r \in walked : TableOf[r[1]] \in Tables
  BY <1>1, TablesAssumption
<1> QED
  BY <1>1, <1>2, MatchesTables, RankNat

\* A walk begins.
LEMMA SearchActionWalk ==
  ASSUME SearchInv, NEW wanted \in SUBSET Commands, NEW o \in Offsets, NEW l \in Limits,
         Search(wanted, o, l)
  PROVE  WalkInv'
<1>1. walked' = {} /\ phase' = "users" /\ page' = NoRows
  BY DEF Search, Start
<1>2. \A t \in Tables : page'[t] = {}
  BY <1>1 DEF NoRows
<1>3. "internal" \in Tables /\ "zkapp" \in Tables
  BY DEF Tables
<1>4. EarlierPages'
  BY <1>1 DEF EarlierPages
<1>5. ThisPage'
  BY <1>2, <1>3 DEF ThisPage
<1>6. AfterUsers' /\ AfterInternals' /\ Answered'
  BY <1>1 DEF AfterUsers, AfterInternals, Answered
<1>7. Rows' \cap walked' = {}
  BY <1>1
<1> QED
  BY <1>4, <1>5, <1>6, <1>7 DEF WalkInv

\* The next page begins where this one reached.
LEMMA ContinueWalk ==
  ASSUME SearchInv, WalkInv, Continue
  PROVE  WalkInv'
<1>1. /\ SearchTypeOK
      /\ "user" \in Tables /\ "internal" \in Tables /\ "zkapp" \in Tables
  BY DEF SearchInv, Tables
<1>2. /\ phase' = "users" /\ page' = NoRows
      /\ walked' = walked \cup UNION {page[t] : t \in Tables}
      /\ asked' = [asked EXCEPT !.offset = next]
      /\ steady' = steady /\ status' = status
  BY DEF Continue, Start, archiveVars
<1>3. asked'.offset = next /\ asked'.wanted = asked.wanted
  BY <1>1, <1>2 DEF SearchTypeOK
<1>4. Matches' = Matches
  BY <1>2, <1>3, MatchesKept
<1>5. \A t \in Tables : page'[t] = {}
  BY <1>2 DEF NoRows
<1>6. AfterUsers' /\ AfterInternals' /\ Answered'
  BY <1>2 DEF AfterUsers, AfterInternals, Answered
<1>7. ThisPage'
  BY <1>1, <1>5 DEF ThisPage
<1>8. Rows' = {}
  BY <1>5 DEF Rows
<1>9. ASSUME steady
      PROVE  EarlierPages'
  <2>1. EarlierPages /\ ThisPage /\ asked'.offset = Reach
    BY <1>3, <1>9 DEF WalkInv, Answered, Continue
  <2>2. asked.offset \in Nat /\ Reach \in Nat /\ asked.offset <= Reach
    BY <1>1, PageNumbers
  <2>3. Cardinality(Matches["user"]) \in Nat /\ Cardinality(Matches["internal"]) \in Nat
    BY <1>1, MatchesTables
  <2>4. ASSUME NEW r \in walked
        PROVE  /\ Rank(r[1], Matches[TableOf[r[1]]]) <= Reach
               /\ TableOf[r[1]] # "user" => Cardinality(Matches["user"]) <= Reach
               /\ TableOf[r[1]] = "zkapp" => Cardinality(Matches["internal"]) <= Reach
    <3>1. Rank(r[1], Matches[TableOf[r[1]]]) \in Nat
      BY <1>1, RowsTyped
    <3> QED
      BY <2>1, <2>2, <2>3, <3>1 DEF EarlierPages
  <2>5. ASSUME NEW t \in Tables, NEW r \in page[t]
        PROVE  /\ Rank(r[1], Matches[TableOf[r[1]]]) <= Reach
               /\ TableOf[r[1]] # "user" => Cardinality(Matches["user"]) <= Reach
               /\ TableOf[r[1]] = "zkapp" => Cardinality(Matches["internal"]) <= Reach
    <3>1. TableOf[r[1]] = t /\ Rank(r[1], Matches[t]) <= Reach
      BY <2>1 DEF ThisPage
    <3>2. t = "user" \/ t = "internal" \/ t = "zkapp"
      BY DEF Tables
    <3> QED
      BY <2>1, <3>1, <3>2 DEF ThisPage
  <2>6. \A r \in walked' :
          /\ Rank(r[1], Matches[TableOf[r[1]]]) <= Reach
          /\ TableOf[r[1]] # "user" => Cardinality(Matches["user"]) <= Reach
          /\ TableOf[r[1]] = "zkapp" => Cardinality(Matches["internal"]) <= Reach
    BY <1>2, <2>4, <2>5
  <2> QED
    BY <1>4, <2>1, <2>6 DEF EarlierPages
<1> QED
  BY <1>2, <1>6, <1>7, <1>8, <1>9 DEF WalkInv

LEMMA FailWalk ==
  ASSUME SearchInv, WalkInv, Fail
  PROVE  WalkInv'
<1>1. /\ phase' = "idle" /\ page' = NoRows
      /\ asked' = asked /\ status' = status /\ walked' = walked /\ steady' = steady
  BY DEF Fail, archiveVars, walkVars
<1>2. Matches' = Matches
  BY <1>1, MatchesKept
<1>3. \A t \in Tables : page'[t] = {}
  BY <1>1 DEF NoRows
<1>4. ThisPage' /\ Rows' = {}
  <2>1. "internal" \in Tables /\ "zkapp" \in Tables
    BY DEF Tables
  <2> QED
    BY <1>3, <2>1 DEF ThisPage, Rows
<1>5. AfterUsers' /\ AfterInternals' /\ Answered'
  BY <1>1 DEF AfterUsers, AfterInternals, Answered
<1> QED
  BY <1>1, <1>2, <1>4, <1>5 DEF WalkInv, EarlierPages
LEMMA FetchUsersWalk ==
  ASSUME SearchInv, WalkInv, FetchUsers, steady
  PROVE  WalkInv'
<1> DEFINE rows == Joined(Slice(Matching("user"), offset, limit))
           n == Cardinality(rows)
<1>1. /\ SearchTypeOK
      /\ "user" \in Tables /\ "internal" \in Tables /\ "zkapp" \in Tables
  BY DEF SearchInv, Tables
<1>2. /\ offset = asked.offset /\ limit = asked.limit /\ page = NoRows /\ total = 0
      /\ offset \in Nat /\ limit \in Nat
  BY DEF SearchInv, BeforeUsers, FetchUsers, SearchTypeOK
<1>3. /\ n \in Nat /\ (n = 0 <=> rows = {})
      /\ \A r \in rows : /\ TableOf[r[1]] = "user"
                         /\ offset < Rank(r[1], Matches["user"])
                         /\ Rank(r[1], Matches["user"]) <= offset + n
      /\ n < limit => Cardinality(Matches["user"]) <= offset + n
      /\ Cardinality(Matches["user"]) <= offset => rows = {}
      /\ offset = 0 /\ limit >= 1 => TotalCount("user", rows) = Cardinality(Matches["user"])
  <2>1. InPlace("user", offset, limit, rows)
    BY <1>1, <1>2, FetchPlaces
  <2> QED
    BY <2>1 DEF InPlace
<1>4. /\ page' = [page EXCEPT !["user"] = rows]
      /\ total' = total + TotalCount("user", rows)
      /\ phase' = "internals"
      /\ UNCHANGED <<archiveVars, walkVars, offset, limit, next>>
  BY DEF FetchUsers, fetch_user_commands
<1> HIDE DEF rows
<1>5. page'["user"] = rows /\ page'["internal"] = {} /\ page'["zkapp"] = {}
  BY <1>2, <1>4 DEF NoRows, Tables
<1>6. Matches' = Matches
  BY <1>4, MatchesKept DEF archiveVars, walkVars
<1>7. UserRows' = n /\ Reach' = asked.offset + n
  <2>1. UserRows' = n /\ InternalRows' = 0 /\ ZkappRows' = 0
    BY <1>5, NoRowsNoNames DEF UserRows, InternalRows, ZkappRows
  <2>2. asked' = asked /\ asked.offset \in Nat
    BY <1>2, <1>4 DEF walkVars
  <2> HIDE DEF n
  <2> QED
    BY <1>3, <2>1, <2>2 DEF Reach
<1>8. EarlierPages /\ EarlierPages'
  BY <1>4, <1>6 DEF WalkInv, EarlierPages, walkVars
<1>9. ThisPage'
  <2>1. \A t \in Tables : \A r \in page'[t] :
          TableOf[r[1]] = t /\ Rank(r[1], Matches[t]) <= asked.offset + n
    BY <1>2, <1>3, <1>5 DEF Tables
  <2> QED
    BY <1>5, <1>6, <1>7, <2>1 DEF ThisPage
<1>10. AfterUsers'
  <2>1. FirstPage' => total' = Cardinality(Matches["user"])
    <3>1. Cardinality(Matches["user"]) \in Nat
      BY <1>1, MatchesTables
    <3> QED
      BY <1>2, <1>3, <1>4, <3>1 DEF FirstPage, walkVars
  <2> HIDE DEF n
  <2> QED
    BY <1>2, <1>3, <1>4, <1>5, <1>6, <1>7, <2>1 DEF AfterUsers, walkVars
<1>11. Rows' \cap walked' = {}
  <2>1. Rows' = rows
    BY <1>5 DEF Rows, Tables
  <2>2. ASSUME NEW r \in rows, r \in walked
        PROVE  FALSE
    <3>1. Rank(r[1], Matches["user"]) <= asked.offset
      BY <1>3, <1>8, <2>2 DEF EarlierPages
    <3>2. Rank(r[1], Matches["user"]) \in Nat
      BY <1>1, MatchesTables, RankNat
    <3> QED
      BY <1>2, <1>3, <2>2, <3>1, <3>2
  <2> QED
    BY <1>4, <2>1, <2>2 DEF walkVars
<1>12. AfterInternals' /\ Answered'
  BY <1>4 DEF AfterInternals, Answered
<1> QED
  BY <1>8, <1>9, <1>10, <1>11, <1>12 DEF WalkInv

LEMMA FetchInternalsWalk ==
  ASSUME SearchInv, WalkInv, FetchInternals, steady
  PROVE  WalkInv'
<1> DEFINE o == Less(offset, UserRows)
           l == Less(limit, UserRows)
           rows == Joined(Slice(Matching("internal"), o, l))
           n == Cardinality(rows)
           users == Cardinality(Matches["user"])
           internals == Cardinality(Matches["internal"])
<1>1. /\ SearchTypeOK
      /\ "user" \in Tables /\ "internal" \in Tables /\ "zkapp" \in Tables
  BY DEF SearchInv, Tables
<1>2. /\ UserRows \in Nat /\ offset \in Nat /\ limit \in Nat /\ total \in Nat
      /\ asked.offset \in Nat /\ asked.limit \in Nat
      /\ UserRows = 0 <=> page["user"] = {}
  BY <1>1, PageNumbers
<1>3. /\ limit = asked.limit /\ offset = asked.offset
      /\ page["internal"] = {} /\ page["zkapp"] = {}
      /\ UserRows < limit => users <= asked.offset + UserRows
      /\ users <= asked.offset => page["user"] = {}
      /\ FirstPage => total = users
  BY DEF SearchInv, BeforeInternals, WalkInv, AfterUsers, FetchInternals
<1>4. UserRows < limit
  <2>1. PageLen = UserRows
    BY <1>2, <1>3, NoRowsNoNames DEF PageLen, UserRows
  <2> QED
    BY <1>2, <2>1 DEF FetchInternals
<1>5. o \in Nat /\ l \in Nat /\ l >= 1 /\ o <= asked.offset
  BY <1>2, <1>3, <1>4 DEF Less
<1>6. /\ offset' = o /\ limit' = l /\ phase' = "zkapps"
      /\ page' = [page EXCEPT !["internal"] = rows]
      /\ total' = total + TotalCount("internal", rows)
      /\ UNCHANGED <<archiveVars, walkVars, next>>
  BY DEF FetchInternals, fetch_internal_commands, UserRows
<1>7. users \in Nat /\ internals \in Nat
  BY <1>1, MatchesTables
<1>8. UserRows = 0 => o = asked.offset
  BY <1>2, <1>3 DEF Less
<1>9. o = Less(asked.offset, UserRows)
  BY <1>3
<1>10. FirstPage => o = 0
  BY <1>2, <1>3 DEF Less, FirstPage
<1> HIDE DEF o, l, users, internals
<1>a. rows \in {Joined(Slice(Matching("internal"), o, l)), Grouped(Slice(Matching("internal"), o, l))}
  OBVIOUS
<1> HIDE DEF rows
<1>11. /\ n \in Nat /\ (n = 0 <=> rows = {})
       /\ \A r \in rows : /\ TableOf[r[1]] = "internal"
                          /\ o < Rank(r[1], Matches["internal"])
                          /\ Rank(r[1], Matches["internal"]) <= o + n
       /\ n < l => internals <= o + n
       /\ internals <= o => rows = {}
       /\ o = 0 /\ l >= 1 => TotalCount("internal", rows) = internals
  <2>1. InPlace("internal", o, l, rows)
    BY <1>1, <1>5, <1>a, FetchPlaces
  <2> QED
    BY <2>1 DEF InPlace, internals
<1>12. page'["user"] = page["user"] /\ page'["internal"] = rows /\ page'["zkapp"] = {}
  BY <1>1, <1>3, <1>6 DEF SearchTypeOK, Tables
<1>13. Matches' = Matches
  BY <1>6, MatchesKept DEF archiveVars, walkVars
<1>14. /\ UserRows' = UserRows /\ InternalRows' = n
       /\ Reach' = asked.offset + UserRows + n /\ Reach = asked.offset + UserRows
  <2>1. UserRows' = UserRows /\ InternalRows' = n /\ ZkappRows' = 0
    BY <1>12, NoRowsNoNames DEF UserRows, InternalRows, ZkappRows
  <2>2. InternalRows = 0 /\ ZkappRows = 0
    BY <1>3, NoRowsNoNames DEF InternalRows, ZkappRows
  <2>3. asked' = asked
    BY <1>6 DEF walkVars
  <2> HIDE DEF n
  <2> QED
    BY <1>2, <1>11, <2>1, <2>2, <2>3 DEF Reach
<1>15. EarlierPages /\ EarlierPages' /\ ThisPage
  BY <1>6, <1>13 DEF WalkInv, EarlierPages, walkVars
<1> HIDE DEF n
<1>16. ThisPage'
  <2>1. ASSUME NEW r \in page["user"]
        PROVE  TableOf[r[1]] = "user" /\ Rank(r[1], Matches["user"]) <= asked.offset + UserRows + n
    <3>1. TableOf[r[1]] = "user" /\ Rank(r[1], Matches["user"]) <= asked.offset + UserRows
      BY <1>1, <1>14, <1>15 DEF ThisPage
    <3>2. Rank(r[1], Matches["user"]) \in Nat
      BY <1>1, MatchesTables, RankNat
    <3> QED
      BY <1>2, <1>11, <3>1, <3>2
  <2>2. ASSUME NEW r \in rows
        PROVE  /\ TableOf[r[1]] = "internal"
               /\ Rank(r[1], Matches["internal"]) <= asked.offset + UserRows + n
    <3>1. Rank(r[1], Matches["internal"]) \in Nat
      BY <1>1, MatchesTables, RankNat
    <3> QED
      BY <1>2, <1>5, <1>11, <3>1
  <2>3. \A t \in Tables : \A r \in page'[t] :
          TableOf[r[1]] = t /\ Rank(r[1], Matches[t]) <= asked.offset + UserRows + n
    BY <1>12, <2>1, <2>2 DEF Tables
  <2>4. users <= asked.offset + UserRows + n
    BY <1>2, <1>3, <1>4, <1>7, <1>11
  <2> QED
    BY <1>12, <1>13, <1>14, <2>3, <2>4 DEF ThisPage, users
<1>17. AfterInternals'
  <2>1. FirstPage' => total' = users + internals
    BY <1>3, <1>5, <1>6, <1>10, <1>11 DEF FirstPage, walkVars
  <2>2. users <= asked.offset + UserRows
    BY <1>3, <1>4
  <2>3. InternalRows' < limit' => internals <= offset' + InternalRows'
    BY <1>6, <1>11, <1>14
  <2>4. internals <= offset' => page'["internal"] = {}
    BY <1>6, <1>11, <1>12
  <2>5. users <= asked.offset => page'["user"] = {}
    BY <1>3, <1>12
  <2>6. offset' = Less(asked.offset, UserRows)
    BY <1>6, <1>9
  <2>7. asked' = asked
    BY <1>6 DEF walkVars
  <2> QED
    BY <1>13, <1>14, <2>1, <2>2, <2>3, <2>4, <2>5, <2>6, <2>7
       DEF AfterInternals, users, internals
<1>18. Rows' \cap walked' = {}
  <2>1. Rows' = Rows \cup rows
    BY <1>3, <1>12 DEF Rows, Tables
  <2>2. ASSUME NEW r \in rows, r \in walked
        PROVE  FALSE
    <3>1. TableOf[r[1]] = "internal"
      BY <1>11, <2>2
    <3>2. Rank(r[1], Matches["internal"]) <= asked.offset /\ users <= asked.offset
      BY <1>15, <2>2, <3>1 DEF EarlierPages, users
    <3>3. o = asked.offset
      BY <1>2, <1>3, <1>8, <3>2
    <3>4. Rank(r[1], Matches["internal"]) \in Nat
      BY <1>1, MatchesTables, RankNat
    <3> QED
      BY <1>2, <1>11, <2>2, <3>2, <3>3, <3>4
  <2> QED
    BY <1>6, <2>1, <2>2 DEF WalkInv, walkVars
<1>19. AfterUsers' /\ Answered'
  BY <1>6 DEF AfterUsers, Answered
<1> QED
  BY <1>15, <1>16, <1>17, <1>18, <1>19 DEF WalkInv

LEMMA CountInternalsWalk ==
  ASSUME SearchInv, WalkInv, CountInternals, steady
  PROVE  WalkInv'
<1> DEFINE first == Joined(Slice(Matching("internal"), 0, 1))
           users == Cardinality(Matches["user"])
           internals == Cardinality(Matches["internal"])
<1>1. SearchTypeOK /\ "internal" \in Tables
  BY DEF SearchInv, Tables
<1>2. TotalCount("internal", first) = internals
  BY <1>1, FetchPlaces DEF InPlace
<1>3. /\ limit <= PageLen /\ phase' = "zkapps" /\ phase = "internals"
      /\ total' = total + TotalCount("internal", first)
      /\ UNCHANGED <<archiveVars, walkVars, offset, limit, page, next>>
  BY DEF CountInternals, fetch_internal_commands
<1> HIDE DEF first, users, internals
<1>4. Matches' = Matches /\ UserRows' = UserRows /\ Reach' = Reach /\ FirstPage' = FirstPage
  BY <1>3, MatchesKept DEF archiveVars, walkVars, UserRows, InternalRows, ZkappRows, Reach,
     FirstPage
<1>5. limit <= UserRows
  <2>1. page["internal"] = {}
    BY <1>3 DEF SearchInv, BeforeInternals
  <2>2. PageLen = UserRows
    BY <1>1, <2>1, PageNumbers
  <2> QED
    BY <1>3, <2>2
<1>6. FirstPage => total' = users + internals
  BY <1>2, <1>3 DEF WalkInv, AfterUsers, users
<1>7. AfterInternals'
  BY <1>3, <1>4, <1>5, <1>6 DEF AfterInternals, users, internals
<1>8. EarlierPages' /\ ThisPage' /\ Rows' \cap walked' = {}
  BY <1>3, <1>4 DEF WalkInv, EarlierPages, ThisPage, Rows, walkVars
<1>9. AfterUsers' /\ Answered'
  BY <1>3 DEF AfterUsers, Answered
<1> QED
  BY <1>7, <1>8, <1>9 DEF WalkInv

LEMMA FetchZkappsWalk ==
  ASSUME SearchInv, WalkInv, FetchZkapps, steady
  PROVE  WalkInv'
<1> DEFINE o == Less(offset, InternalRows)
           l == Less(limit, InternalRows)
           rows == Grouped(Slice(Matching("zkapp"), o, l))
           n == Cardinality(rows)
           users == Cardinality(Matches["user"])
           internals == Cardinality(Matches["internal"])
           zkapps == Cardinality(Matches["zkapp"])
<1>1. /\ SearchTypeOK
      /\ "user" \in Tables /\ "internal" \in Tables /\ "zkapp" \in Tables
  BY DEF SearchInv, Tables
<1>2. /\ UserRows \in Nat /\ InternalRows \in Nat
      /\ offset \in Nat /\ limit \in Nat /\ total \in Nat
      /\ asked.offset \in Nat /\ asked.limit \in Nat
      /\ UserRows = 0 <=> page["user"] = {}
      /\ InternalRows = 0 <=> page["internal"] = {}
      /\ PageLen = UserRows + InternalRows
  BY <1>1, PageNumbers
<1>3. UserRows + InternalRows < limit
  BY <1>2 DEF FetchZkapps
<1>4. /\ page["zkapp"] = {}
      /\ FirstPage => total = users + internals
      /\ offset = Less(asked.offset, UserRows)
      /\ users <= asked.offset + UserRows
      /\ users <= asked.offset => page["user"] = {}
      /\ InternalRows < limit => internals <= offset + InternalRows
      /\ internals <= offset => page["internal"] = {}
  <2>1. ~(limit <= UserRows)
    BY <1>2, <1>3
  <2> QED
    BY <2>1 DEF SearchInv, BeforeZkapps, WalkInv, AfterInternals, FetchZkapps
<1>5. o \in Nat /\ l \in Nat /\ l >= 1 /\ o <= asked.offset /\ offset <= asked.offset
  BY <1>2, <1>3, <1>4 DEF Less
<1>6. users \in Nat /\ internals \in Nat /\ zkapps \in Nat
  BY <1>1, MatchesTables
<1>7. internals <= offset + InternalRows
  BY <1>2, <1>3, <1>4
<1>8. UserRows = 0 => offset = asked.offset
  BY <1>2, <1>4 DEF Less
<1>9. InternalRows = 0 => o = offset
  BY <1>2 DEF Less
<1>10. FirstPage => o = 0
  BY <1>2, <1>4 DEF Less, FirstPage
<1>11. /\ page' = [page EXCEPT !["zkapp"] = rows]
       /\ Respond(PageLen + n, total + TotalCount("zkapp", rows))
       /\ UNCHANGED <<archiveVars, walkVars>>
  BY DEF FetchZkapps, fetch_zkapp_commands, InternalRows
<1> HIDE DEF o, l, users, internals, zkapps
<1>a. rows \in {Joined(Slice(Matching("zkapp"), o, l)), Grouped(Slice(Matching("zkapp"), o, l))}
  OBVIOUS
<1> HIDE DEF rows
<1>12. /\ n \in Nat
       /\ \A r \in rows : /\ TableOf[r[1]] = "zkapp"
                          /\ o < Rank(r[1], Matches["zkapp"])
                          /\ Rank(r[1], Matches["zkapp"]) <= o + n
       /\ TotalCount("zkapp", rows) \in Nat
       /\ o = 0 /\ l >= 1 => TotalCount("zkapp", rows) = zkapps
  <2>1. InPlace("zkapp", o, l, rows)
    BY <1>1, <1>5, <1>a, FetchPlaces
  <2> QED
    BY <2>1 DEF InPlace, zkapps
<1>13. /\ page'["user"] = page["user"] /\ page'["internal"] = page["internal"]
       /\ page'["zkapp"] = rows
  BY <1>1, <1>11 DEF SearchTypeOK, Tables
<1>14. Matches' = Matches /\ FirstPage' = FirstPage
  BY <1>11, MatchesKept DEF archiveVars, walkVars, FirstPage
<1>15. /\ Reach' = asked.offset + UserRows + InternalRows + n
       /\ Reach = asked.offset + UserRows + InternalRows
  <2>1. UserRows' = UserRows /\ InternalRows' = InternalRows /\ ZkappRows' = n
    BY <1>13 DEF UserRows, InternalRows, ZkappRows
  <2>2. ZkappRows = 0
    BY <1>4, NoRowsNoNames DEF ZkappRows
  <2>3. asked' = asked
    BY <1>11 DEF walkVars
  <2> HIDE DEF n
  <2> QED
    BY <1>2, <1>12, <2>1, <2>2, <2>3 DEF Reach
<1> HIDE DEF n
<1>16. EarlierPages /\ EarlierPages' /\ ThisPage
  BY <1>11, <1>14 DEF WalkInv, EarlierPages, walkVars
<1>17. ThisPage'
  <2>1. ASSUME NEW t \in {"user", "internal"}, NEW r \in page[t]
        PROVE  /\ TableOf[r[1]] = t
               /\ Rank(r[1], Matches[t]) <= asked.offset + UserRows + InternalRows + n
    <3>1. TableOf[r[1]] = t /\ Rank(r[1], Matches[t]) <= asked.offset + UserRows + InternalRows
      BY <1>1, <1>15, <1>16 DEF ThisPage
    <3>2. Rank(r[1], Matches[t]) \in Nat
      BY <1>1, MatchesTables, RankNat
    <3> QED
      BY <1>2, <1>12, <3>1, <3>2
  <2>2. ASSUME NEW r \in rows
        PROVE  /\ TableOf[r[1]] = "zkapp"
               /\ Rank(r[1], Matches["zkapp"]) <= asked.offset + UserRows + InternalRows + n
    <3>1. Rank(r[1], Matches["zkapp"]) \in Nat
      BY <1>1, MatchesTables, RankNat
    <3> QED
      BY <1>2, <1>5, <1>12, <3>1
  <2>3. \A t \in Tables : \A r \in page'[t] :
          /\ TableOf[r[1]] = t
          /\ Rank(r[1], Matches[t]) <= asked.offset + UserRows + InternalRows + n
    BY <1>13, <2>1, <2>2 DEF Tables
  <2>4. /\ users <= asked.offset + UserRows + InternalRows + n
        /\ internals <= asked.offset + UserRows + InternalRows + n
    BY <1>2, <1>4, <1>5, <1>6, <1>7, <1>12
  <2> QED
    BY <1>14, <1>15, <2>3, <2>4 DEF ThisPage, users, internals
<1>18. Rows' \cap walked' = {}
  <2>1. Rows' = Rows \cup rows
    BY <1>4, <1>13 DEF Rows, Tables
  <2>2. ASSUME NEW r \in rows, r \in walked
        PROVE  FALSE
    <3>1. TableOf[r[1]] = "zkapp"
      BY <1>12, <2>2
    <3>2. /\ Rank(r[1], Matches["zkapp"]) <= asked.offset
          /\ users <= asked.offset /\ internals <= asked.offset
      BY <1>16, <2>2, <3>1 DEF EarlierPages, users, internals
    <3>3. offset = asked.offset
      BY <1>2, <1>4, <1>8, <3>2
    <3>4. o = asked.offset
      BY <1>2, <1>4, <1>9, <3>2, <3>3
    <3>5. Rank(r[1], Matches["zkapp"]) \in Nat
      BY <1>1, MatchesTables, RankNat
    <3> QED
      BY <1>2, <1>12, <2>2, <3>2, <3>4, <3>5
  <2> QED
    BY <1>11, <2>1, <2>2 DEF WalkInv, walkVars
<1>19. Answered'
  <2>1. phase' = "answered" /\ asked' = asked
    BY <1>11 DEF Respond, walkVars
  <2>2. next' # None => next' = asked.offset + (PageLen + n)
    BY <1>11 DEF Respond
  <2>3. next' # None => next' = Reach'
    BY <1>2, <1>12, <1>15, <2>2
  <2>4. FirstPage => total' = users + internals + zkapps
    BY <1>4, <1>5, <1>10, <1>11, <1>12 DEF Respond
  <2>5. next' = None => total' <= Reach'
    <3>1. asked.offset + (PageLen + n) \in Nat /\ asked.offset + (PageLen + n) # None
      BY <1>2, <1>12, NoOffsetAssumption
    <3>2. Reach' = asked.offset + (PageLen + n)
      BY <1>2, <1>12, <1>15
    <3>3. total + TotalCount("zkapp", rows) \in Nat
      BY <1>2, <1>12
    <3> QED
      BY <1>11, <3>1, <3>2, <3>3 DEF Respond
  <2> QED
    BY <1>14, <2>3, <2>4, <2>5 DEF Answered, users, internals, zkapps
<1>20. AfterUsers' /\ AfterInternals'
  BY <1>11 DEF AfterUsers, AfterInternals, Respond
<1> QED
  BY <1>16, <1>17, <1>18, <1>19, <1>20 DEF WalkInv

LEMMA CountZkappsWalk ==
  ASSUME SearchInv, WalkInv, CountZkapps, steady
  PROVE  WalkInv'
<1> DEFINE first == Grouped(Slice(Matching("zkapp"), 0, 1))
<1>1. SearchTypeOK /\ "zkapp" \in Tables
  BY DEF SearchInv, Tables
<1>2. TotalCount("zkapp", first) = Cardinality(Matches["zkapp"])
  BY <1>1, FetchPlaces DEF InPlace
<1>3. /\ phase = "zkapps" /\ Respond(PageLen, total + TotalCount("zkapp", first))
      /\ UNCHANGED <<archiveVars, walkVars, offset, limit, page>>
  BY DEF CountZkapps, fetch_zkapp_commands
<1> HIDE DEF first
<1>4. Matches' = Matches /\ Reach' = Reach /\ FirstPage' = FirstPage
  BY <1>3, MatchesKept DEF archiveVars, walkVars, UserRows, InternalRows, ZkappRows, Reach,
     FirstPage
<1>5. Reach = asked.offset + PageLen
  <2>1. page["zkapp"] = {}
    BY <1>3 DEF SearchInv, BeforeZkapps
  <2>2. /\ UserRows \in Nat /\ InternalRows \in Nat /\ ZkappRows = 0
        /\ asked.offset \in Nat /\ PageLen = UserRows + InternalRows
    BY <1>1, <2>1, PageNumbers
  <2> QED
    BY <2>2 DEF Reach
<1>6. Answered'
  <2>1. next' # None => next' = asked.offset + PageLen
    BY <1>3 DEF Respond
  <2>2. FirstPage => total' = Cardinality(Matches["user"]) + Cardinality(Matches["internal"])
                              + Cardinality(Matches["zkapp"])
    BY <1>2, <1>3 DEF Respond, WalkInv, AfterInternals
  <2>3. next' = None => total' <= Reach
    <3>1. Reach \in Nat /\ Reach # None /\ total \in Nat
      BY <1>1, PageNumbers, NoOffsetAssumption
    <3>2. Cardinality(Matches["zkapp"]) \in Nat
      BY <1>1, MatchesTables
    <3> QED
      BY <1>2, <1>3, <1>5, <3>1, <3>2 DEF Respond
  <2> QED
    BY <1>4, <1>5, <2>1, <2>2, <2>3 DEF Answered
<1>7. EarlierPages' /\ ThisPage' /\ Rows' \cap walked' = {}
  BY <1>3, <1>4 DEF WalkInv, EarlierPages, ThisPage, Rows, walkVars
<1>8. AfterUsers' /\ AfterInternals'
  BY <1>3 DEF AfterUsers, AfterInternals, Respond
<1> QED
  BY <1>6, <1>7, <1>8 DEF WalkInv

LEMMA InitWalkInv == SearchInit => WalkInv
<1> SUFFICES ASSUME SearchInit PROVE WalkInv
  OBVIOUS
<1>1. walked = {} /\ phase = "idle" /\ \A t \in Tables : page[t] = {}
  BY DEF SearchInit, NoRows
<1>2. "internal" \in Tables /\ "zkapp" \in Tables
  BY DEF Tables
<1> QED
  BY <1>1, <1>2 DEF WalkInv, EarlierPages, ThisPage, AfterUsers, AfterInternals, Answered

LEMMA NextWalkInv == SearchInv /\ WalkInv /\ [SearchNext]_searchVars => WalkInv'
<1> SUFFICES ASSUME SearchInv, WalkInv, [SearchNext]_searchVars PROVE WalkInv'
  OBVIOUS
<1>1. CASE UNCHANGED searchVars
  <2>1. Matches' = Matches
    BY <1>1, MatchesKept DEF searchVars, archiveVars, walkVars
  <2> QED
    BY <1>1, <2>1 DEF searchVars, archiveVars, walkVars, WalkInv, EarlierPages, ThisPage,
       AfterUsers, AfterInternals, Answered, Reach, UserRows, InternalRows, ZkappRows,
       FirstPage, Rows
<1>2. CASE \E wanted \in SUBSET Commands, o \in Offsets, l \in Limits : Search(wanted, o, l)
  BY <1>2, SearchActionWalk
<1>3. CASE Continue \/ Fail
  BY <1>3, ContinueWalk, FailWalk
<1>4. CASE FetchUsers \/ FetchInternals \/ CountInternals \/ FetchZkapps \/ CountZkapps
  <2>1. steady' = steady
    BY <1>4 DEF FetchUsers, FetchInternals, CountInternals, FetchZkapps, CountZkapps, walkVars
  <2>2. ~steady => WalkInv'
    BY <2>1 DEF WalkInv
  <2>3. steady => WalkInv'
    BY <1>4, FetchUsersWalk, FetchInternalsWalk, CountInternalsWalk, FetchZkappsWalk,
       CountZkappsWalk
  <2> QED
    BY <2>2, <2>3
<1>5. CASE \E b \in Blocks : BlockArrives(b) \/ Canonicalise(b)
  BY <1>5 DEF BlockArrives, Canonicalise, WalkInv
<1> QED
  BY <1>1, <1>2, <1>3, <1>4, <1>5 DEF SearchNext
-----------------------------------------------------------------------------
(***************************************************************************)
(* A walk over one table, from its beginning: what the earlier pages have  *)
(* shown is what stands before the offset of this one, all of it.          *)
(***************************************************************************)
Lone(t) ==
  /\ steady /\ origin = 0 /\ asked.limit >= 1
  /\ \A c \in asked.wanted : TableOf[c] = t /\ Cardinality(AccountsOf[c]) = 1

ToFetch(t) ==
  \/ phase = "users"
  \/ phase = "internals" /\ t # "user"
  \/ phase = "zkapps" /\ t = "zkapp"

HasFetched(t) ==
  \/ phase = "answered"
  \/ phase = "internals" /\ t = "user"
  \/ phase = "zkapps" /\ t # "zkapp"

Wanted(t) == Slice(Matches[t], asked.offset, asked.limit)

Before(t, o) == {c \in Matches[t] : Rank(c, Matches[t]) <= o}

PageSoFar(t) ==
  /\ \A s \in Tables \ {t} : page[s] = {}
  /\ ToFetch(t) => /\ page[t] = {} /\ total = 0
                   /\ offset = asked.offset /\ limit = asked.limit
  /\ HasFetched(t) => /\ Names(page[t]) = Wanted(t)
                      /\ Cardinality(page[t]) = Cardinality(Wanted(t))
                      /\ total = IF page[t] = {} THEN 0 ELSE Cardinality(Matches[t])

LoneInv ==
  \A t \in Tables : Lone(t) => Names(walked) = Before(t, asked.offset) /\ PageSoFar(t)

\* The other tables have nothing.
LEMMA OthersEmpty ==
  ASSUME SearchTypeOK, NEW t \in Tables, Lone(t), NEW s \in Tables \ {t}, NEW o, NEW l
  PROVE  /\ Joined(Slice(Matching(s), o, l)) = {} /\ Grouped(Slice(Matching(s), o, l)) = {}
         /\ TotalCount(s, {}) = 0
<1>1. Matching(s) = {}
  BY DEF Matching, Lone
<1>2. Slice(Matching(s), o, l) = {}
  BY <1>1 DEF Slice
<1> QED
  BY <1>2 DEF Joined, Grouped, TotalCount

\* With one account identifier each, there are as many rows as commands.
LEMMA LoneFetch ==
  ASSUME SearchTypeOK, NEW t \in Tables, Lone(t), NEW o \in Nat, NEW l \in Nat,
         NEW rows \in {Joined(Slice(Matching(t), o, l)), Grouped(Slice(Matching(t), o, l))}
  PROVE  /\ Names(rows) = Slice(Matches[t], o, l)
         /\ Cardinality(rows) = Cardinality(Slice(Matches[t], o, l))
         /\ TotalCount(t, rows) = IF rows = {} THEN 0 ELSE Cardinality(Matches[t])
<1> DEFINE P == Slice(Matching(t), o, l)
           f == [r \in rows |-> r[1]]
<1>1. Matches[t] = Matching(t) /\ Matches[t] \in SUBSET Commands
  BY MatchesTables
<1>2. P \in SUBSET Matching(t) /\ IsFiniteSet(P) /\ Cardinality(P) \in Nat
  BY <1>1, SliceFinite
<1>3. \A c \in P : Cardinality(AccountsOf[c]) = 1 /\ AccountsOf[c] \in SUBSET Accounts
  <2>1. P \subseteq asked.wanted /\ P \subseteq Commands
    BY <1>1, <1>2 DEF Matching
  <2> QED
    BY <2>1, AccountsAssumption DEF Lone
<1> HIDE DEF P
<1>4. rows \in {Joined(P), Grouped(P)}
  BY DEF P
<1>5. rows \in SUBSET AllRows /\ Names(rows) = P
  BY <1>1, <1>2, <1>4, RowsName
<1>6. \A r, s \in rows : r[1] = s[1] => r = s
  <2>1. CASE rows = Joined(P)
    <3>1. ASSUME NEW r \in rows, NEW s \in rows, r[1] = s[1]
          PROVE  r = s
      <4>1. /\ r \in P \X Accounts /\ s \in P \X Accounts
            /\ r[2] \in AccountsOf[r[1]] /\ s[2] \in AccountsOf[r[1]]
        BY <2>1, <3>1 DEF Joined
      <4>2. IsFiniteSet(AccountsOf[r[1]]) /\ Cardinality(AccountsOf[r[1]]) = 1
        BY <4>1, <1>3, AccountsAssumption, FS_Subset
      <4>3. r[2] = s[2]
        <5>1. {r[2]} \in SUBSET AccountsOf[r[1]] /\ Cardinality({r[2]}) = 1
          BY <4>1, FS_Singleton
        <5>2. AccountsOf[r[1]] = {r[2]}
          BY <4>2, <5>1, FS_Subset
        <5> QED
          BY <4>1, <5>2
      <4> QED
        BY <3>1, <4>1, <4>3
    <3> QED
      BY <3>1
  <2>2. CASE rows = Grouped(P)
    BY <2>2 DEF Grouped
  <2> QED
    BY <1>4, <2>1, <2>2
<1>7. f \in Injection(rows, P)
  <2>1. \A r \in rows : r[1] \in P
    BY <1>5 DEF Names
  <2> QED
    BY <2>1, <1>6 DEF Injection, IsInjective
<1> HIDE DEF f
<1>8. Cardinality(rows) <= Cardinality(P)
  BY <1>2, <1>7, FS_Injection
<1>9. Cardinality(P) <= Cardinality(rows) /\ Cardinality(rows) \in Nat
  BY <1>5, NamesBound, FiniteRows
<1>10. Cardinality(rows) = Cardinality(P)
  BY <1>2, <1>8, <1>9
<1> QED
  BY <1>1, <1>5, <1>10 DEF P, TotalCount

\* A statement of the handler leaves alone what the walk has seen.
LEMMA StatementKeeps ==
  ASSUME LoneInv, UNCHANGED archiveVars, UNCHANGED walkVars,
         \A t \in Tables : Lone(t) => PageSoFar(t)'
  PROVE  LoneInv'
<1>1. Matches' = Matches
  BY MatchesKept DEF archiveVars, walkVars
<1>2. SUFFICES ASSUME NEW t \in Tables, Lone(t)'
               PROVE  (Names(walked) = Before(t, asked.offset) /\ PageSoFar(t))'
  BY DEF LoneInv
<1>3. Lone(t)
  BY <1>2 DEF Lone, walkVars
<1>4. Names(walked') = Before(t, asked.offset)
  BY <1>3 DEF LoneInv, walkVars
<1>5. (Names(walked) = Before(t, asked.offset))'
  BY <1>1, <1>4 DEF Before, Names, walkVars
<1> QED
  BY <1>3, <1>5

LEMMA FetchUsersLone ==
  ASSUME SearchInv, LoneInv, FetchUsers
  PROVE  LoneInv'
<1> DEFINE rows == Joined(Slice(Matching("user"), offset, limit))
<1>1. SearchTypeOK /\ "user" \in Tables
  BY DEF SearchInv, Tables
<1>2. /\ offset = asked.offset /\ limit = asked.limit /\ page = NoRows /\ total = 0
      /\ offset \in Nat /\ limit \in Nat
  BY DEF SearchInv, BeforeUsers, FetchUsers, SearchTypeOK
<1>3. /\ page' = [page EXCEPT !["user"] = rows]
      /\ total' = total + TotalCount("user", rows)
      /\ phase' = "internals"
      /\ UNCHANGED <<archiveVars, walkVars, offset, limit, next>>
  BY DEF FetchUsers, fetch_user_commands
<1>4. Matches' = Matches /\ UNCHANGED archiveVars /\ UNCHANGED walkVars /\ asked' = asked
  BY <1>3, MatchesKept DEF archiveVars, walkVars
<1>5. ASSUME NEW t \in Tables, Lone(t)
      PROVE  PageSoFar(t)'
  <2>1. CASE t = "user"
    <3>1. rows \in {Joined(Slice(Matching(t), offset, limit)),
                    Grouped(Slice(Matching(t), offset, limit))}
      BY <2>1
    <3> HIDE DEF rows
    <3>2. /\ Names(rows) = Slice(Matches[t], offset, limit)
          /\ Cardinality(rows) = Cardinality(Slice(Matches[t], offset, limit))
          /\ TotalCount(t, rows) = IF rows = {} THEN 0 ELSE Cardinality(Matches[t])
      BY <1>1, <1>2, <1>5, <3>1, LoneFetch
    <3>3. page'[t] = rows /\ \A s \in Tables \ {t} : page'[s] = {}
      BY <1>2, <1>3, <2>1 DEF NoRows
    <3>4. Wanted(t)' = Slice(Matches[t], offset, limit)
      BY <1>2, <1>4 DEF Wanted
    <3>5. total' = IF rows = {} THEN 0 ELSE Cardinality(Matches[t])
      <4>1. Cardinality(Matches[t]) \in Nat
        BY <1>1, MatchesTables
      <4> QED
        BY <1>2, <1>3, <2>1, <3>2, <4>1
    <3>6. ~ToFetch(t)'
      BY <1>3, <2>1 DEF ToFetch
    <3> QED
      BY <1>4, <3>2, <3>3, <3>4, <3>5, <3>6 DEF PageSoFar
  <2>2. CASE t # "user"
    <3>1. rows = {} /\ TotalCount("user", rows) = 0
      <4>1. "user" \in Tables \ {t}
        BY <1>1, <2>2
      <4> QED
        BY <1>1, <1>5, <4>1, OthersEmpty
    <3> HIDE DEF rows
    <3>2. \A s \in Tables : page'[s] = {}
      BY <1>2, <1>3, <3>1 DEF NoRows
    <3>3. total' = 0
      BY <1>2, <1>3, <3>1
    <3>4. ~HasFetched(t)'
      BY <1>3, <2>2 DEF HasFetched
    <3> QED
      BY <1>2, <1>3, <1>4, <3>2, <3>3, <3>4 DEF PageSoFar
  <2> QED
    BY <2>1, <2>2
<1> QED
  BY <1>4, <1>5, StatementKeeps
LEMMA FetchInternalsLone ==
  ASSUME SearchInv, LoneInv, FetchInternals
  PROVE  LoneInv'
<1> DEFINE o == Less(offset, UserRows)
           l == Less(limit, UserRows)
           rows == Joined(Slice(Matching("internal"), o, l))
<1>1. /\ SearchTypeOK
      /\ "user" \in Tables /\ "internal" \in Tables /\ "zkapp" \in Tables
  BY DEF SearchInv, Tables
<1>2. /\ offset \in Nat /\ limit \in Nat /\ total \in Nat
      /\ UserRows \in Nat /\ (UserRows = 0 <=> page["user"] = {})
  BY <1>1, PageNumbers
<1>3. /\ phase = "internals" /\ page["internal"] = {} /\ page["zkapp"] = {}
  BY DEF FetchInternals, SearchInv, BeforeInternals
<1>4. /\ offset' = o /\ limit' = l /\ phase' = "zkapps"
      /\ page' = [page EXCEPT !["internal"] = rows]
      /\ total' = total + TotalCount("internal", rows)
      /\ UNCHANGED <<archiveVars, walkVars, next>>
  BY DEF FetchInternals, fetch_internal_commands, UserRows
<1>5. Matches' = Matches /\ UNCHANGED archiveVars /\ UNCHANGED walkVars /\ asked' = asked
  BY <1>4, MatchesKept DEF archiveVars, walkVars
<1>6. page["user"] = {} => o = offset /\ l = limit
  BY <1>2 DEF Less
<1> HIDE DEF o, l
<1>7. page'["internal"] = rows /\ \A s \in Tables \ {"internal"} : page'[s] = page[s]
  BY <1>1, <1>4 DEF SearchTypeOK
<1>8. ASSUME NEW t \in Tables, Lone(t)
      PROVE  PageSoFar(t)'
  <2>1. PageSoFar(t)
    BY <1>8 DEF LoneInv
  <2>2. CASE t = "internal"
    <3>1. /\ page["user"] = {} /\ total = 0 /\ offset = asked.offset /\ limit = asked.limit
      BY <1>1, <1>3, <2>1, <2>2 DEF PageSoFar, ToFetch
    <3>2. o = asked.offset /\ l = asked.limit /\ o \in Nat /\ l \in Nat
      BY <1>2, <1>6, <3>1
    <3>3. rows \in {Joined(Slice(Matching(t), o, l)), Grouped(Slice(Matching(t), o, l))}
      BY <2>2
    <3> HIDE DEF rows
    <3>4. /\ Names(rows) = Slice(Matches[t], o, l)
          /\ Cardinality(rows) = Cardinality(Slice(Matches[t], o, l))
          /\ TotalCount(t, rows) = IF rows = {} THEN 0 ELSE Cardinality(Matches[t])
      BY <1>1, <1>8, <3>2, <3>3, LoneFetch
    <3>5. Wanted(t)' = Slice(Matches[t], o, l)
      BY <1>5, <3>2 DEF Wanted
    <3>6. total' = IF rows = {} THEN 0 ELSE Cardinality(Matches[t])
      <4>1. Cardinality(Matches[t]) \in Nat
        BY <1>1, MatchesTables
      <4> QED
        BY <1>4, <2>2, <3>1, <3>4, <4>1
    <3>7. page'[t] = rows /\ \A s \in Tables \ {t} : page'[s] = {}
      BY <1>7, <2>1, <2>2 DEF PageSoFar
    <3>8. ~ToFetch(t)'
      BY <1>4, <2>2 DEF ToFetch
    <3> QED
      BY <1>5, <3>4, <3>5, <3>6, <3>7, <3>8 DEF PageSoFar
  <2>3. CASE t # "internal"
    <3>1. rows = {} /\ TotalCount("internal", rows) = 0
      <4>1. "internal" \in Tables \ {t}
        BY <1>1, <2>3
      <4> QED
        BY <1>1, <1>8, <4>1, OthersEmpty
    <3> HIDE DEF rows
    <3>2. page' = page /\ total' = total
      <4>1. \A s \in Tables : page'[s] = page[s]
        BY <1>3, <1>7, <3>1
      <4> QED
        BY <1>1, <1>2, <1>3, <1>4, <3>1, <4>1 DEF SearchTypeOK
    <3>3. t = "user" \/ t = "zkapp"
      BY <2>3 DEF Tables
    <3>4. CASE t = "user"
      <4>1. HasFetched(t) /\ ~ToFetch(t)'
        BY <1>3, <1>4, <3>4 DEF HasFetched, ToFetch
      <4>2. Wanted(t)' = Wanted(t)
        BY <1>5 DEF Wanted
      <4> QED
        BY <1>5, <2>1, <3>2, <4>1, <4>2 DEF PageSoFar
    <3>5. CASE t = "zkapp"
      <4>1. ToFetch(t) /\ ~HasFetched(t)'
        BY <1>3, <1>4, <3>5 DEF HasFetched, ToFetch
      <4>2. offset' = offset /\ limit' = limit
        BY <1>1, <1>4, <1>6, <2>1, <2>3, <3>5 DEF PageSoFar
      <4> QED
        BY <1>5, <2>1, <3>2, <4>1, <4>2 DEF PageSoFar
    <3> QED
      BY <3>3, <3>4, <3>5
  <2> QED
    BY <2>2, <2>3
<1> QED
  BY <1>5, <1>8, StatementKeeps

\* As long as nothing has been found, the statements fetch.
LEMMA StillFetching ==
  ASSUME SearchTypeOK, NEW t \in Tables, Lone(t), PageSoFar(t), ToFetch(t), phase # "users"
  PROVE  limit > PageLen
<1>1. t # "user" /\ page[t] = {} /\ limit = asked.limit
  BY DEF ToFetch, PageSoFar
<1>2. page["user"] = {} /\ page["internal"] = {}
  BY <1>1 DEF PageSoFar, Tables
<1>3. PageLen = 0 /\ asked.limit \in Nat
  BY <1>2, PageNumbers
<1> QED
  BY <1>1, <1>3 DEF Lone

\* Nor does a count find anything in another table.
LEMMA CountInternalsLone ==
  ASSUME SearchInv, LoneInv, CountInternals
  PROVE  LoneInv'
<1> DEFINE first == Joined(Slice(Matching("internal"), 0, 1))
<1>1. SearchTypeOK /\ "internal" \in Tables
  BY DEF SearchInv, Tables
<1>2. /\ limit <= PageLen /\ phase' = "zkapps" /\ phase = "internals"
      /\ total' = total + TotalCount("internal", first)
      /\ UNCHANGED <<archiveVars, walkVars, offset, limit, page, next>>
  BY DEF CountInternals, fetch_internal_commands
<1>3. Matches' = Matches /\ UNCHANGED archiveVars /\ UNCHANGED walkVars /\ asked' = asked
  BY <1>2, MatchesKept DEF archiveVars, walkVars
<1>4. ASSUME NEW t \in Tables, Lone(t)
      PROVE  PageSoFar(t)'
  <2>1. PageSoFar(t)
    BY <1>4 DEF LoneInv
  <2>2. ~ToFetch(t)
    <3>1. limit \in Nat /\ PageLen \in Nat
      BY <1>1, PageNumbers
    <3> QED
      BY <1>1, <1>2, <1>4, <2>1, <3>1, StillFetching
  <2>3. t = "user"
    BY <1>2, <2>2 DEF ToFetch
  <2>4. TotalCount("internal", first) = 0
    <3>1. "internal" \in Tables \ {t}
      BY <1>1, <2>3
    <3> QED
      BY <1>1, <1>4, <3>1, OthersEmpty
  <2> HIDE DEF first
  <2>5. total' = total /\ page' = page
    BY <1>1, <1>2, <2>4 DEF SearchTypeOK
  <2>6. HasFetched(t) /\ ~ToFetch(t)'
    BY <1>2, <2>3 DEF HasFetched, ToFetch
  <2>7. Wanted(t)' = Wanted(t)
    BY <1>3 DEF Wanted
  <2> QED
    BY <2>1, <2>5, <2>6, <2>7, <1>3 DEF PageSoFar
<1> QED
  BY <1>3, <1>4, StatementKeeps

LEMMA FetchZkappsLone ==
  ASSUME SearchInv, LoneInv, FetchZkapps
  PROVE  LoneInv'
<1> DEFINE o == Less(offset, InternalRows)
           l == Less(limit, InternalRows)
           rows == Grouped(Slice(Matching("zkapp"), o, l))
<1>1. /\ SearchTypeOK
      /\ "user" \in Tables /\ "internal" \in Tables /\ "zkapp" \in Tables
  BY DEF SearchInv, Tables
<1>2. /\ offset \in Nat /\ limit \in Nat /\ total \in Nat
      /\ InternalRows \in Nat /\ (InternalRows = 0 <=> page["internal"] = {})
  BY <1>1, PageNumbers
<1>3. phase = "zkapps" /\ page["zkapp"] = {}
  BY DEF FetchZkapps, SearchInv, BeforeZkapps
<1>4. /\ phase' = "answered"
      /\ page' = [page EXCEPT !["zkapp"] = rows]
      /\ total' = total + TotalCount("zkapp", rows)
      /\ UNCHANGED <<archiveVars, walkVars>>
  BY DEF FetchZkapps, fetch_zkapp_commands, InternalRows, Respond
<1>5. Matches' = Matches /\ UNCHANGED archiveVars /\ UNCHANGED walkVars /\ asked' = asked
  BY <1>4, MatchesKept DEF archiveVars, walkVars
<1>6. page["internal"] = {} => o = offset /\ l = limit
  BY <1>2 DEF Less
<1> HIDE DEF o, l
<1>7. page'["zkapp"] = rows /\ \A s \in Tables \ {"zkapp"} : page'[s] = page[s]
  BY <1>1, <1>4 DEF SearchTypeOK
<1>8. ASSUME NEW t \in Tables, Lone(t)
      PROVE  PageSoFar(t)'
  <2>1. PageSoFar(t) /\ ~ToFetch(t)' /\ Wanted(t)' = Wanted(t)
    BY <1>4, <1>5, <1>8 DEF LoneInv, ToFetch, Wanted
  <2>2. CASE t = "zkapp"
    <3>1. /\ page["internal"] = {} /\ total = 0 /\ offset = asked.offset /\ limit = asked.limit
      BY <1>1, <1>3, <2>1, <2>2 DEF PageSoFar, ToFetch
    <3>2. o = asked.offset /\ l = asked.limit /\ o \in Nat /\ l \in Nat
      BY <1>2, <1>6, <3>1
    <3>3. rows \in {Joined(Slice(Matching(t), o, l)), Grouped(Slice(Matching(t), o, l))}
      BY <2>2
    <3> HIDE DEF rows
    <3>4. /\ Names(rows) = Slice(Matches[t], o, l)
          /\ Cardinality(rows) = Cardinality(Slice(Matches[t], o, l))
          /\ TotalCount(t, rows) = IF rows = {} THEN 0 ELSE Cardinality(Matches[t])
      BY <1>1, <1>8, <3>2, <3>3, LoneFetch
    <3>5. Wanted(t) = Slice(Matches[t], o, l)
      BY <3>2 DEF Wanted
    <3>6. total' = IF rows = {} THEN 0 ELSE Cardinality(Matches[t])
      <4>1. Cardinality(Matches[t]) \in Nat
        BY <1>1, MatchesTables
      <4> QED
        BY <1>4, <2>2, <3>1, <3>4, <4>1
    <3>7. page'[t] = rows /\ \A s \in Tables \ {t} : page'[s] = {}
      BY <1>7, <2>1, <2>2 DEF PageSoFar
    <3> QED
      BY <1>5, <2>1, <3>4, <3>5, <3>6, <3>7 DEF PageSoFar
  <2>3. CASE t # "zkapp"
    <3>1. rows = {} /\ TotalCount("zkapp", rows) = 0
      <4>1. "zkapp" \in Tables \ {t}
        BY <1>1, <2>3
      <4> QED
        BY <1>1, <1>8, <4>1, OthersEmpty
    <3> HIDE DEF rows
    <3>2. (\A s \in Tables : page'[s] = page[s]) /\ total' = total
      BY <1>2, <1>3, <1>4, <1>7, <3>1
    <3>3. HasFetched(t)
      BY <1>3, <2>3 DEF HasFetched
    <3> QED
      BY <1>5, <2>1, <3>2, <3>3 DEF PageSoFar
  <2> QED
    BY <2>2, <2>3
<1> QED
  BY <1>5, <1>8, StatementKeeps

LEMMA CountZkappsLone ==
  ASSUME SearchInv, LoneInv, CountZkapps
  PROVE  LoneInv'
<1> DEFINE first == Grouped(Slice(Matching("zkapp"), 0, 1))
<1>1. SearchTypeOK /\ "zkapp" \in Tables
  BY DEF SearchInv, Tables
<1>2. /\ limit <= PageLen /\ phase' = "answered" /\ phase = "zkapps"
      /\ total' = total + TotalCount("zkapp", first)
      /\ UNCHANGED <<archiveVars, walkVars, offset, limit, page>>
  BY DEF CountZkapps, fetch_zkapp_commands, Respond
<1>3. Matches' = Matches /\ UNCHANGED archiveVars /\ UNCHANGED walkVars /\ asked' = asked
  BY <1>2, MatchesKept DEF archiveVars, walkVars
<1>4. ASSUME NEW t \in Tables, Lone(t)
      PROVE  PageSoFar(t)'
  <2>1. PageSoFar(t)
    BY <1>4 DEF LoneInv
  <2>2. ~ToFetch(t)
    <3>1. limit \in Nat /\ PageLen \in Nat
      BY <1>1, PageNumbers
    <3> QED
      BY <1>1, <1>2, <1>4, <2>1, <3>1, StillFetching
  <2>3. t # "zkapp"
    BY <1>2, <2>2 DEF ToFetch
  <2>4. TotalCount("zkapp", first) = 0
    <3>1. "zkapp" \in Tables \ {t}
      BY <1>1, <2>3
    <3> QED
      BY <1>1, <1>4, <3>1, OthersEmpty
  <2> HIDE DEF first
  <2>5. total' = total /\ page' = page
    BY <1>1, <1>2, <2>4 DEF SearchTypeOK
  <2>6. HasFetched(t) /\ ~ToFetch(t)'
    BY <1>2, <2>3 DEF HasFetched, ToFetch
  <2>7. Wanted(t)' = Wanted(t)
    BY <1>3 DEF Wanted
  <2> QED
    BY <2>1, <2>5, <2>6, <2>7, <1>3 DEF PageSoFar
<1> QED
  BY <1>3, <1>4, StatementKeeps

\* A page of a walk over one table reaches as far as it names commands, and
\* the last one to the end of the table.
LEMMA PageEnds ==
  ASSUME SearchTypeOK, NEW t \in Tables, Lone(t), PageSoFar(t), phase = "answered"
  PROVE  /\ Names(page[t]) = Wanted(t)
         /\ Reach = asked.offset + Cardinality(Wanted(t))
         /\ Cardinality(Wanted(t)) \in Nat /\ Cardinality(Wanted(t)) <= asked.limit
         /\ Before(t, Reach) = Before(t, asked.offset) \cup Wanted(t)
         /\ total <= Reach => Before(t, Reach) = Matches[t]
<1> DEFINE S == Matches[t]
           w == Cardinality(Wanted(t))
<1>1. S \in SUBSET Commands /\ Cardinality(S) \in Nat
  BY MatchesTables
<1>2. /\ asked.offset \in Nat /\ asked.limit \in Nat /\ asked.limit >= 1
  BY DEF SearchTypeOK, Lone
<1>3. /\ Names(page[t]) = Wanted(t) /\ Cardinality(page[t]) = w
      /\ total = IF page[t] = {} THEN 0 ELSE Cardinality(S)
      /\ \A s \in Tables \ {t} : page[s] = {}
  BY DEF PageSoFar, HasFetched
<1>4. w \in Nat /\ w <= asked.limit
  BY <1>1, <1>2, SliceFinite, SliceBound DEF Wanted
<1>5. \A c \in Wanted(t) : asked.offset < Rank(c, S) /\ Rank(c, S) <= asked.offset + w
  BY <1>1, <1>2, SliceTight DEF Wanted
<1>6. w < asked.limit => Cardinality(S) <= asked.offset + w
  BY <1>1, <1>2, SliceShort DEF Wanted
<1>7. \A c \in S : Rank(c, S) \in Nat /\ Rank(c, S) <= Cardinality(S)
  BY <1>1, RankWithin
<1>8. \A c \in S : asked.offset < Rank(c, S) /\ Rank(c, S) <= asked.offset + w => c \in Wanted(t)
  BY <1>2, <1>4, <1>7 DEF Wanted, Slice
<1>9. Wanted(t) \subseteq S
  BY DEF Wanted, Slice
<1> HIDE DEF S, w
<1>10. Reach = asked.offset + w
  <2>1. /\ UserRows = IF t = "user" THEN w ELSE 0
        /\ InternalRows = IF t = "internal" THEN w ELSE 0
        /\ ZkappRows = IF t = "zkapp" THEN w ELSE 0
    BY <1>3, NoRowsNoNames DEF UserRows, InternalRows, ZkappRows, Tables
  <2>2. t = "user" \/ t = "internal" \/ t = "zkapp"
    BY DEF Tables
  <2> QED
    BY <1>2, <1>4, <2>1, <2>2 DEF Reach
<1>11. Before(t, Reach) = Before(t, asked.offset) \cup Wanted(t)
  <2>1. ASSUME NEW c \in S
        PROVE  Rank(c, S) <= Reach <=> (Rank(c, S) <= asked.offset \/ c \in Wanted(t))
    BY <1>2, <1>4, <1>5, <1>7, <1>8, <1>10, <2>1
  <2> QED
    BY <1>9, <2>1 DEF Before, S
<1>12. ASSUME total <= Reach
       PROVE  Before(t, Reach) = S
  <2>1. Cardinality(S) <= Reach
    <3>1. CASE page[t] = {}
      <4>1. w = 0
        BY <1>3, <3>1, NoRowsNoNames
      <4> QED
        BY <1>2, <1>6, <1>10, <4>1
    <3>2. CASE page[t] # {}
      BY <1>3, <1>12, <3>2
    <3> QED
      BY <3>1, <3>2
  <2>2. \A c \in S : Rank(c, S) <= Reach
    BY <1>1, <1>2, <1>4, <1>7, <1>10, <2>1 DEF S
  <2> QED
    BY <2>2 DEF Before, S
<1> QED
  BY <1>3, <1>4, <1>10, <1>11, <1>12 DEF S, w

\* What one page after the other names.
LEMMA NamesUnion ==
  ASSUME SearchTypeOK, NEW t \in Tables, \A s \in Tables \ {t} : page[s] = {}
  PROVE  Names(walked \cup Rows) = Names(walked) \cup Names(page[t])
<1>1. Rows = page[t]
  BY DEF Rows
<1> QED
  BY <1>1 DEF Names

LEMMA SearchActionLone ==
  ASSUME SearchInv, NEW wanted \in SUBSET Commands, NEW o \in Offsets, NEW l \in Limits,
         Search(wanted, o, l)
  PROVE  LoneInv'
<1>1. /\ walked' = {} /\ phase' = "users" /\ page' = NoRows /\ total' = 0
      /\ asked' = [wanted |-> wanted, offset |-> o, limit |-> l]
      /\ offset' = o /\ limit' = l /\ origin' = o
  BY DEF Search, Start
<1>2. SearchTypeOK'
  BY SearchActionInv DEF SearchInv
<1>3. SUFFICES ASSUME NEW t \in Tables, Lone(t)'
               PROVE  (Names(walked) = Before(t, asked.offset) /\ PageSoFar(t))'
  BY DEF LoneInv
<1>4. asked'.offset = 0 /\ offset' = asked'.offset /\ limit' = asked'.limit
  BY <1>1, <1>3 DEF Lone
<1>5. Before(t, asked.offset)' = {}
  <2>1. Matches'[t] \in SUBSET Commands
    BY <1>2 DEF SearchTypeOK, Matches, Matching
  <2>2. \A c \in Matches'[t] : Rank(c, Matches'[t]) \in Nat /\ 1 <= Rank(c, Matches'[t])
    BY <2>1, RankWithin
  <2> QED
    BY <1>4, <2>2 DEF Before
<1>6. Names(walked') = {}
  BY <1>1, NoRowsNoNames
<1>7. ~HasFetched(t)' /\ \A s \in Tables : page'[s] = {}
  BY <1>1 DEF HasFetched, NoRows
<1> QED
  BY <1>1, <1>4, <1>5, <1>6, <1>7 DEF PageSoFar, Names

LEMMA ContinueLone ==
  ASSUME SearchInv, WalkInv, LoneInv, Continue
  PROVE  LoneInv'
<1>1. SearchTypeOK
  BY DEF SearchInv
<1>2. /\ phase' = "users" /\ page' = NoRows /\ total' = 0
      /\ walked' = walked \cup Rows
      /\ asked' = [asked EXCEPT !.offset = next]
      /\ offset' = asked'.offset /\ limit' = asked'.limit
      /\ steady' = steady /\ status' = status /\ origin' = origin
      /\ phase = "answered" /\ next # None
  BY DEF Continue, Start, archiveVars, Rows
<1>3. asked'.offset = next /\ asked'.wanted = asked.wanted /\ asked'.limit = asked.limit
  BY <1>1, <1>2 DEF SearchTypeOK
<1>4. Matches' = Matches
  BY <1>2, <1>3, MatchesKept
<1>5. SUFFICES ASSUME NEW t \in Tables, Lone(t)'
               PROVE  (Names(walked) = Before(t, asked.offset) /\ PageSoFar(t))'
  BY DEF LoneInv
<1>6. Lone(t)
  BY <1>2, <1>3, <1>5 DEF Lone
<1>7. Names(walked) = Before(t, asked.offset) /\ PageSoFar(t)
  BY <1>6 DEF LoneInv
<1>8. next = Reach
  BY <1>2, <1>6 DEF Lone, WalkInv, Answered
<1>9. /\ Names(page[t]) = Wanted(t)
      /\ Before(t, Reach) = Before(t, asked.offset) \cup Wanted(t)
  BY <1>1, <1>2, <1>6, <1>7, PageEnds
<1>10. Names(walked') = Before(t, Reach)
  <2>1. \A s \in Tables \ {t} : page[s] = {}
    BY <1>7 DEF PageSoFar
  <2> QED
    BY <1>1, <1>2, <1>7, <1>9, <2>1, NamesUnion
<1>11. Before(t, asked.offset)' = Before(t, Reach)
  BY <1>3, <1>4, <1>8 DEF Before
<1>12. ~HasFetched(t)' /\ \A s \in Tables : page'[s] = {}
  BY <1>2 DEF HasFetched, NoRows
<1> QED
  BY <1>2, <1>10, <1>11, <1>12 DEF PageSoFar, Names

LEMMA FailLone ==
  ASSUME SearchInv, LoneInv, Fail
  PROVE  LoneInv'
<1>1. /\ phase' = "idle" /\ page' = NoRows
      /\ UNCHANGED archiveVars /\ UNCHANGED walkVars
  BY DEF Fail, archiveVars, walkVars
<1>2. ASSUME NEW t \in Tables, Lone(t)
      PROVE  PageSoFar(t)'
  BY <1>1 DEF PageSoFar, ToFetch, HasFetched, NoRows
<1> QED
  BY <1>1, <1>2, StatementKeeps

LEMMA InitLoneInv == SearchInit => LoneInv
<1> SUFFICES ASSUME SearchInit PROVE LoneInv
  OBVIOUS
<1>1. walked = {} /\ phase = "idle" /\ asked.limit = 0
  BY DEF SearchInit
<1> QED
  BY <1>1 DEF LoneInv, Lone

LEMMA NextLoneInv ==
  SearchInv /\ WalkInv /\ LoneInv /\ [SearchNext]_searchVars => LoneInv'
<1> SUFFICES ASSUME SearchInv, WalkInv, LoneInv, [SearchNext]_searchVars PROVE LoneInv'
  OBVIOUS
<1>1. CASE UNCHANGED searchVars
  <2>1. /\ Matches' = Matches /\ UNCHANGED archiveVars /\ UNCHANGED walkVars
        /\ UNCHANGED <<phase, offset, limit, page, total, asked>>
    BY <1>1, MatchesKept DEF searchVars, archiveVars, walkVars
  <2>2. ASSUME NEW t \in Tables, Lone(t)
        PROVE  PageSoFar(t)'
    <3>1. PageSoFar(t)
      BY <2>2 DEF LoneInv
    <3> QED
      BY <2>1, <3>1 DEF PageSoFar, ToFetch, HasFetched, Wanted
  <2> QED
    BY <2>1, <2>2, StatementKeeps
<1>2. CASE \E wanted \in SUBSET Commands, o \in Offsets, l \in Limits : Search(wanted, o, l)
  BY <1>2, SearchActionLone
<1>3. CASE Continue \/ Fail
  BY <1>3, ContinueLone, FailLone
<1>4. CASE FetchUsers \/ FetchInternals \/ CountInternals \/ FetchZkapps \/ CountZkapps
  BY <1>4, FetchUsersLone, FetchInternalsLone, CountInternalsLone, FetchZkappsLone,
     CountZkappsLone
<1>5. CASE \E b \in Blocks : BlockArrives(b) \/ Canonicalise(b)
  <2>1. ~steady'
    BY <1>5 DEF BlockArrives, Canonicalise
  <2> QED
    BY <2>1 DEF LoneInv, Lone
<1> QED
  BY <1>1, <1>2, <1>3, <1>4, <1>5 DEF SearchNext
-----------------------------------------------------------------------------
\* The handler's state stays well typed, whatever the archiver does.
THEOREM SearchTypeCorrect == SearchSpec => []SearchTypeOK
<1>1. SearchInv => SearchTypeOK
  BY DEF SearchInv
<1> QED
  BY <1>1, SearchInvariant, PTL

\* While the archive stands still, the rows of earlier pages stand before the
\* offset of this one, whatever statement the handler is at.
THEOREM WalkInvariant == SearchSpec => []WalkInv
BY InitWalkInv, NextWalkInv, SearchInvariant, PTL DEF SearchSpec

\* While the archive stands still, no row is on two pages of a walk, though
\* each page splits one offset over three tables.
THEOREM SearchWalkRepeatsNothing == SearchSpec => []WalkRepeatsNothing
<1>1. WalkInv => WalkRepeatsNothing
  BY DEF WalkInv, WalkRepeatsNothing
<1> QED
  BY <1>1, WalkInvariant, PTL

\* total_count of a first page counts the matching commands of all three
\* tables.
THEOREM SearchFirstTotalRight == SearchSpec => []FirstTotalRight
<1>1. SearchInv /\ WalkInv => FirstTotalRight
  <2>1. SearchInv => /\ Matches["user"] = Matching("user")
                     /\ Matches["internal"] = Matching("internal")
                     /\ Matches["zkapp"] = Matching("zkapp")
    BY MatchesTables DEF SearchInv, Tables
  <2> QED
    BY <2>1 DEF WalkInv, Answered, FirstPage, FirstTotalRight
<1> QED
  BY <1>1, SearchInvariant, WalkInvariant, PTL

\* While commands match in one table only, a walk has named exactly the
\* commands that stand before its offset.
THEOREM LoneInvariant == SearchSpec => []LoneInv
BY InitLoneInv, NextLoneInv, SearchInvariant, WalkInvariant, PTL DEF SearchSpec

\* A walk over one table, from its beginning to its end, has shown every
\* matching command of the table.
THEOREM SearchOneTableComplete == SearchSpec => []OneTableComplete
<1>1. SearchInv /\ WalkInv /\ LoneInv => OneTableComplete
  <2> SUFFICES ASSUME SearchInv, WalkInv, LoneInv, NEW t \in Tables,
                      phase = "answered", next = None, Lone(t)
               PROVE  {r[1] : r \in walked \cup Rows} = Matching(t)
    BY DEF OneTableComplete, Lone
  <2>1. SearchTypeOK /\ Names(walked) = Before(t, asked.offset) /\ PageSoFar(t)
    BY DEF SearchInv, LoneInv
  <2>2. total <= Reach
    BY DEF WalkInv, Lone, Answered
  <2>3. /\ Names(page[t]) = Wanted(t)
        /\ Before(t, Reach) = Before(t, asked.offset) \cup Wanted(t)
        /\ Before(t, Reach) = Matches[t]
    BY <2>1, <2>2, PageEnds
  <2>4. Names(walked \cup Rows) = Names(walked) \cup Names(page[t])
    <3>1. \A s \in Tables \ {t} : page[s] = {}
      BY <2>1 DEF PageSoFar
    <3> QED
      BY <2>1, <3>1, NamesUnion
  <2>5. Matches[t] = Matching(t)
    BY <2>1, MatchesTables
  <2> QED
    BY <2>1, <2>3, <2>4, <2>5 DEF Names
<1> QED
  BY <1>1, SearchInvariant, WalkInvariant, LoneInvariant, PTL
=============================================================================
