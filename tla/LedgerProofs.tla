---------------------------- MODULE LedgerProofs ----------------------------
(***************************************************************************)
(* Proofs about the operations of a block, for every set of keys, tokens   *)
(* and updates and for blocks of any length: transactions have identifiers *)
(* of their own, /block says what /search/transactions says, and the       *)
(* operations add up to what the block did to the balances.                *)
(***************************************************************************)
EXTENDS Ledger, FiniteSetTheorems, TLAPS

-----------------------------------------------------------------------------
(***************************************************************************)
(* Sums.                                                                   *)
(***************************************************************************)
\* Among subsets of a finite set there is one that contains no other.
LEMMA MinimalSubset ==
  ASSUME NEW S, IsFiniteSet(S), NEW Sets \in SUBSET SUBSET S, Sets # {}
  PROVE  \E s \in Sets : \A t \in Sets : t \subseteq s => t = s
<1>1. IsWellFoundedOn(StrictSubsetOrdering(S), SUBSET S)
  BY FS_StrictSubsetOrderingWellFounded, FS_FiniteSubsetsOfFinite
<1>2. PICK s \in Sets : \A t \in Sets : ~ (<<t, s>> \in StrictSubsetOrdering(S))
  BY <1>1, WFMin
<1>3. \A t \in Sets : t \subseteq s => t = s
  BY <1>2 DEF StrictSubsetOrdering
<1> QED
  BY <1>3

\* The element that a sum takes first, and the function that
\* SumFunctionOnSet defines.
First(s) == CHOOSE x \in s : TRUE
Rest(s) == s \ {First(s)}

Sums(sum, f, S) ==
  sum = [s \in SUBSET S |-> IF s = {} THEN 0 ELSE f[First(s)] + sum[Rest(s)]]

LEMMA FirstRest ==
  ASSUME NEW s, s # {}
  PROVE  First(s) \in s /\ Rest(s) \subseteq s /\ First(s) \notin Rest(s)
BY DEF First, Rest

LEMMA SumsAt ==
  ASSUME NEW f, NEW S, NEW sum, Sums(sum, f, S), NEW s \in SUBSET S
  PROVE  sum[s] = IF s = {} THEN 0 ELSE f[First(s)] + sum[Rest(s)]
BY DEF Sums

\* Two such functions agree where both are defined.
LEMMA SumsUnique ==
  ASSUME NEW f, NEW S, IsFiniteSet(S), NEW A \in SUBSET S, NEW B \in SUBSET S,
         NEW g, Sums(g, f, A), NEW h, Sums(h, f, B),
         NEW s, s \subseteq A, s \subseteq B
  PROVE  g[s] = h[s]
<1> DEFINE Bad == {u \in SUBSET S : u \subseteq A /\ u \subseteq B /\ g[u] # h[u]}
<1> SUFFICES ASSUME Bad # {}
             PROVE  FALSE
  OBVIOUS
<1>1. PICK u \in Bad : \A t \in Bad : t \subseteq u => t = u
  <2>1. Bad \in SUBSET SUBSET S
    OBVIOUS
  <2> HIDE DEF Bad
  <2> QED
    BY <2>1, MinimalSubset
<1>2. u # {}
  BY SumsAt
<1>3. Rest(u) \notin Bad
  BY <1>1, <1>2, FirstRest
<1>4. g[Rest(u)] = h[Rest(u)]
  BY <1>2, <1>3, FirstRest
<1> QED
  BY <1>2, <1>4, SumsAt

\* There is one, on any finite set.
LEMMA SumsExist ==
  ASSUME NEW f, NEW S, IsFiniteSet(S)
  PROVE  \E sum : Sums(sum, f, S)
<1> DEFINE Bad == {A \in SUBSET S : ~ \E sum : Sums(sum, f, A)}
<1> SUFFICES ASSUME Bad # {}
             PROVE  FALSE
  OBVIOUS
<1>1. PICK A \in Bad : \A t \in Bad : t \subseteq A => t = A
  <2>1. Bad \in SUBSET SUBSET S
    OBVIOUS
  <2> HIDE DEF Bad
  <2> QED
    BY <2>1, MinimalSubset
<1> DEFINE own(v) == CHOOSE sum : Sums(sum, f, v)
           g == [u \in SUBSET A |-> IF u = {} THEN 0 ELSE f[First(u)] + own(Rest(u))[Rest(u)]]
<1>2. \A v \in SUBSET A : v # A => Sums(own(v), f, v)
  <2> TAKE v \in SUBSET A
  <2> HAVE v # A
  <2>1. \E sum : Sums(sum, f, v)
    BY <1>1
  <2> QED
    BY <2>1
<1> HIDE DEF own
<1>3. \A v \in SUBSET A : v # A => g[v] = own(v)[v]
  <2> TAKE v \in SUBSET A
  <2> HAVE v # A
  <2>1. own(v)[v] = IF v = {} THEN 0 ELSE f[First(v)] + own(v)[Rest(v)]
    BY <1>2, SumsAt
  <2>2. CASE v = {}
    BY <2>1, <2>2
  <2>3. CASE v # {}
    <3>1. Rest(v) \in SUBSET A /\ Rest(v) # A /\ Rest(v) \subseteq v
      BY <2>3, FirstRest
    <3>2. Sums(own(Rest(v)), f, Rest(v)) /\ Sums(own(v), f, v)
      BY <1>2, <3>1
    <3>3. IsFiniteSet(A) /\ v \in SUBSET A
      BY FS_Subset
    <3>4. own(Rest(v))[Rest(v)] = own(v)[Rest(v)]
      BY <3>1, <3>2, <3>3, SumsUnique
    <3> QED
      BY <2>1, <2>3, <3>4
  <2> QED
    BY <2>2, <2>3
<1>4. \A u \in SUBSET A : g[u] = IF u = {} THEN 0 ELSE f[First(u)] + g[Rest(u)]
  <2> TAKE u \in SUBSET A
  <2>1. CASE u = {}
    BY <2>1
  <2>2. CASE u # {}
    <3>1. Rest(u) \in SUBSET A /\ Rest(u) # A
      BY <2>2, FirstRest
    <3> QED
      BY <1>3, <2>2, <3>1
  <2> QED
    BY <2>1, <2>2
<1>5. Sums(g, f, A)
  <2>1. g = [u \in SUBSET A |-> g[u]]
    OBVIOUS
  <2> HIDE DEF g
  <2> QED
    BY <1>4, <2>1 DEF Sums
<1> QED
  BY <1>1, <1>5

\* SumFunctionOnSet takes that function at the whole set.
LEMMA SumIs ==
  ASSUME NEW f, NEW S
  PROVE  SumFunctionOnSet(f, S) = (CHOOSE sum : Sums(sum, f, S))[S]
BY Zenon DEF SumFunctionOnSet, FoldFunctionOnSet, MapThenFoldSet, Sums, First, Rest

\* So a sum is its first summand and the sum of the rest.
LEMMA SumUnfold ==
  ASSUME NEW f, NEW S, IsFiniteSet(S)
  PROVE  SumFunctionOnSet(f, S) =
           IF S = {} THEN 0 ELSE f[First(S)] + SumFunctionOnSet(f, Rest(S))
<1> DEFINE own(v) == CHOOSE sum : Sums(sum, f, v)
<1>1. \A v \in SUBSET S : Sums(own(v), f, v)
  <2> TAKE v \in SUBSET S
  <2>1. \E sum : Sums(sum, f, v)
    BY FS_Subset, SumsExist
  <2> QED
    BY <2>1
<1>2. \A v : SumFunctionOnSet(f, v) = own(v)[v]
  BY SumIs
<1> HIDE DEF own
<1>3. own(S)[S] = IF S = {} THEN 0 ELSE f[First(S)] + own(S)[Rest(S)]
  BY <1>1, SumsAt
<1>4. CASE S = {}
  BY <1>2, <1>3, <1>4
<1>5. CASE S # {}
  <2>1. Rest(S) \in SUBSET S
    BY <1>5, FirstRest
  <2>2. own(S)[Rest(S)] = own(Rest(S))[Rest(S)]
    BY <1>1, <2>1, SumsUnique
  <2> QED
    BY <1>2, <1>3, <1>5, <2>2
<1> QED
  BY <1>4, <1>5

\* A set of numbers has an integer sum.
LEMMA SumInt ==
  ASSUME NEW f, NEW S, IsFiniteSet(S), \A x \in S : f[x] \in Int
  PROVE  SumFunctionOnSet(f, S) \in Int
<1> DEFINE Bad == {u \in SUBSET S : SumFunctionOnSet(f, u) \notin Int}
<1> SUFFICES ASSUME Bad # {}
             PROVE  FALSE
  OBVIOUS
<1>1. PICK u \in Bad : \A t \in Bad : t \subseteq u => t = u
  <2>1. Bad \in SUBSET SUBSET S
    OBVIOUS
  <2> HIDE DEF Bad
  <2> QED
    BY <2>1, MinimalSubset
<1>2. SumFunctionOnSet(f, u) = IF u = {} THEN 0 ELSE f[First(u)] + SumFunctionOnSet(f, Rest(u))
  BY FS_Subset, SumUnfold
<1>3. u # {}
  BY <1>2
<1>4. First(u) \in S /\ Rest(u) \in SUBSET S /\ Rest(u) \notin Bad
  BY <1>1, <1>3, FirstRest
<1> QED
  BY <1>2, <1>3, <1>4

\* Any element may be taken first.
LEMMA SumPick ==
  ASSUME NEW f, NEW S, IsFiniteSet(S), \A x \in S : f[x] \in Int, NEW x \in S
  PROVE  SumFunctionOnSet(f, S) = f[x] + SumFunctionOnSet(f, S \ {x})
<1> DEFINE Sum(u) == SumFunctionOnSet(f, u)
           Bad == {u \in SUBSET S : \E y \in u : Sum(u) # f[y] + Sum(u \ {y})}
<1> SUFFICES ASSUME Bad # {}
             PROVE  FALSE
  OBVIOUS
<1>1. PICK u \in Bad : \A t \in Bad : t \subseteq u => t = u
  <2>1. Bad \in SUBSET SUBSET S
    OBVIOUS
  <2> HIDE DEF Bad
  <2> QED
    BY <2>1, MinimalSubset
<1>2. PICK y \in u : Sum(u) # f[y] + Sum(u \ {y})
  OBVIOUS
<1>3. \A v \in SUBSET S : /\ Sum(v) = IF v = {} THEN 0 ELSE f[First(v)] + Sum(Rest(v))
                          /\ Sum(v) \in Int
  BY FS_Subset, SumUnfold, SumInt
<1>4. \A v \in SUBSET u : v # u => \A z \in v : Sum(v) = f[z] + Sum(v \ {z})
  BY <1>1
<1> HIDE DEF Sum, Bad
<1>5. First(u) \in u /\ Rest(u) = u \ {First(u)} /\ u \in SUBSET S
  BY FirstRest DEF Rest, Bad
<1>6. y # First(u)
  BY <1>2, <1>3, <1>5
<1>7. Sum(u) = f[First(u)] + Sum(u \ {First(u)})
  BY <1>3, <1>5
<1>8. Sum(u \ {First(u)}) = f[y] + Sum((u \ {First(u)}) \ {y})
  BY <1>4, <1>5, <1>6
<1>9. Sum(u \ {y}) = f[First(u)] + Sum((u \ {y}) \ {First(u)})
  BY <1>4, <1>5, <1>6
<1>10. (u \ {y}) \ {First(u)} = (u \ {First(u)}) \ {y}
  OBVIOUS
<1>11. f[y] \in Int /\ f[First(u)] \in Int /\ Sum((u \ {First(u)}) \ {y}) \in Int
  BY <1>3, <1>5
<1>12. Sum(u \ {y}) = f[First(u)] + Sum((u \ {First(u)}) \ {y})
  BY <1>9, <1>10
<1>13. Sum(u) = f[First(u)] + (f[y] + Sum((u \ {First(u)}) \ {y}))
  BY <1>7, <1>8
<1> QED
  BY <1>2, <1>11, <1>12, <1>13

LEMMA SumEmpty ==
  ASSUME NEW f
  PROVE  SumFunctionOnSet(f, {}) = 0
BY SumUnfold, FS_EmptySet

\* One more summand.
LEMMA SumAdd ==
  ASSUME NEW f, NEW S, IsFiniteSet(S), NEW x, x \notin S,
         \A y \in S \cup {x} : f[y] \in Int
  PROVE  SumFunctionOnSet(f, S \cup {x}) = f[x] + SumFunctionOnSet(f, S)
<1>1. IsFiniteSet(S \cup {x}) /\ x \in S \cup {x} /\ (S \cup {x}) \ {x} = S
  BY FS_AddElement
<1> QED
  BY <1>1, SumPick

\* A sum of zeros.
LEMMA SumZero ==
  ASSUME NEW f, NEW S, IsFiniteSet(S), \A x \in S : f[x] = 0
  PROVE  SumFunctionOnSet(f, S) = 0
<1> DEFINE Bad == {u \in SUBSET S : SumFunctionOnSet(f, u) # 0}
<1> SUFFICES ASSUME Bad # {}
             PROVE  FALSE
  OBVIOUS
<1>1. PICK u \in Bad : \A t \in Bad : t \subseteq u => t = u
  <2>1. Bad \in SUBSET SUBSET S
    OBVIOUS
  <2> HIDE DEF Bad
  <2> QED
    BY <2>1, MinimalSubset
<1>2. SumFunctionOnSet(f, u) = IF u = {} THEN 0 ELSE f[First(u)] + SumFunctionOnSet(f, Rest(u))
  BY FS_Subset, SumUnfold
<1>3. u # {}
  BY <1>2
<1>4. First(u) \in S /\ Rest(u) \in SUBSET S /\ Rest(u) \notin Bad
  BY <1>1, <1>3, FirstRest
<1> QED
  BY <1>2, <1>3, <1>4

\* The sum of a sum of two functions.
LEMMA SumPlus ==
  ASSUME NEW f, NEW g, NEW h, NEW S, IsFiniteSet(S),
         \A x \in S : f[x] \in Int /\ g[x] \in Int /\ h[x] = f[x] + g[x]
  PROVE  SumFunctionOnSet(h, S) = SumFunctionOnSet(f, S) + SumFunctionOnSet(g, S)
<1> DEFINE Bad == {u \in SUBSET S : SumFunctionOnSet(h, u)
                                      # SumFunctionOnSet(f, u) + SumFunctionOnSet(g, u)}
<1> SUFFICES ASSUME Bad # {}
             PROVE  FALSE
  OBVIOUS
<1>1. PICK u \in Bad : \A t \in Bad : t \subseteq u => t = u
  <2>1. Bad \in SUBSET SUBSET S
    OBVIOUS
  <2> HIDE DEF Bad
  <2> QED
    BY <2>1, MinimalSubset
<1>2. \A k : SumFunctionOnSet(k, u)
               = IF u = {} THEN 0 ELSE k[First(u)] + SumFunctionOnSet(k, Rest(u))
  BY FS_Subset, SumUnfold
<1>3. u # {}
  BY <1>2
<1>4. First(u) \in S /\ Rest(u) \in SUBSET S /\ Rest(u) \notin Bad
  BY <1>1, <1>3, FirstRest
<1>5. SumFunctionOnSet(f, Rest(u)) \in Int /\ SumFunctionOnSet(g, Rest(u)) \in Int
  BY <1>4, FS_Subset, SumInt
<1> QED
  BY <1>2, <1>3, <1>4, <1>5

\* A sum depends on the values in its set only.
LEMMA SumSame ==
  ASSUME NEW f, NEW g, NEW S, IsFiniteSet(S),
         \A x \in S : f[x] \in Int /\ g[x] = f[x]
  PROVE  SumFunctionOnSet(g, S) = SumFunctionOnSet(f, S)
<1> DEFINE z == [x \in S |-> 0]
<1>1. SumFunctionOnSet(z, S) = 0
  BY SumZero
<1>2. \A x \in S : z[x] \in Int /\ g[x] = f[x] + z[x]
  OBVIOUS
<1> HIDE DEF z
<1>3. SumFunctionOnSet(g, S) = SumFunctionOnSet(f, S) + SumFunctionOnSet(z, S)
  BY <1>2, SumPlus
<1> QED
  BY <1>1, <1>3, SumInt

\* Sums over two disjoint sets add up.
LEMMA SumUnion ==
  ASSUME NEW f, NEW S, IsFiniteSet(S), NEW T, IsFiniteSet(T), S \cap T = {},
         \A x \in S \cup T : f[x] \in Int
  PROVE  SumFunctionOnSet(f, S \cup T) = SumFunctionOnSet(f, S) + SumFunctionOnSet(f, T)
<1> DEFINE Sum(u) == SumFunctionOnSet(f, u)
           Bad == {u \in SUBSET T : Sum(S \cup u) # Sum(S) + Sum(u)}
<1> SUFFICES ASSUME Bad # {}
             PROVE  FALSE
  OBVIOUS
<1>1. PICK u \in Bad : \A t \in Bad : t \subseteq u => t = u
  <2>1. Bad \in SUBSET SUBSET T
    OBVIOUS
  <2> HIDE DEF Bad
  <2> QED
    BY <2>1, MinimalSubset
<1>2. Sum({}) = 0 /\ Sum(S) \in Int
  BY SumEmpty, SumInt
<1>3. u # {}
  <2> SUFFICES ASSUME u = {}
               PROVE  FALSE
    OBVIOUS
  <2>1. S \cup u = S /\ Sum(S \cup u) # Sum(S) + Sum(u)
    OBVIOUS
  <2> HIDE DEF Sum
  <2>2. Sum(S \cup u) = Sum(S) /\ Sum(u) = 0
    BY <1>2, <2>1
  <2> QED
    BY <1>2, <2>1, <2>2
<1>4. First(u) \in u /\ First(u) \notin Rest(u) /\ u = Rest(u) \cup {First(u)}
  BY <1>3, FirstRest DEF Rest
<1>5. Rest(u) \in SUBSET T /\ Rest(u) \notin Bad
  BY <1>1, <1>4
<1>6. IsFiniteSet(Rest(u)) /\ IsFiniteSet(S \cup Rest(u))
  BY <1>5, FS_Subset, FS_Union
<1>7. Sum(u) = f[First(u)] + Sum(Rest(u)) /\ Sum(Rest(u)) \in Int
  BY <1>4, <1>5, <1>6, SumAdd, SumInt
<1>8. Sum(S \cup u) = f[First(u)] + Sum(S \cup Rest(u))
  <2>1. S \cup u = (S \cup Rest(u)) \cup {First(u)} /\ First(u) \notin S \cup Rest(u)
    BY <1>4
  <2> QED
    BY <1>4, <1>5, <1>6, <2>1, SumAdd
<1>9. f[First(u)] \in Int
  BY <1>4
<1> QED
  BY <1>2, <1>5, <1>7, <1>8, <1>9

\* A sum that has one summand which is not zero.
LEMMA SumOne ==
  ASSUME NEW f, NEW S, IsFiniteSet(S), NEW x \in S, f[x] \in Int,
         \A y \in S : y # x => f[y] = 0
  PROVE  SumFunctionOnSet(f, S) = f[x]
<1>1. SumFunctionOnSet(f, S) = f[x] + SumFunctionOnSet(f, S \ {x})
  BY SumPick
<1>2. SumFunctionOnSet(f, S \ {x}) = 0
  BY FS_Subset, SumZero
<1> QED
  BY <1>1, <1>2

\* Renaming the elements.
LEMMA SumMap ==
  ASSUME NEW S, IsFiniteSet(S), NEW T, NEW m \in Bijection(S, T),
         NEW f, NEW g, \A x \in S : g[x] \in Int /\ g[x] = f[m[x]]
  PROVE  SumFunctionOnSet(g, S) = SumFunctionOnSet(f, T)
<1> DEFINE image(u) == {m[x] : x \in u}
           Bad == {u \in SUBSET S : SumFunctionOnSet(g, u) # SumFunctionOnSet(f, image(u))}
<1>1. image(S) = T /\ IsInjective(m) /\ m \in [S -> T]
  BY DEF Bijection, Injection, Surjection
<1> SUFFICES ASSUME Bad # {}
             PROVE  FALSE
  BY <1>1
<1>2. PICK u \in Bad : \A t \in Bad : t \subseteq u => t = u
  <2>1. Bad \in SUBSET SUBSET S
    OBVIOUS
  <2> HIDE DEF Bad
  <2> QED
    BY <2>1, MinimalSubset
<1>3. u # {}
  <2>1. image({}) = {}
    OBVIOUS
  <2> QED
    BY <2>1, SumEmpty
<1>4. First(u) \in u /\ First(u) \notin Rest(u) /\ u = Rest(u) \cup {First(u)} /\ u \in SUBSET S
  BY <1>3, FirstRest DEF Rest
<1>5. Rest(u) \in SUBSET S /\ Rest(u) \notin Bad
  BY <1>2, <1>4
<1>6. image(u) = image(Rest(u)) \cup {m[First(u)]}
  BY <1>4
<1>7. m[First(u)] \notin image(Rest(u))
  BY <1>1, <1>4 DEF IsInjective
<1>8. IsFiniteSet(Rest(u)) /\ IsFiniteSet(image(Rest(u)))
  <2>1. IsFiniteSet(Rest(u))
    BY <1>5, FS_Subset
  <2>2. IsFiniteSet(T) /\ image(Rest(u)) \in SUBSET T
    BY <1>1, <1>5, FS_Surjection DEF Bijection
  <2> HIDE DEF image
  <2> QED
    BY <2>1, <2>2, FS_Subset
<1>9. SumFunctionOnSet(g, u) = g[First(u)] + SumFunctionOnSet(g, Rest(u))
  BY <1>4, <1>8, SumAdd
<1>10. SumFunctionOnSet(f, image(u)) = f[m[First(u)]] + SumFunctionOnSet(f, image(Rest(u)))
  <2>1. \A y \in image(Rest(u)) \cup {m[First(u)]} : f[y] \in Int
    BY <1>4
  <2> HIDE DEF image
  <2> QED
    BY <1>6, <1>7, <1>8, <2>1, SumAdd
<1> QED
  BY <1>4, <1>5, <1>9, <1>10

\* A sum of one, and a sum of two.
LEMMA SumSingle ==
  ASSUME NEW f, NEW x, f[x] \in Int
  PROVE  SumFunctionOnSet(f, {x}) = f[x]
BY FS_Singleton, SumOne

LEMMA SumPair ==
  ASSUME NEW f, NEW x, NEW y, x # y, f[x] \in Int, f[y] \in Int
  PROVE  SumFunctionOnSet(f, {x, y}) = f[x] + f[y]
<1>1. {x, y} = {x} \cup {y} /\ IsFiniteSet({x})
  BY FS_Singleton
<1>2. SumFunctionOnSet(f, {x} \cup {y}) = f[y] + SumFunctionOnSet(f, {x})
  BY <1>1, SumAdd
<1>3. SumFunctionOnSet(f, {x}) = f[x]
  BY SumSingle
<1>4. f[y] + f[x] = f[x] + f[y]
  OBVIOUS
<1>5. SumFunctionOnSet(f, {x, y}) = f[y] + f[x]
  <2> HIDE DEF SumFunctionOnSet
  <2> QED
    BY Zenon, <1>1, <1>2, <1>3
<1> QED
  BY Zenon, <1>4, <1>5

\* SumFunction sums over the whole domain.
LEMMA SumOfAll ==
  ASSUME NEW f, NEW S, DOMAIN f = S
  PROVE  SumFunction(f) = SumFunctionOnSet(f, S)
BY DEF SumFunction

-----------------------------------------------------------------------------
(***************************************************************************)
(* The rows of a block, and what each of them does to a balance.           *)
(***************************************************************************)
UserShape(u) ==
  /\ u.command_type \in {"payment", "delegation"}
  /\ u.source \in Keys /\ u.receiver \in Keys /\ u.fee_payer = u.source
  /\ u.fee = Fee /\ u.amount = (IF u.command_type = "payment" THEN Amount ELSE None)
  /\ u.status \in {"applied", "failed"}

InternalShape(i) ==
  /\ i.command_type \in {"coinbase", "fee_transfer", "fee_transfer_via_coinbase"}
  /\ i.receiver \in Keys /\ i.fee \in Nat
  /\ i.status \in {"applied", "failed"}
  /\ i.command_type = "fee_transfer_via_coinbase" => i.status = "applied"

ZkappShape(z) ==
  /\ z.fee_payer \in Keys /\ z.fee = Fee /\ z.updates \in UpdateSets
  /\ z.status \in {"applied", "failed"}

Shape(r) ==
  /\ r.table \in {"user", "internal", "zkapp"}
  /\ r.table = "user" => UserShape(r)
  /\ r.table = "internal" => InternalShape(r)
  /\ r.table = "zkapp" => ZkappShape(r)

ViaCoinbase(r) == r.table = "internal" /\ r.command_type = "fee_transfer_via_coinbase"
IsCoinbase(r) == r.table = "internal" /\ r.command_type = "coinbase"

\* What least(..) looks at: an applied command with a receiver.
Mention(r) == r.table \in {"user", "internal"} /\ r.status = "applied"

\* Rows R have a coinbase of k's in the transaction of r.
PaidBy(R, r, k) == \E c \in R : IsCoinbase(c) /\ c.seq = r.seq /\ c.receiver = k

UserEffect(u, k) ==
  To(k, u.fee_payer, - u.fee)
  + (IF u.command_type = "payment" /\ u.status = "applied"
     THEN To(k, u.source, - u.amount) + To(k, u.receiver, u.amount) ELSE 0)

InternalEffect(R, i, k) ==
  (IF i.status = "applied" THEN To(k, i.receiver, i.fee) ELSE 0)
  + (IF ViaCoinbase(i) /\ PaidBy(R, i, k) THEN - i.fee ELSE 0)

\* What the updates U change of k's account.
Gains(U, k) == [u \in U |-> IF u.account = Default(k) THEN u.change ELSE 0]

ZkappEffect(z, k) ==
  To(k, z.fee_payer, - z.fee)
  + (IF z.status = "applied" THEN SumFunction(Gains(z.updates, k)) ELSE 0)

\* What r does to the balance of k's account, the fee for creating it aside.
Effect(R, r, k) ==
  CASE r.table = "user" -> UserEffect(r, k)
    [] r.table = "internal" -> InternalEffect(R, r, k)
    [] r.table = "zkapp" -> ZkappEffect(r, k)

Effects(R, k) == [r \in R |-> Effect(R, r, k)]

-----------------------------------------------------------------------------
(***************************************************************************)
(* A transaction enters the block.                                         *)
(***************************************************************************)
\* Its rows, of one table; only an internal command has several.
Transaction(new, table) ==
  /\ IsFiniteSet(new) /\ new # {}
  /\ \A r \in new : r.seq = seq /\ r.table = table /\ Shape(r)
  /\ \A r, s \in new : r # s => /\ table = "internal"
                                /\ InternalIdentifier(r) # InternalIdentifier(s)
                                /\ r.receiver # s.receiver

\* A fee transfer via coinbase has its coinbase, which was applied.
Accompanied(new) ==
  \A r \in new : ViaCoinbase(r) =>
    /\ \E c \in new : IsCoinbase(c)
    /\ \A c \in new : IsCoinbase(c) => c.status = "applied"

\* The accounts it creates: if it is no zkApp command, those of its
\* receivers, which have one from then on.
Creates(new, table, accounts) ==
  /\ accounts \in SUBSET Accounts /\ accounts \cap ledger = {}
  /\ \A r \in new : Mention(r) => Default(r.receiver) \in ledger \cup accounts
  /\ table # "zkapp" => \A a \in accounts : \E r \in new : Mention(r) /\ a = Default(r.receiver)

\* What k pays for its account.
Charge(table, accounts, k) ==
  IF table # "zkapp" /\ Default(k) \in accounts THEN CreationFee ELSE 0

\* What it does to the balances: its effect and the account creation fees.
Moves(new, table, accounts) ==
  change' = [k \in Keys |->
               change[k] + (SumFunction(Effects(new, k)) - Charge(table, accounts, k))]

Entered ==
  /\ \E new, table, accounts :
       /\ Transaction(new, table) /\ Accompanied(new)
       /\ Creates(new, table, accounts) /\ Moves(new, table, accounts)
       /\ rows' = rows \cup new /\ ledger' = ledger \cup accounts
       /\ created' = created \cup {[account |-> a, by |-> table] : a \in accounts}
  /\ seq' = seq + 1 /\ seq < MaxCommands
  /\ blockReply = None /\ searchReply = None
  /\ UNCHANGED <<blockReply, searchReply>>

LEMMA DefaultApart ==
  ASSUME NEW k, NEW l
  PROVE  Default(k) = Default(l) <=> k = l
BY DEF Default

\* Enter, with the gains as a function.
Entering(new, accounts, gain) == Enter(new, accounts, LAMBDA k : gain[k])

\* A command of one row.
LEMMA EntersOne ==
  ASSUME NEW r, NEW accounts, NEW gain, Entering({r}, accounts, gain),
         r.seq = seq, Shape(r), ~ ViaCoinbase(r),
         Creates({r}, r.table, accounts),
         \A k \in Keys : /\ Effect({r}, r, k) \in Int
                         /\ gain[k] = Effect({r}, r, k) - Charge(r.table, accounts, k)
  PROVE  Entered
<1>1. Transaction({r}, r.table)
  BY FS_Singleton DEF Transaction
<1>2. Accompanied({r})
  BY DEF Accompanied
<1>3. \A k \in Keys : SumFunction(Effects({r}, k)) = Effect({r}, r, k)
  <2> TAKE k \in Keys
  <2>1. DOMAIN Effects({r}, k) = {r} /\ Effects({r}, k)[r] = Effect({r}, r, k)
    BY DEF Effects
  <2> QED
    BY <2>1, SumOfAll, SumSingle
<1>4. Moves({r}, r.table, accounts)
  <2>1. change' = [k \in Keys |-> change[k] + gain[k]]
    BY DEF Entering, Enter
  <2> QED
    BY <1>3, <2>1 DEF Moves
<1>5. created' = created \cup {[account |-> a, by |-> r.table] : a \in accounts}
  <2>1. (CHOOSE x \in {r} : TRUE) = r
    OBVIOUS
  <2> QED
    BY <2>1 DEF Entering, Enter
<1>6. /\ rows' = rows \cup {r} /\ ledger' = ledger \cup accounts
      /\ seq' = seq + 1 /\ seq < MaxCommands /\ blockReply = None /\ searchReply = None
      /\ UNCHANGED <<blockReply, searchReply>>
  BY DEF Entering, Enter
<1> QED
  BY <1>1, <1>2, <1>4, <1>5, <1>6 DEF Entered

LEMMA MissingIs ==
  ASSUME NEW key \in Keys
  PROVE  /\ Missing(key) \in SUBSET Accounts /\ Missing(key) \cap ledger = {}
         /\ Default(key) \in ledger \cup Missing(key)
         /\ \A a \in Missing(key) : a = Default(key)
         /\ \A k : Default(k) \in Missing(key) <=> (k = key /\ Missing(key) # {})
<1>1. Default(key) \in Accounts
  BY TokensAssumption DEF Default, Accounts
<1> QED
  BY <1>1, DefaultApart DEF Missing

\* The net amount is the amount less what the account costs.
LEMMA NetIs ==
  ASSUME NEW key \in Keys, NEW amount \in Int, NEW k \in Keys
  PROVE  /\ To(k, key, Net(key, amount)) \in Int /\ To(k, key, amount) \in Int
         /\ To(k, key, Net(key, amount)) =
              To(k, key, amount) - (IF Default(k) \in Missing(key) THEN CreationFee ELSE 0)
<1>1. CreationFee \in Int /\ Net(key, amount) \in Int
  BY AmountsAssumption DEF Net
<1> QED
  BY <1>1, MissingIs DEF Net, To

LEMMA UserRowIs ==
  ASSUME NEW s \in Keys, NEW r \in Keys, NEW type \in {"payment", "delegation"},
         NEW status \in {"applied", "failed"}, NEW k \in Keys,
         NEW u, u = UserRow(type, s, r, IF type = "payment" THEN Amount ELSE None, status)
  PROVE  /\ u.seq = seq /\ u.table = "user" /\ Shape(u) /\ ~ ViaCoinbase(u)
         /\ u.receiver = r /\ (Mention(u) <=> status = "applied")
         /\ Effect({u}, u, k) \in Int
         /\ Effect({u}, u, k) =
              To(k, s, - Fee)
              + (IF type = "payment" /\ status = "applied"
                 THEN To(k, s, - Amount) + To(k, r, Amount) ELSE 0)
<1>1. /\ u.seq = seq /\ u.table = "user" /\ u.command_type = type /\ u.fee_payer = s
      /\ u.source = s /\ u.receiver = r /\ u.fee = Fee /\ u.status = status
      /\ u.amount = IF type = "payment" THEN Amount ELSE None
  BY DEF UserRow
<1>2. Shape(u) /\ ~ ViaCoinbase(u) /\ (Mention(u) <=> status = "applied")
  BY <1>1 DEF Shape, UserShape, ViaCoinbase, Mention
<1>3. Effect({u}, u, k) = UserEffect(u, k)
  BY <1>1 DEF Effect
<1>4. Fee \in Int /\ Amount \in Int
  BY AmountsAssumption
<1>5. Effect({u}, u, k) =
        To(k, s, - Fee) + (IF type = "payment" /\ status = "applied"
                           THEN To(k, s, - Amount) + To(k, r, Amount) ELSE 0)
  BY <1>1, <1>3 DEF UserEffect
<1>6. Effect({u}, u, k) \in Int
  BY <1>4, <1>5 DEF To
<1> QED
  BY <1>1, <1>2, <1>5, <1>6

\* Each action of the block is a transaction that enters it.
LEMMA PayEnters ==
  ASSUME NEW s \in Keys, NEW r \in Keys, Pay(s, r)
  PROVE  Entered
<1> DEFINE u(status) == UserRow("payment", s, r, Amount, status)
<1>1. \A status \in {"applied", "failed"}, k \in Keys :
        /\ u(status).seq = seq /\ u(status).table = "user"
        /\ Shape(u(status)) /\ ~ ViaCoinbase(u(status))
        /\ u(status).receiver = r /\ (Mention(u(status)) <=> status = "applied")
        /\ Effect({u(status)}, u(status), k) \in Int
        /\ Effect({u(status)}, u(status), k) =
             To(k, s, - Fee)
             + (IF status = "applied" THEN To(k, s, - Amount) + To(k, r, Amount) ELSE 0)
  <2> TAKE status \in {"applied", "failed"}, k \in Keys
  <2> DEFINE v == u(status)
  <2>1. v = UserRow("payment", s, r, IF "payment" = "payment" THEN Amount ELSE None, status)
    OBVIOUS
  <2> HIDE DEF v
  <2>2. /\ v.seq = seq /\ v.table = "user" /\ Shape(v) /\ ~ ViaCoinbase(v)
        /\ v.receiver = r /\ (Mention(v) <=> status = "applied")
        /\ Effect({v}, v, k) \in Int
        /\ Effect({v}, v, k) =
              To(k, s, - Fee)
              + (IF "payment" = "payment" /\ status = "applied"
                 THEN To(k, s, - Amount) + To(k, r, Amount) ELSE 0)
    BY <2>1, UserRowIs
  <2> QED
    BY <2>2 DEF v
<1>2. Fee \in Int /\ Amount \in Int /\ CreationFee \in Int
  BY AmountsAssumption
<1> HIDE DEF u
<1>3. ASSUME Enter({u("applied")}, Missing(r),
               LAMBDA k : To(k, s, - Fee - Amount) + To(k, r, Net(r, Amount)))
      PROVE  Entered
  <2> DEFINE gain == [k \in Keys |-> To(k, s, - Fee - Amount) + To(k, r, Net(r, Amount))]
  <2>1. Creates({u("applied")}, "user", Missing(r))
    BY <1>1, MissingIs DEF Creates
  <2>2. \A k \in Keys : gain[k] = Effect({u("applied")}, u("applied"), k)
                                  - Charge("user", Missing(r), k)
    <3> TAKE k \in Keys
    <3>1. Effect({u("applied")}, u("applied"), k)
            = To(k, s, - Fee) + (To(k, s, - Amount) + To(k, r, Amount))
      BY <1>1
    <3>2. /\ To(k, r, Net(r, Amount)) \in Int /\ To(k, r, Amount) \in Int
          /\ To(k, r, Net(r, Amount)) = To(k, r, Amount) - Charge("user", Missing(r), k)
      BY <1>2, NetIs DEF Charge
    <3>3. Charge("user", Missing(r), k) \in Int
      BY <1>2 DEF Charge
    <3>4. /\ To(k, s, - Fee - Amount) = To(k, s, - Fee) + To(k, s, - Amount)
          /\ To(k, s, - Fee) \in Int /\ To(k, s, - Amount) \in Int
      BY <1>2 DEF To
    <3> QED
      BY <3>1, <3>2, <3>3, <3>4
  <2>3. Entering({u("applied")}, Missing(r), gain)
    BY <1>3 DEF Enter, Entering
  <2> DEFINE w == u("applied")
  <2>4. /\ w.seq = seq /\ Shape(w) /\ ~ ViaCoinbase(w) /\ w.table = "user"
        /\ \A k \in Keys : Effect({w}, w, k) \in Int
    BY <1>1
  <2>5. Creates({w}, w.table, Missing(r)) /\ Entering({w}, Missing(r), gain)
        /\ \A k \in Keys : gain[k] = Effect({w}, w, k) - Charge(w.table, Missing(r), k)
    BY <2>1, <2>2, <2>3, <2>4
  <2> HIDE DEF gain, w
  <2> QED
    BY <2>4, <2>5, EntersOne
<1>4. ASSUME Enter({u("failed")}, {}, LAMBDA k : To(k, s, - Fee))
      PROVE  Entered
  <2>1. Creates({u("failed")}, "user", {})
    BY <1>1 DEF Creates
  <2> DEFINE gain == [k \in Keys |-> To(k, s, - Fee)]
  <2>2. \A k \in Keys : gain[k] = Effect({u("failed")}, u("failed"), k) - Charge("user", {}, k)
    <3> TAKE k \in Keys
    <3>1. Effect({u("failed")}, u("failed"), k) = To(k, s, - Fee) + 0
      BY <1>1
    <3>2. Charge("user", {}, k) = 0 /\ To(k, s, - Fee) \in Int
      BY <1>2 DEF Charge, To
    <3> QED
      BY <3>1, <3>2
  <2>3. Entering({u("failed")}, {}, gain)
    BY <1>4 DEF Enter, Entering
  <2> DEFINE w == u("failed")
  <2>4. /\ w.seq = seq /\ Shape(w) /\ ~ ViaCoinbase(w) /\ w.table = "user"
        /\ \A k \in Keys : Effect({w}, w, k) \in Int
    BY <1>1
  <2>5. Creates({w}, w.table, {}) /\ Entering({w}, {}, gain)
        /\ \A k \in Keys : gain[k] = Effect({w}, w, k) - Charge(w.table, {}, k)
    BY <2>1, <2>2, <2>3, <2>4
  <2> HIDE DEF gain, w
  <2> QED
    BY <2>4, <2>5, EntersOne
<1> QED
  BY <1>3, <1>4 DEF Pay, u

LEMMA DelegateEnters ==
  ASSUME NEW s \in Keys, NEW r \in Keys, Delegate(s, r)
  PROVE  Entered
<1>1. PICK status \in {"applied", "failed"} :
        /\ status = "applied" => Default(r) \in ledger
        /\ Enter({UserRow("delegation", s, r, None, status)}, {}, LAMBDA k : To(k, s, - Fee))
  BY DEF Delegate
<1> DEFINE w == UserRow("delegation", s, r, None, status)
           gain == [k \in Keys |-> To(k, s, - Fee)]
<1>2. /\ w.seq = seq /\ w.table = "user" /\ w.command_type = "delegation" /\ w.fee_payer = s
      /\ w.source = s /\ w.receiver = r /\ w.fee = Fee /\ w.status = status /\ w.amount = None
  BY DEF UserRow
<1>3. Entering({w}, {}, gain)
  BY <1>1 DEF Enter, Entering
<1>4. \A k \in Keys : gain[k] = To(k, s, - Fee) /\ gain[k] \in Int
  BY AmountsAssumption DEF To
<1> HIDE DEF w, gain
<1>5. \A k \in Keys : Effect({w}, w, k) = To(k, s, - Fee) + 0
  BY <1>2 DEF Effect, UserEffect
<1>6. Shape(w) /\ ~ ViaCoinbase(w) /\ (Mention(w) <=> status = "applied")
  BY <1>2 DEF Shape, UserShape, ViaCoinbase, Mention
<1>7. Creates({w}, w.table, {})
  BY <1>1, <1>2, <1>6 DEF Creates
<1>8. \A k \in Keys : /\ Effect({w}, w, k) \in Int
                      /\ gain[k] = Effect({w}, w, k) - Charge(w.table, {}, k)
  <2> TAKE k \in Keys
  <2>1. Effect({w}, w, k) = gain[k] + 0 /\ Charge(w.table, {}, k) = 0 /\ gain[k] \in Int
    BY <1>2, <1>4, <1>5 DEF Charge
  <2> QED
    BY <2>1
<1> QED
  BY <1>2, <1>3, <1>6, <1>7, <1>8, EntersOne

\* What the row of a transfer to r says and does.
LEMMA InternalRowIs ==
  ASSUME NEW type, NEW r \in Keys, NEW amount \in Nat, NEW secondary, NEW status,
         type \in {"coinbase", "fee_transfer", "fee_transfer_via_coinbase"},
         status \in {"applied", "failed"},
         type = "fee_transfer_via_coinbase" => status = "applied"
  PROVE  LET i == InternalRow(type, r, amount, secondary, status)
         IN  /\ i.seq = seq /\ i.table = "internal" /\ i.secondary = secondary /\ Shape(i)
             /\ (ViaCoinbase(i) <=> type = "fee_transfer_via_coinbase")
             /\ (IsCoinbase(i) <=> type = "coinbase")
             /\ i.receiver = r /\ i.status = status /\ (Mention(i) <=> status = "applied")
             /\ \A R, k : Effect(R, i, k) =
                   (IF status = "applied" THEN To(k, r, amount) ELSE 0)
                   + (IF ViaCoinbase(i) /\ PaidBy(R, i, k) THEN - amount ELSE 0)
<1> DEFINE i == InternalRow(type, r, amount, secondary, status)
<1>1. /\ i.seq = seq /\ i.table = "internal" /\ i.command_type = type /\ i.secondary = secondary
      /\ i.receiver = r /\ i.fee = amount /\ i.status = status
  BY DEF InternalRow
<1> HIDE DEF i
<1>2. /\ Shape(i) /\ (Mention(i) <=> status = "applied")
      /\ (ViaCoinbase(i) <=> type = "fee_transfer_via_coinbase")
      /\ (IsCoinbase(i) <=> type = "coinbase")
  BY <1>1 DEF Shape, InternalShape, ViaCoinbase, IsCoinbase, Mention
<1>3. \A R, k : Effect(R, i, k) =
         (IF status = "applied" THEN To(k, r, amount) ELSE 0)
         + (IF ViaCoinbase(i) /\ PaidBy(R, i, k) THEN - amount ELSE 0)
  BY <1>1 DEF Effect, InternalEffect
<1> QED
  BY <1>1, <1>2, <1>3 DEF i

\* A coinbase or a fee transfer to one receiver, applied or failed.
LEMMA InternalApplied ==
  ASSUME NEW type \in {"coinbase", "fee_transfer"}, NEW r \in Keys, NEW amount \in Nat,
         Entering({InternalRow(type, r, amount, 0, "applied")}, Missing(r),
                  [k \in Keys |-> To(k, r, Net(r, amount))])
  PROVE  Entered
<1> DEFINE w == InternalRow(type, r, amount, 0, "applied")
           gain == [k \in Keys |-> To(k, r, Net(r, amount))]
<1>1. /\ w.seq = seq /\ w.table = "internal" /\ Shape(w) /\ ~ ViaCoinbase(w)
      /\ w.receiver = r /\ Mention(w)
      /\ \A R, k : Effect(R, w, k) = To(k, r, amount) + 0
  BY InternalRowIs
<1>2. \A k \in Keys : gain[k] = To(k, r, Net(r, amount))
  OBVIOUS
<1>3. Entering({w}, Missing(r), gain)
  OBVIOUS
<1> HIDE DEF w, gain
<1>4. Creates({w}, w.table, Missing(r))
  BY <1>1, MissingIs DEF Creates
<1>5. \A k \in Keys : /\ Effect({w}, w, k) \in Int
                      /\ gain[k] = Effect({w}, w, k) - Charge(w.table, Missing(r), k)
  <2> TAKE k \in Keys
  <2>1. /\ To(k, r, amount) \in Int
        /\ To(k, r, Net(r, amount)) =
             To(k, r, amount) - (IF Default(k) \in Missing(r) THEN CreationFee ELSE 0)
    <3>1. amount \in Int
      OBVIOUS
    <3> QED
      BY <3>1, NetIs
  <2>2. Charge(w.table, Missing(r), k) = IF Default(k) \in Missing(r) THEN CreationFee ELSE 0
    BY <1>1 DEF Charge
  <2>3. Effect({w}, w, k) = To(k, r, amount) + 0
    BY <1>1
  <2> QED
    BY <1>2, <2>1, <2>2, <2>3
<1> QED
  BY <1>1, <1>3, <1>4, <1>5, EntersOne

LEMMA InternalFailed ==
  ASSUME NEW type \in {"coinbase", "fee_transfer"}, NEW r \in Keys, NEW amount \in Nat,
         Entering({InternalRow(type, r, amount, 0, "failed")}, {}, [k \in Keys |-> 0])
  PROVE  Entered
<1> DEFINE w == InternalRow(type, r, amount, 0, "failed")
           gain == [k \in Keys |-> 0]
<1>1. /\ w.seq = seq /\ w.table = "internal" /\ Shape(w) /\ ~ ViaCoinbase(w)
      /\ w.receiver = r /\ ~ Mention(w)
      /\ \A R, k : Effect(R, w, k) = 0 + 0
  <2>1. /\ w.seq = seq /\ w.table = "internal" /\ w.command_type = type
        /\ w.receiver = r /\ w.fee = amount /\ w.status = "failed"
    BY DEF InternalRow
  <2>2. type \in {"coinbase", "fee_transfer"}
    OBVIOUS
  <2> HIDE DEF w
  <2>3. Shape(w) /\ ~ ViaCoinbase(w) /\ ~ Mention(w)
    BY <2>1, <2>2 DEF Shape, InternalShape, ViaCoinbase, Mention
  <2>4. \A R, k : Effect(R, w, k) = 0 + 0
    BY <2>1, <2>3 DEF Effect, InternalEffect
  <2> QED
    BY <2>1, <2>3, <2>4
<1>2. \A k \in Keys : gain[k] = 0
  OBVIOUS
<1>3. Entering({w}, {}, gain)
  OBVIOUS
<1> HIDE DEF w, gain
<1>4. Creates({w}, w.table, {})
  BY <1>1 DEF Creates
<1>5. \A k \in Keys : /\ Effect({w}, w, k) \in Int
                      /\ gain[k] = Effect({w}, w, k) - Charge(w.table, {}, k)
  <2> TAKE k \in Keys
  <2>1. Effect({w}, w, k) = 0 + 0
    BY <1>1
  <2>2. Charge(w.table, {}, k) = 0
    BY DEF Charge
  <2> QED
    BY <1>2, <2>1, <2>2
<1> QED
  BY <1>1, <1>3, <1>4, <1>5, EntersOne

LEMMA CoinbaseEnters ==
  ASSUME NEW r \in Keys, Coinbase(r)
  PROVE  Entered
<1>1. CoinbaseAmount \in Nat
  BY AmountsAssumption
<1>2. \/ Entering({InternalRow("coinbase", r, CoinbaseAmount, 0, "applied")}, Missing(r),
                  [k \in Keys |-> To(k, r, Net(r, CoinbaseAmount))])
      \/ Entering({InternalRow("coinbase", r, CoinbaseAmount, 0, "failed")}, {}, [k \in Keys |-> 0])
  BY DEF Coinbase, Enter, Entering
<1> QED
  BY <1>1, <1>2, InternalApplied, InternalFailed

LEMMA FeeTransferEnters ==
  ASSUME NEW r \in Keys, FeeTransfer(r)
  PROVE  Entered
<1>1. Fee \in Nat
  BY AmountsAssumption
<1>2. \/ Entering({InternalRow("fee_transfer", r, Fee, 0, "applied")}, Missing(r),
                  [k \in Keys |-> To(k, r, Net(r, Fee))])
      \/ Entering({InternalRow("fee_transfer", r, Fee, 0, "failed")}, {}, [k \in Keys |-> 0])
  BY DEF FeeTransfer, Enter, Entering
<1> QED
  BY <1>1, <1>2, InternalApplied, InternalFailed

LEMMA GainsInt ==
  ASSUME NEW updates \in UpdateSets, NEW k
  PROVE  /\ IsFiniteSet(updates) /\ DOMAIN Gains(updates, k) = updates
         /\ \A u \in updates : u.account \in Accounts /\ u.change \in Int
         /\ \A u \in updates : Gains(updates, k)[u] \in Int
         /\ SumFunction(Gains(updates, k)) \in Int
<1>1. /\ IsFiniteSet(updates)
      /\ \A u \in updates : u.account \in Accounts /\ u.change \in Int
  BY UpdatesAssumption
<1>2. DOMAIN Gains(updates, k) = updates /\ \A u \in updates : Gains(updates, k)[u] \in Int
  BY <1>1 DEF Gains
<1>3. SumFunction(Gains(updates, k)) \in Int
  BY <1>1, <1>2, SumOfAll, SumInt
<1> QED
  BY <1>1, <1>2, <1>3

LEMMA ZkappEnters ==
  ASSUME NEW p \in Keys, NEW updates \in UpdateSets, Zkapp(p, updates)
  PROVE  Entered
<1> DEFINE applied(status) == IF status = "applied" THEN updates ELSE {}
           w(status) == ZkappRow(p, updates, status)
           gain(status) == [k \in Keys |-> To(k, p, - Fee) + SumFunction(Gains(applied(status), k))]
           new(status) == {u.account : u \in applied(status)} \ ledger
<1>1. PICK status \in {"applied", "failed"} : Entering({w(status)}, new(status), gain(status))
  BY DEF Zkapp, Enter, Entering, Gains
<1>2. /\ w(status).seq = seq /\ w(status).table = "zkapp" /\ w(status).fee_payer = p
      /\ w(status).fee = Fee /\ w(status).updates = updates /\ w(status).status = status
  BY DEF ZkappRow
<1>3. \A k \in Keys : gain(status)[k] = To(k, p, - Fee) + SumFunction(Gains(applied(status), k))
  OBVIOUS
<1>4. new(status) \in SUBSET Accounts /\ new(status) \cap ledger = {}
  BY GainsInt
<1> HIDE DEF w, gain, new
<1>5. Shape(w(status)) /\ ~ ViaCoinbase(w(status)) /\ ~ Mention(w(status))
  BY <1>2 DEF Shape, ZkappShape, ViaCoinbase, Mention
<1>6. Creates({w(status)}, w(status).table, new(status))
  BY <1>2, <1>4, <1>5 DEF Creates
<1>7. \A k \in Keys :
        /\ Effect({w(status)}, w(status), k) \in Int
        /\ gain(status)[k] = Effect({w(status)}, w(status), k)
                             - Charge(w(status).table, new(status), k)
  <2> TAKE k \in Keys
  <2>1. Effect({w(status)}, w(status), k) =
          To(k, p, - Fee) + (IF status = "applied" THEN SumFunction(Gains(updates, k)) ELSE 0)
    BY <1>2 DEF Effect, ZkappEffect
  <2>2. Charge(w(status).table, new(status), k) = 0
    BY <1>2 DEF Charge
  <2>3. SumFunction(Gains({}, k)) = 0
    BY SumOfAll, SumEmpty DEF Gains
  <2>4. SumFunction(Gains(updates, k)) \in Int
    BY GainsInt
  <2>5. To(k, p, - Fee) \in Int
    BY AmountsAssumption DEF To
  <2>6. CASE status = "applied"
    <3>1. gain(status)[k] = To(k, p, - Fee) + SumFunction(Gains(updates, k))
      BY <1>3, <2>6
    <3> QED
      BY <2>1, <2>2, <2>4, <2>5, <2>6, <3>1
  <2>7. CASE status = "failed"
    <3>1. gain(status)[k] = To(k, p, - Fee) + SumFunction(Gains({}, k))
      BY <1>3, <2>7
    <3> QED
      BY <2>1, <2>2, <2>3, <2>5, <2>7, <3>1
  <2> QED
    BY <2>6, <2>7
<1> QED
  BY <1>1, <1>2, <1>5, <1>6, <1>7, EntersOne

\* The effects of two rows.
LEMMA EffectsOfTwo ==
  ASSUME NEW r1, NEW r2, r1 # r2, NEW k,
         Effect({r1, r2}, r1, k) \in Int, Effect({r1, r2}, r2, k) \in Int
  PROVE  SumFunction(Effects({r1, r2}, k)) = Effect({r1, r2}, r1, k) + Effect({r1, r2}, r2, k)
<1> DEFINE new == {r1, r2}
           e == Effects(new, k)
<1>1. DOMAIN e = {r1, r2} /\ e[r1] = Effect(new, r1, k) /\ e[r2] = Effect(new, r2, k)
  BY DEF Effects
<1>2. e[r1] \in Int /\ e[r2] \in Int
  BY <1>1
<1> HIDE DEF new, e
<1>3. SumFunctionOnSet(e, {r1, r2}) = e[r1] + e[r2]
  BY <1>2, SumPair
<1> QED
  BY <1>1, <1>3, SumOfAll DEF new, e

\* An internal command of this transaction that was applied.
Rewards(r, key) ==
  r.seq = seq /\ r.table = "internal" /\ Shape(r) /\ r.receiver = key /\ Mention(r)

Gained(r1, r2, accounts, gain) ==
  \A k \in Keys :
    /\ Effect({r1, r2}, r1, k) \in Int /\ Effect({r1, r2}, r2, k) \in Int
    /\ gain[k] = (Effect({r1, r2}, r1, k) + Effect({r1, r2}, r2, k))
                 - Charge("internal", accounts, k)

\* A command of two rows, that pay two receivers.
LEMMA EntersTwo ==
  ASSUME NEW r1, NEW r2, NEW f \in Keys, NEW s \in Keys, f # s, NEW gain,
         Entering({r1, r2}, Missing(f) \cup Missing(s), gain),
         Rewards(r1, f), Rewards(r2, s),
         InternalIdentifier(r1) # InternalIdentifier(r2),
         ~ ViaCoinbase(r1), ViaCoinbase(r2) => IsCoinbase(r1),
         Gained(r1, r2, Missing(f) \cup Missing(s), gain)
  PROVE  Entered
<1> DEFINE new == {r1, r2}
           accounts == Missing(f) \cup Missing(s)
<1>1. IsFiniteSet(new)
  <2>1. IsFiniteSet({r1} \cup {r2})
    BY FS_Singleton, FS_AddElement
  <2>2. {r1} \cup {r2} = new
    OBVIOUS
  <2> QED
    BY <2>1, <2>2
<1>2. Transaction(new, "internal")
  BY <1>1 DEF Transaction, Rewards
<1>3. Accompanied(new)
  BY DEF Accompanied, Rewards, Mention
<1>4. Creates(new, "internal", accounts)
  BY MissingIs DEF Creates, Rewards
<1>5. Moves(new, "internal", accounts)
  <2>1. change' = [k \in Keys |-> change[k] + gain[k]]
    BY DEF Entering, Enter
  <2>2. \A k \in Keys : gain[k] = SumFunction(Effects(new, k)) - Charge("internal", accounts, k)
    <3> TAKE k \in Keys
    <3>1. /\ Effect(new, r1, k) \in Int /\ Effect(new, r2, k) \in Int
          /\ gain[k] = (Effect(new, r1, k) + Effect(new, r2, k)) - Charge("internal", accounts, k)
      BY DEF Gained
    <3>2. r1 # r2
      BY DEF Rewards
    <3>3. SumFunction(Effects(new, k)) = Effect(new, r1, k) + Effect(new, r2, k)
      BY Zenon, <3>1, <3>2, EffectsOfTwo
    <3> QED
      BY <3>1, <3>3
  <2> QED
    BY <2>1, <2>2 DEF Moves
<1>6. /\ created' = created \cup {[account |-> a, by |-> "internal"] : a \in accounts}
      /\ rows' = rows \cup new /\ ledger' = ledger \cup accounts
      /\ seq' = seq + 1 /\ seq < MaxCommands /\ blockReply = None /\ searchReply = None
      /\ UNCHANGED <<blockReply, searchReply>>
  <2>1. (CHOOSE x \in new : TRUE) \in new
    OBVIOUS
  <2>2. (CHOOSE x \in new : TRUE).table = "internal"
    BY <2>1 DEF Rewards
  <2> QED
    BY <2>2 DEF Entering, Enter
<1> QED
  BY <1>2, <1>3, <1>4, <1>5, <1>6 DEF Entered

LEMMA FeeTransferTwoEnters ==
  ASSUME NEW f \in Keys, NEW s \in Keys, FeeTransferTwo(f, s)
  PROVE  Entered
<1> DEFINE r1 == InternalRow("fee_transfer", f, Fee, 0, "applied")
           r2 == InternalRow("fee_transfer", s, Fee, 1, "applied")
           accounts == Missing(f) \cup Missing(s)
           gain == [k \in Keys |-> To(k, f, Net(f, Fee)) + To(k, s, Net(s, Fee))]
<1>0. Fee \in Nat /\ CoinbaseAmount \in Nat
  BY AmountsAssumption
<1>1. /\ r1.seq = seq /\ r1.table = "internal" /\ r1.secondary = 0 /\ Shape(r1)
      /\ ~ ViaCoinbase(r1) /\ r1.receiver = f /\ Mention(r1)
      /\ \A R, k : Effect(R, r1, k) = To(k, f, Fee) + 0
  BY <1>0, InternalRowIs
<1>2. /\ r2.seq = seq /\ r2.table = "internal" /\ r2.secondary = 1 /\ Shape(r2)
      /\ ~ ViaCoinbase(r2) /\ r2.receiver = s /\ Mention(r2)
      /\ \A R, k : Effect(R, r2, k) = To(k, s, Fee) + 0
  <2>1. /\ r2.seq = seq /\ r2.table = "internal" /\ r2.command_type = "fee_transfer"
        /\ r2.secondary = 1 /\ r2.receiver = s /\ r2.fee = Fee /\ r2.status = "applied"
    BY DEF InternalRow
  <2> HIDE DEF r2
  <2>2. Shape(r2) /\ ~ ViaCoinbase(r2) /\ Mention(r2)
    BY <1>0, <2>1 DEF Shape, InternalShape, ViaCoinbase, Mention
  <2>3. \A R, k : Effect(R, r2, k) = To(k, s, Fee) + 0
    BY <2>1, <2>2 DEF Effect, InternalEffect
  <2> QED
    BY <2>1, <2>2, <2>3
<1>3. f # s /\ Entering({r1, r2}, accounts, gain)
  BY DEF FeeTransferTwo, Enter, Entering
<1>4. \A k \in Keys : gain[k] = To(k, f, Net(f, Fee)) + To(k, s, Net(s, Fee))
  OBVIOUS
<1> HIDE DEF r1, r2, gain
<1>5. InternalIdentifier(r1) # InternalIdentifier(r2)
  BY <1>1, <1>2 DEF InternalIdentifier
<1>6. Gained(r1, r2, accounts, gain)
  <2> SUFFICES ASSUME NEW k \in Keys
               PROVE  /\ Effect({r1, r2}, r1, k) \in Int /\ Effect({r1, r2}, r2, k) \in Int
                      /\ gain[k] = (Effect({r1, r2}, r1, k) + Effect({r1, r2}, r2, k))
                                   - Charge("internal", accounts, k)
    BY DEF Gained
  <2>1. Fee \in Int /\ CreationFee \in Int
    BY AmountsAssumption
  <2>2. /\ To(k, f, Fee) \in Int /\ To(k, s, Fee) \in Int
        /\ Effect({r1, r2}, r1, k) = To(k, f, Fee) /\ Effect({r1, r2}, r2, k) = To(k, s, Fee)
    BY <1>1, <1>2, <2>1, NetIs
  <2>3. /\ To(k, f, Net(f, Fee)) = To(k, f, Fee)
                                   - (IF Default(k) \in Missing(f) THEN CreationFee ELSE 0)
        /\ To(k, s, Net(s, Fee)) = To(k, s, Fee)
                                   - (IF Default(k) \in Missing(s) THEN CreationFee ELSE 0)
    BY <2>1, NetIs
  <2>4. Charge("internal", accounts, k) =
          (IF Default(k) \in Missing(f) THEN CreationFee ELSE 0)
          + (IF Default(k) \in Missing(s) THEN CreationFee ELSE 0)
    BY <1>3, <2>1, MissingIs DEF Charge
  <2> QED
    BY <1>4, <2>1, <2>2, <2>3, <2>4
<1>7. Rewards(r1, f) /\ Rewards(r2, s)
  BY <1>1, <1>2 DEF Rewards
<1> QED
  BY <1>1, <1>2, <1>3, <1>5, <1>6, <1>7, EntersTwo

LEMMA CoinbaseWithFeeEnters ==
  ASSUME NEW r \in Keys, NEW p \in Keys, CoinbaseWithFee(r, p)
  PROVE  Entered
<1> DEFINE r1 == InternalRow("coinbase", r, CoinbaseAmount, 0, "applied")
           r2 == InternalRow("fee_transfer_via_coinbase", p, Fee, 0, "applied")
           accounts == Missing(r) \cup Missing(p)
           gain == [k \in Keys |-> To(k, r, Net(r, CoinbaseAmount - Fee)) + To(k, p, Net(p, Fee))]
<1>0. Fee \in Nat /\ CoinbaseAmount \in Nat
  BY AmountsAssumption
<1>1. /\ r1.seq = seq /\ r1.table = "internal" /\ Shape(r1)
      /\ ~ ViaCoinbase(r1) /\ IsCoinbase(r1) /\ r1.receiver = r /\ Mention(r1)
      /\ \A R, k : Effect(R, r1, k) = To(k, r, CoinbaseAmount) + 0
  BY <1>0, InternalRowIs
<1>2. /\ r2.seq = seq /\ r2.table = "internal" /\ Shape(r2)
      /\ ViaCoinbase(r2) /\ ~ IsCoinbase(r2) /\ r2.receiver = p /\ Mention(r2)
      /\ \A R, k : Effect(R, r2, k) =
            To(k, p, Fee) + (IF PaidBy(R, r2, k) THEN - Fee ELSE 0)
  BY <1>0, InternalRowIs
<1>3. r # p /\ Entering({r1, r2}, accounts, gain)
  BY DEF CoinbaseWithFee, Enter, Entering
<1>4. \A k \in Keys : gain[k] = To(k, r, Net(r, CoinbaseAmount - Fee)) + To(k, p, Net(p, Fee))
  OBVIOUS
<1> HIDE DEF r1, r2, gain
<1>5. InternalIdentifier(r1) # InternalIdentifier(r2)
  BY <1>1, <1>2 DEF InternalIdentifier, ViaCoinbase, IsCoinbase
<1>6. Gained(r1, r2, accounts, gain)
  <2> SUFFICES ASSUME NEW k \in Keys
               PROVE  /\ Effect({r1, r2}, r1, k) \in Int /\ Effect({r1, r2}, r2, k) \in Int
                      /\ gain[k] = (Effect({r1, r2}, r1, k) + Effect({r1, r2}, r2, k))
                                   - Charge("internal", accounts, k)
    BY DEF Gained
  <2>1. Fee \in Int /\ CreationFee \in Int /\ CoinbaseAmount \in Int
    BY AmountsAssumption
  <2>2. PaidBy({r1, r2}, r2, k) <=> k = r
    BY <1>1, <1>2 DEF PaidBy
  <2>3. /\ Effect({r1, r2}, r1, k) = To(k, r, CoinbaseAmount) + 0
        /\ Effect({r1, r2}, r2, k) = To(k, p, Fee) + (IF k = r THEN - Fee ELSE 0)
    BY <1>1, <1>2, <2>2
  <2>4. CoinbaseAmount - Fee \in Int
    BY <2>1
  <2>5. /\ To(k, r, Net(r, CoinbaseAmount - Fee)) =
             To(k, r, CoinbaseAmount - Fee)
             - (IF Default(k) \in Missing(r) THEN CreationFee ELSE 0)
        /\ To(k, p, Net(p, Fee)) = To(k, p, Fee)
                                   - (IF Default(k) \in Missing(p) THEN CreationFee ELSE 0)
    BY <2>1, <2>4, NetIs
  <2>6. Charge("internal", accounts, k) =
          (IF Default(k) \in Missing(r) THEN CreationFee ELSE 0)
          + (IF Default(k) \in Missing(p) THEN CreationFee ELSE 0)
    BY <1>3, <2>1, MissingIs DEF Charge
  <2>7. /\ To(k, r, CoinbaseAmount - Fee) =
             To(k, r, CoinbaseAmount) + (IF k = r THEN - Fee ELSE 0)
        /\ To(k, r, CoinbaseAmount) \in Int /\ To(k, p, Fee) \in Int
    BY <2>1 DEF To
  <2> QED
    BY <1>4, <2>1, <2>3, <2>5, <2>6, <2>7
<1>7. Rewards(r1, r) /\ Rewards(r2, p)
  BY <1>1, <1>2 DEF Rewards
<1> QED
  BY <1>1, <1>2, <1>3, <1>5, <1>6, <1>7, EntersTwo

\* A step of the specification is a transaction, a request or a stutter.
LEMMA Steps ==
  ASSUME LedgerNext
  PROVE  Entered \/ ReadBlock \/ ReadSearch
BY PayEnters, DelegateEnters, CoinbaseEnters, CoinbaseWithFeeEnters, FeeTransferEnters,
   FeeTransferTwoEnters, ZkappEnters DEF LedgerNext

-----------------------------------------------------------------------------
(***************************************************************************)
(* The invariant: what the tables hold, and what the answers are made of.  *)
(***************************************************************************)
RowsInv ==
  /\ seq \in 0..MaxCommands /\ IsFiniteSet(rows)
  /\ \A r \in rows : r.seq \in 0..(seq - 1) /\ Shape(r)

\* Rows of one sequence number are of one transaction.
SequenceInv ==
  \A r, s \in rows : r # s /\ r.seq = s.seq =>
    /\ r.table = "internal" /\ s.table = "internal"
    /\ InternalIdentifier(r) # InternalIdentifier(s)
    /\ r.receiver # s.receiver

\* A fee transfer via coinbase has a coinbase in its transaction, and /block
\* shows it.
CoinbaseInv ==
  \A r \in rows : ViaCoinbase(r) =>
    /\ \E c \in rows : IsCoinbase(c) /\ c.seq = r.seq
    /\ \A c \in rows : IsCoinbase(c) /\ c.seq = r.seq => c.status = "applied"

\* Who is mentioned has an account.
MentionInv ==
  \A r \in rows : Mention(r) => Default(r.receiver) \in ledger

\* An account that a user or an internal command created was created by the
\* first command that mentions its owner.
FirstInv(c) ==
  /\ c.account[2] = DefaultToken
  /\ \E r \in rows : /\ Mention(r) /\ r.receiver = c.account[1] /\ r.table = c.by
                     /\ \A s \in rows : Mention(s) /\ s.receiver = r.receiver => r.seq <= s.seq

CreatedInv ==
  /\ ledger \subseteq Accounts /\ Created \subseteq ledger
  /\ \A c, d \in created : c.account = d.account => c = d
  /\ \A c \in created : c = [account |-> c.account, by |-> c.by]
                        /\ (c.by # "zkapp" => FirstInv(c))

\* k's account was created, not by a zkApp command, and it paid for that.
PaidFor(k) == \E c \in created : c.account = Default(k) /\ c.by # "zkapp"

\* The balances are the effects of the rows, less the account creation fees.
ChangeInv ==
  change = [k \in Keys |-> SumFunction(Effects(rows, k))
                           - (IF PaidFor(k) THEN CreationFee ELSE 0)]

\* An answer is made of the rows there are: no transaction enters after it.
BlockInv ==
  blockReply = None \/
    \E feeOf \in [Table("user") -> {None, CreationFee}] :
      /\ \A u \in Table("user") : feeOf[u] \in UserFees(u)
      /\ blockReply = BlockUsers(feeOf) \cup BlockInternals \cup BlockZkapps

SearchInv ==
  searchReply = None \/
    \E coinbaseOf \in [Table("internal") -> Coinbases \cup {None}] :
      /\ \A i \in Table("internal") :
           IF i.command_type = "fee_transfer_via_coinbase" THEN coinbaseOf[i] # None
           ELSE coinbaseOf[i] = None
      /\ searchReply = SearchUsers \cup SearchInternals(coinbaseOf) \cup SearchZkapps

TablesInv == RowsInv /\ SequenceInv /\ CoinbaseInv /\ MentionInv /\ CreatedInv /\ ChangeInv

LedgerInv == TablesInv /\ BlockInv /\ SearchInv

LEMMA EffectInt ==
  ASSUME NEW R, NEW r, Shape(r), NEW k
  PROVE  Effect(R, r, k) \in Int
<1>1. CASE r.table = "user"
  BY <1>1, AmountsAssumption DEF Shape, UserShape, Effect, UserEffect, To
<1>2. CASE r.table = "internal"
  BY <1>2, AmountsAssumption DEF Shape, InternalShape, Effect, InternalEffect, To
<1>3. CASE r.table = "zkapp"
  BY <1>3, AmountsAssumption, GainsInt DEF Shape, ZkappShape, Effect, ZkappEffect, To
<1> QED
  BY <1>1, <1>2, <1>3 DEF Shape

\* The effect of a row depends on the rows of its own transaction only.
LEMMA EffectLocal ==
  ASSUME NEW R, NEW Q, NEW r, NEW k, \A c \in Q \ R : c.seq # r.seq, R \subseteq Q
  PROVE  Effect(Q, r, k) = Effect(R, r, k)
<1>1. PaidBy(Q, r, k) <=> PaidBy(R, r, k)
  BY DEF PaidBy
<1> QED
  BY <1>1 DEF Effect, InternalEffect

\* Rows of the transaction n, and rows of others.
RowsOf(n, R) == IsFiniteSet(R) /\ \A r \in R : r.seq = n /\ Shape(r)
RowsNotOf(n, R) == IsFiniteSet(R) /\ \A r \in R : r.seq # n /\ Shape(r)

\* The effects of rows of one transaction add to those of the others.
LEMMA EffectsAdd ==
  ASSUME NEW R, NEW new, NEW n, NEW k, RowsNotOf(n, R), RowsOf(n, new)
  PROVE  /\ SumFunction(Effects(R, k)) \in Int /\ SumFunction(Effects(new, k)) \in Int
         /\ SumFunction(Effects(R \cup new, k)) =
              SumFunction(Effects(R, k)) + SumFunction(Effects(new, k))
<1> DEFINE e == Effects(R \cup new, k)
           old == Effects(R, k)
           added == Effects(new, k)
<1>1. DOMAIN e = R \cup new /\ DOMAIN old = R /\ DOMAIN added = new
  BY DEF Effects
<1>2. \A r \in R \cup new : e[r] \in Int
  BY EffectInt DEF Effects, RowsOf, RowsNotOf
<1>3. \A r \in R : old[r] \in Int /\ old[r] = e[r]
  <2> TAKE r \in R
  <2>1. Effect(R \cup new, r, k) = Effect(R, r, k)
    BY EffectLocal DEF RowsOf, RowsNotOf
  <2> QED
    BY <2>1, EffectInt DEF Effects, RowsOf, RowsNotOf
<1>4. \A r \in new : added[r] \in Int /\ added[r] = e[r]
  <2> TAKE r \in new
  <2>1. Effect(R \cup new, r, k) = Effect(new, r, k)
    BY EffectLocal DEF RowsOf, RowsNotOf
  <2> QED
    BY <2>1, EffectInt DEF Effects, RowsOf, RowsNotOf
<1>5. R \cap new = {} /\ IsFiniteSet(R) /\ IsFiniteSet(new)
  BY DEF RowsOf, RowsNotOf
<1> HIDE DEF e, old, added
<1>6. SumFunctionOnSet(e, R \cup new) = SumFunctionOnSet(e, R) + SumFunctionOnSet(e, new)
  BY <1>2, <1>5, SumUnion
<1>7. SumFunctionOnSet(e, R) = SumFunctionOnSet(old, R) /\ SumFunctionOnSet(old, R) \in Int
  BY <1>3, <1>5, SumSame, SumInt
<1>8. SumFunctionOnSet(e, new) = SumFunctionOnSet(added, new) /\ SumFunctionOnSet(added, new) \in Int
  BY <1>4, <1>5, SumSame, SumInt
<1> QED
  BY <1>1, <1>6, <1>7, <1>8, SumOfAll DEF e, old, added

LEMMA InitInv ==
  ASSUME LedgerInit
  PROVE  LedgerInv
<1>1. RowsInv /\ SequenceInv /\ CoinbaseInv /\ MentionInv
  BY FS_EmptySet, AmountsAssumption DEF LedgerInit, RowsInv, SequenceInv, CoinbaseInv, MentionInv
<1>2. CreatedInv
  BY LedgersAssumption DEF LedgerInit, CreatedInv, Created
<1>3. ChangeInv
  <2>1. \A k \in Keys : SumFunction(Effects({}, k)) = 0
    BY SumOfAll, SumEmpty DEF Effects
  <2> QED
    BY <2>1 DEF LedgerInit, ChangeInv, PaidFor
<1>4. BlockInv /\ SearchInv
  BY DEF LedgerInit, BlockInv, SearchInv
<1> QED
  BY <1>1, <1>2, <1>3, <1>4 DEF LedgerInv, TablesInv

LEMMA EnteredInv ==
  ASSUME LedgerInv, Entered
  PROVE  LedgerInv'
<1>1. PICK new, table, accounts :
        /\ Transaction(new, table) /\ Accompanied(new)
        /\ Creates(new, table, accounts) /\ Moves(new, table, accounts)
        /\ rows' = rows \cup new /\ ledger' = ledger \cup accounts
        /\ created' = created \cup {[account |-> a, by |-> table] : a \in accounts}
  BY DEF Entered
<1>2. seq' = seq + 1 /\ seq < MaxCommands /\ blockReply' = None /\ searchReply' = None
  BY DEF Entered
<1>3. /\ IsFiniteSet(rows) /\ seq \in 0..MaxCommands /\ MaxCommands \in Nat
      /\ \A r \in rows : r.seq \in 0..(seq - 1) /\ r.seq # seq /\ r.seq < seq /\ Shape(r)
  BY AmountsAssumption DEF LedgerInv, TablesInv, RowsInv
<1>4. \A r \in new : r.seq = seq /\ r.table = table /\ Shape(r)
  BY <1>1 DEF Transaction
<1>5. RowsInv'
  <2>1. IsFiniteSet(rows')
    BY <1>1, <1>3, FS_Union DEF Transaction
  <2> QED
    BY <1>1, <1>2, <1>3, <1>4, <2>1 DEF RowsInv
<1>6. SequenceInv'
  BY <1>1, <1>3, <1>4 DEF LedgerInv, TablesInv, SequenceInv, Transaction, InternalIdentifier
<1>7. CoinbaseInv'
  BY <1>1, <1>3, <1>4 DEF LedgerInv, TablesInv, CoinbaseInv, Accompanied
<1>8. MentionInv'
  BY <1>1 DEF LedgerInv, TablesInv, MentionInv, Creates
<1>9. CreatedInv'
  <2> DEFINE fresh == {[account |-> a, by |-> table] : a \in accounts}
  <2>1. ledger \subseteq Accounts /\ accounts \subseteq Accounts /\ accounts \cap ledger = {}
        /\ ledger' = ledger \cup accounts /\ created' = created \cup fresh
    BY <1>1 DEF LedgerInv, TablesInv, CreatedInv, Creates
  <2>2. \A c \in created : c.account \in ledger /\ c = [account |-> c.account, by |-> c.by]
    BY DEF LedgerInv, TablesInv, CreatedInv, Created
  <2>3. \A c \in fresh : /\ c.account \in accounts /\ c.by = table
                         /\ c = [account |-> c.account, by |-> c.by]
    OBVIOUS
  <2>4. \A c, d \in fresh : c.account = d.account => c = d
    OBVIOUS
  <2> HIDE DEF fresh
  <2>5. Created' \subseteq ledger' /\ ledger' \subseteq Accounts
    BY <2>1, <2>2, <2>3 DEF Created
  <2>6. \A c, d \in created' : c.account = d.account => c = d
    BY <2>1, <2>2, <2>3, <2>4 DEF LedgerInv, TablesInv, CreatedInv
  <2>7. ASSUME NEW c \in created, c.by # "zkapp"
        PROVE  FirstInv(c)'
    <3>1. c.account[2] = DefaultToken
      BY <2>7 DEF LedgerInv, TablesInv, CreatedInv, FirstInv
    <3>2. PICK r \in rows :
            /\ Mention(r) /\ r.receiver = c.account[1] /\ r.table = c.by
            /\ \A s \in rows : Mention(s) /\ s.receiver = r.receiver => r.seq <= s.seq
      BY <2>7 DEF LedgerInv, TablesInv, CreatedInv, FirstInv
    <3>3. r.seq <= seq
      BY <1>3
    <3> QED
      BY <1>1, <1>4, <3>1, <3>2, <3>3 DEF FirstInv
  <2>8. ASSUME NEW c \in fresh, c.by # "zkapp"
        PROVE  FirstInv(c)'
    <3>1. PICK r \in new : Mention(r) /\ c.account = Default(r.receiver)
      BY <1>1, <2>3, <2>8 DEF Creates
    <3>2. c.account[2] = DefaultToken /\ c.account[1] = r.receiver /\ r.table = c.by
      BY <1>4, <2>3, <3>1 DEF Default
    <3>3. \A s \in rows : ~ (Mention(s) /\ s.receiver = r.receiver)
      BY <2>1, <2>3, <3>1 DEF LedgerInv, TablesInv, MentionInv
    <3>4. \A s \in new : r.seq <= s.seq
      BY <1>3, <1>4
    <3> QED
      BY <1>1, <3>1, <3>2, <3>3, <3>4 DEF FirstInv
  <2> QED
    BY <2>1, <2>2, <2>3, <2>5, <2>6, <2>7, <2>8 DEF CreatedInv
<1>10. ChangeInv'
  <2>1. \A k \in Keys : change[k] = SumFunction(Effects(rows, k))
                                   - (IF PaidFor(k) THEN CreationFee ELSE 0)
    BY DEF LedgerInv, TablesInv, ChangeInv
  <2>2. \A k \in Keys :
           PaidFor(k)' <=> PaidFor(k) \/ (table # "zkapp" /\ Default(k) \in accounts)
    <3> TAKE k \in Keys
    <3> DEFINE fresh == {[account |-> a, by |-> table] : a \in accounts}
    <3>1. (\E c \in fresh : c.account = Default(k) /\ c.by # "zkapp")
            <=> (table # "zkapp" /\ Default(k) \in accounts)
      <4>1. \A c \in fresh : c.account \in accounts /\ c.by = table
        OBVIOUS
      <4>2. ASSUME Default(k) \in accounts
            PROVE  \E c \in fresh : c.account = Default(k) /\ c.by = table
        <5>1. [account |-> Default(k), by |-> table] \in fresh
          BY <4>2
        <5> QED
          BY <5>1
      <4> HIDE DEF fresh
      <4> QED
        BY <4>1, <4>2
    <3>2. created' = created \cup fresh
      BY <1>1
    <3> HIDE DEF fresh
    <3> QED
      BY <3>1, <3>2 DEF PaidFor
  <2>3. \A k \in Keys : PaidFor(k) => Default(k) \notin accounts
    BY <1>1 DEF PaidFor, LedgerInv, TablesInv, CreatedInv, Created, Creates
  <2>4. \A k \in Keys :
          /\ SumFunction(Effects(rows, k)) \in Int /\ SumFunction(Effects(new, k)) \in Int
          /\ SumFunction(Effects(rows \cup new, k)) =
               SumFunction(Effects(rows, k)) + SumFunction(Effects(new, k))
    <3>1. RowsOf(seq, new)
      BY <1>1, <1>4 DEF Transaction, RowsOf
    <3>2. RowsNotOf(seq, rows)
      BY <1>3 DEF RowsNotOf
    <3> QED
      BY <3>1, <3>2, EffectsAdd
  <2>5. CreationFee \in Int
    BY AmountsAssumption
  <2>6. \A k \in Keys :
          change[k] + (SumFunction(Effects(new, k)) - Charge(table, accounts, k))
            = SumFunction(Effects(rows', k)) - (IF PaidFor(k)' THEN CreationFee ELSE 0)
    <3> TAKE k \in Keys
    <3> DEFINE a == SumFunction(Effects(rows, k))
               b == SumFunction(Effects(new, k))
               c == IF PaidFor(k) THEN CreationFee ELSE 0
               d == Charge(table, accounts, k)
    <3>1. (IF PaidFor(k)' THEN CreationFee ELSE 0) = c + d /\ c \in Int /\ d \in Int
      BY <2>2, <2>3, <2>5 DEF Charge
    <3>2. a \in Int /\ b \in Int /\ SumFunction(Effects(rows', k)) = a + b
      BY <1>1, <2>4
    <3>3. change[k] = a - c
      BY <2>1
    <3> HIDE DEF a, b, c, d
    <3>4. change[k] + (b - d) = (a + b) - (c + d)
      BY <3>1, <3>2, <3>3
    <3>5. change[k] + (b - d)
            = SumFunction(Effects(rows', k)) - (IF PaidFor(k)' THEN CreationFee ELSE 0)
      BY <3>1, <3>2, <3>4
    <3> QED
      BY <3>5 DEF b, d
  <2>7. change' = [k \in Keys |->
                     change[k] + (SumFunction(Effects(new, k)) - Charge(table, accounts, k))]
    BY <1>1 DEF Moves
  <2>8. change' = [k \in Keys |-> SumFunction(Effects(rows', k))
                                  - (IF PaidFor(k)' THEN CreationFee ELSE 0)]
    BY Zenon, <2>6, <2>7
  <2> QED
    BY Zenon, <2>8 DEF ChangeInv
<1> QED
  BY <1>2, <1>5, <1>6, <1>7, <1>8, <1>9, <1>10
     DEF LedgerInv, TablesInv, BlockInv, SearchInv
\* What the queries read is the rows, the accounts and accounts_created.
LEMMA QueriesUnchanged ==
  ASSUME UNCHANGED <<rows, seq, ledger, created>>
  PROVE  /\ \A name : Table(name)' = Table(name)
         /\ \A u : UserFees(u)' = UserFees(u)
         /\ \A feeOf : BlockUsers(feeOf)' = BlockUsers(feeOf)
         /\ BlockInternals' = BlockInternals
         /\ BlockZkapps' = BlockZkapps
         /\ Coinbases' = Coinbases
         /\ SearchUsers' = SearchUsers
         /\ \A coinbaseOf : SearchInternals(coinbaseOf)' = SearchInternals(coinbaseOf)
         /\ SearchZkapps' = SearchZkapps
<1>2. \A name : Table(name)' = Table(name)
  BY DEF Table
<1>3. AccountIds' = AccountIds
  BY <1>2 DEF AccountIds
<1>4. \A key : IdsOf(key)' = IdsOf(key)
  BY <1>3 DEF IdsOf
<1>5. \A key : FirstMention(key)' = FirstMention(key)
  BY <1>2 DEF FirstMention
<1>6. \A r, account : FeeIfCreated(r, account)' = FeeIfCreated(r, account)
  BY <1>5 DEF FeeIfCreated, Created
<1>7. \A u : UserFees(u)' = UserFees(u)
  BY <1>4, <1>6 DEF UserFees
<1>8. \A feeOf : BlockUsers(feeOf)' = BlockUsers(feeOf)
  BY <1>2 DEF BlockUsers
<1>9. InternalsShown' = InternalsShown /\ CoinbasesShown' = CoinbasesShown
  BY <1>2, <1>3 DEF InternalsShown, CoinbasesShown
<1>10. \A i : CoinbasesOf(i)' = CoinbasesOf(i)
  BY <1>9 DEF CoinbasesOf
<1>18. \A c : ReceiverOf(c)' = ReceiverOf(c)
  BY <1>2 DEF ReceiverOf
<1>11. BlockInternals' = BlockInternals
  BY <1>6, <1>9, <1>10, <1>18 DEF BlockInternals
<1>12. BlockZkapps' = BlockZkapps
  BY <1>2 DEF BlockZkapps, ZkappsShown
<1>13. Coinbases' = Coinbases
  BY <1>2 DEF Coinbases
<1>14. SearchUsers' = SearchUsers
  BY <1>2, <1>7 DEF SearchUsers
<1>15. \A i : InternalFees(i)' = InternalFees(i)
  BY <1>4, <1>6 DEF InternalFees
<1>16. \A coinbaseOf : SearchInternals(coinbaseOf)' = SearchInternals(coinbaseOf)
  BY <1>2, <1>15, <1>18 DEF SearchInternals
<1>17. SearchZkapps' = SearchZkapps
  BY <1>2 DEF SearchZkapps
<1> QED
  BY <1>2, <1>7, <1>8, <1>11, <1>12, <1>13, <1>14, <1>16, <1>17

LEMMA RequestInv ==
  ASSUME LedgerInv, ReadBlock \/ ReadSearch \/ UNCHANGED ledgerVars
  PROVE  LedgerInv'
<1>1. UNCHANGED <<rows, seq, ledger, created, change>>
  BY DEF ReadBlock, ReadSearch, ledgerVars
<1>2. TablesInv'
  <2>1. RowsInv' /\ SequenceInv' /\ CoinbaseInv' /\ MentionInv'
    BY <1>1 DEF LedgerInv, TablesInv, RowsInv, SequenceInv, CoinbaseInv, MentionInv
  <2>2. CreatedInv'
    BY <1>1 DEF LedgerInv, TablesInv, CreatedInv, Created, FirstInv
  <2>3. ChangeInv'
    BY <1>1 DEF LedgerInv, TablesInv, ChangeInv, PaidFor
  <2> QED
    BY <2>1, <2>2, <2>3 DEF TablesInv
<1>3. blockReply' = blockReply => BlockInv'
  BY <1>1, QueriesUnchanged DEF LedgerInv, BlockInv
<1>4. searchReply' = searchReply => SearchInv'
  BY <1>1, QueriesUnchanged DEF LedgerInv, SearchInv
<1>5. CASE ReadBlock
  <2>1. BlockInv'
    BY <1>1, <1>5, QueriesUnchanged DEF ReadBlock, BlockInv
  <2> QED
    BY <1>2, <1>4, <1>5, <2>1 DEF ReadBlock, LedgerInv
<1>6. CASE ReadSearch
  <2>1. SearchInv'
    BY <1>1, <1>6, QueriesUnchanged DEF ReadSearch, SearchInv
  <2> QED
    BY <1>2, <1>3, <1>6, <2>1 DEF ReadSearch, LedgerInv
<1>7. CASE UNCHANGED ledgerVars
  BY <1>2, <1>3, <1>4, <1>7 DEF ledgerVars, LedgerInv
<1> QED
  BY <1>5, <1>6, <1>7

LEMMA LedgerInvariant ==
  LedgerSpec => []LedgerInv
<1>1. LedgerInv /\ [LedgerNext]_ledgerVars => LedgerInv'
  BY Steps, EnteredInv, RequestInv
<1> QED
  BY InitInv, <1>1, PTL DEF LedgerSpec

-----------------------------------------------------------------------------
(***************************************************************************)
(* Identifiers.                                                            *)
(***************************************************************************)
\* The identifier of an internal command is none of a hash alone.
LEMMA IdentifiersApart ==
  ASSUME NEW n, NEW i
  PROVE  <<"hash", n>> # InternalIdentifier(i)
<1>1. DOMAIN <<"hash", n>> = 1..2 /\ DOMAIN InternalIdentifier(i) = 1..4
  BY DEF InternalIdentifier
<1> QED
  BY <1>1

\* A set of two is not a set of one.
LEMMA TwoAreMany ==
  ASSUME NEW S, IsFiniteSet(S), NEW x \in S, NEW y \in S, x # y
  PROVE  Cardinality(S) > 1
<1>1. IsFiniteSet({x}) /\ Cardinality({x}) = 1
  BY FS_Singleton
<1>2. Cardinality({x} \cup {y}) = 2
  BY <1>1, FS_AddElement
<1>3. Cardinality({x} \cup {y}) <= Cardinality(S) /\ Cardinality(S) \in Nat
  BY FS_Subset, FS_CardinalityType
<1> QED
  BY <1>2, <1>3

\* Two transactions of an answer with one identifier are of one row.
LEMMA InvIdentifies ==
  ASSUME LedgerInv
  PROVE  IdentifiersUnique
<1> SUFFICES ASSUME blockReply # None,
                    NEW t \in blockReply, NEW u \in blockReply, t # u, t.id = u.id
             PROVE  t.row = u.row /\ Cardinality(CoinbasesShown) > 1
  BY DEF IdentifiersUnique
<1>1. PICK feeOf \in [Table("user") -> {None, CreationFee}] :
         blockReply = BlockUsers(feeOf) \cup BlockInternals \cup BlockZkapps
  BY DEF LedgerInv, BlockInv
<1> DEFINE Hashed == BlockUsers(feeOf) \cup BlockZkapps
<1>2. \A v \in Hashed : /\ v.row \in rows /\ v.row.table # "internal"
                        /\ v.id = <<"hash", v.row.seq>>
  BY DEF BlockUsers, BlockZkapps, ZkappsShown, ZkappTransaction, Table
<1>3. \A v, w \in Hashed : v.row = w.row => v = w
  BY DEF BlockUsers, BlockZkapps, ZkappsShown, ZkappTransaction, Table
<1>4. \A v \in BlockInternals : /\ v.row \in rows /\ v.row.table = "internal"
                                /\ v.via \in CoinbasesOf(v.row)
                                /\ v.id = InternalIdentifier(v.row)
  BY DEF BlockInternals, InternalsShown, Table
<1>5. \A v, w \in BlockInternals : v.row = w.row /\ v.via = w.via => v = w
  BY DEF BlockInternals
<1>6. CASE t \in Hashed /\ u \in Hashed
  <2>1. t.row.seq = u.row.seq
    BY <1>2, <1>6
  <2>2. t.row = u.row
    BY <1>2, <1>6, <2>1 DEF LedgerInv, TablesInv, SequenceInv
  <2> QED
    BY <1>3, <1>6, <2>2
<1>7. CASE t \in BlockInternals /\ u \in BlockInternals
  <2>1. t.row.seq = u.row.seq
    BY <1>4, <1>7 DEF InternalIdentifier
  <2>2. t.row = u.row
    BY <1>4, <1>7, <2>1 DEF LedgerInv, TablesInv, SequenceInv
  <2>3. t.via # u.via
    BY <1>5, <1>7, <2>2
  <2>4. t.via \in CoinbasesShown /\ u.via \in CoinbasesShown
    BY <1>4, <1>7, <2>2, <2>3 DEF CoinbasesOf
  <2>5. IsFiniteSet(CoinbasesShown)
    BY FS_Subset DEF LedgerInv, TablesInv, RowsInv, CoinbasesShown, InternalsShown, Table
  <2> QED
    BY <2>2, <2>3, <2>4, <2>5, TwoAreMany
<1>8. ~ (t \in Hashed /\ u \in BlockInternals) /\ ~ (u \in Hashed /\ t \in BlockInternals)
  BY <1>2, <1>4, IdentifiersApart
<1> QED
  BY <1>1, <1>6, <1>7, <1>8

(***************************************************************************)
(* Whatever commands a block holds, /block gives no two of its             *)
(* transactions one identifier: the hash is enough for a user or a zkApp   *)
(* command, and an internal command, whose hash another may share, needs   *)
(* sequence_no, secondary_sequence_no and its type                         *)
(* (generate_internal_command_transaction_identifier).  Only the pairing   *)
(* of a fee transfer with several coinbases repeats one.                   *)
(***************************************************************************)
THEOREM LedgerIdentifiersUnique ==
  LedgerSpec => []IdentifiersUnique
BY LedgerInvariant, InvIdentifies, PTL

-----------------------------------------------------------------------------
(***************************************************************************)
(* What a request says of one command.                                     *)
(***************************************************************************)
\* SetToSeq lists a finite set, each element once.
LEMMA ListedOnce ==
  ASSUME NEW S, IsFiniteSet(S)
  PROVE  Cardinality(S) \in Nat /\ SetToSeq(S) \in Bijection(1..Cardinality(S), S)
<1> DEFINE n == Cardinality(S)
           f == SetToSeq(S)
<1>1. n \in Nat /\ ExistsBijection(1..n, S)
  BY FS_CardinalityType
<1>2. \E g \in [1..n -> S] : IsInjective(g)
  BY <1>1 DEF ExistsBijection, Bijection, Injection
<1>3. f \in [1..n -> S] /\ IsInjective(f)
  BY <1>2 DEF SetToSeq
<1>4. Cardinality(1..n) = n
  BY <1>1, FS_Interval
<1> HIDE DEF n, f
<1>5. f \in Injection(1..n, S)
  BY <1>3 DEF Injection
<1>6. f \in Surjection(1..n, S)
  BY <1>4, <1>5, FS_Injection DEF n
<1> QED
  BY <1>1, <1>5, <1>6 DEF Bijection, f, n

LEMMA Listed ==
  ASSUME NEW S, IsFiniteSet(S)
  PROVE  /\ \E n \in Nat : SetToSeq(S) \in [1..n -> S]
         /\ \A x \in S : \E n \in DOMAIN SetToSeq(S) : SetToSeq(S)[n] = x
BY ListedOnce DEF Bijection, Injection, Surjection

\* Operations that differ in their status only.
LEMMA OperationAsApplied ==
  ASSUME NEW ident, NEW amount, NEW account, NEW type, NEW status, NEW related
  PROVE  [operation(ident, amount, account, type, status, related, None)
            EXCEPT !.status = "Success"]
           = operation(ident, amount, account, type, "applied", related, None)
BY DEF operation, OperationStatus

LEMMA TransfersAsApplied ==
  ASSUME NEW i, NEW status, NEW coinbaseReceiver, NEW n
  PROVE  AsApplied(Transfers(i, status, coinbaseReceiver, n))
           = Transfers(i, "applied", coinbaseReceiver, n)
<1> DEFINE inc(type, s) == operation(n, OrZero(i.fee), Default(i.receiver), type, s, None, None)
           dec(s) == operation(n + 1, - OrZero(i.fee), Default(coinbaseReceiver),
                               "fee_payer_dec", s, n, None)
<1>1. \A type : [inc(type, status) EXCEPT !.status = "Success"] = inc(type, "applied")
  BY OperationAsApplied
<1>2. [dec(status) EXCEPT !.status = "Success"] = dec("applied")
  BY OperationAsApplied
<1>3. \A s : Transfers(i, s, coinbaseReceiver, n) =
        CASE i.command_type = "coinbase" -> << inc("coinbase_inc", s) >>
          [] i.command_type = "fee_transfer" -> << inc("fee_receiver_inc", s) >>
          [] OTHER -> IF coinbaseReceiver = None THEN << >>
                      ELSE << inc("fee_receiver_inc", s), dec(s) >>
  BY DEF Transfers
<1> HIDE DEF inc, dec
<1>4. \A x, y : [x EXCEPT !.status = "Success"] = y => AsApplied(<<x>>) = <<y>>
  BY DEF AsApplied
<1>5. \A x, y, v, w : /\ [x EXCEPT !.status = "Success"] = y
                      /\ [v EXCEPT !.status = "Success"] = w
                      => AsApplied(<<x, v>>) = <<y, w>>
  BY DEF AsApplied
<1>6. AsApplied(<< >>) = << >>
  BY DEF AsApplied
<1>7. CASE i.command_type = "coinbase"
  BY <1>1, <1>3, <1>4, <1>7
<1>8. CASE i.command_type = "fee_transfer"
  BY <1>1, <1>3, <1>4, <1>8
<1>9. CASE ~ (i.command_type = "coinbase" \/ i.command_type = "fee_transfer")
  BY <1>1, <1>2, <1>3, <1>5, <1>6, <1>9
<1> QED
  BY <1>7, <1>8, <1>9

\* An operation in front of others.
LEMMA InFront ==
  ASSUME NEW S, NEW x \in S, NEW ops \in Seq(S)
  PROVE  /\ <<x>> \o ops \in Seq(S)
         /\ DOMAIN (<<x>> \o ops) = 1..(Len(ops) + 1)
         /\ (<<x>> \o ops)[1] = x
         /\ \A n \in 1..Len(ops) : (<<x>> \o ops)[n + 1] = ops[n]
OBVIOUS

LEMMA FrontAsApplied ==
  ASSUME NEW S, NEW x \in S, NEW ops \in Seq(S),
         NEW y, y = [x EXCEPT !.status = "Success"]
  PROVE  AsApplied(<<x>> \o ops) = <<y>> \o AsApplied(ops)
<1> DEFINE T == {[v EXCEPT !.status = "Success"] : v \in S}
           all == <<x>> \o ops
<1>1. AsApplied(ops) \in Seq(T) /\ Len(AsApplied(ops)) = Len(ops)
  <2>1. AsApplied(ops) \in [1..Len(ops) -> T]
    <3>1. DOMAIN ops = 1..Len(ops) /\ \A n \in 1..Len(ops) : ops[n] \in S
      OBVIOUS
    <3>2. \A n \in 1..Len(ops) : [ops[n] EXCEPT !.status = "Success"] \in T
      BY <3>1
    <3> QED
      BY <3>1, <3>2 DEF AsApplied
  <2> QED
    BY <2>1
<1>2. y \in T
  OBVIOUS
<1>3. /\ DOMAIN all = 1..(Len(ops) + 1) /\ all[1] = x
      /\ \A n \in 1..Len(ops) : all[n + 1] = ops[n]
  BY InFront
<1>4. /\ <<y>> \o AsApplied(ops) \in Seq(T)
      /\ DOMAIN (<<y>> \o AsApplied(ops)) = 1..(Len(ops) + 1)
      /\ (<<y>> \o AsApplied(ops))[1] = y
      /\ \A n \in 1..Len(ops) : (<<y>> \o AsApplied(ops))[n + 1] = AsApplied(ops)[n]
  BY <1>1, <1>2, InFront
<1> DEFINE right == <<y>> \o AsApplied(ops)
<1> HIDE DEF all, right
<1>5. AsApplied(all) = [n \in 1..(Len(ops) + 1) |-> [all[n] EXCEPT !.status = "Success"]]
  BY <1>3 DEF AsApplied
<1>6. \A n \in 1..Len(ops) : AsApplied(ops)[n] = [ops[n] EXCEPT !.status = "Success"]
  BY DEF AsApplied
<1>7. \A n \in 1..(Len(ops) + 1) : right[n] = [all[n] EXCEPT !.status = "Success"]
  <2> SUFFICES ASSUME NEW n \in 1..(Len(ops) + 1)
               PROVE  right[n] = [all[n] EXCEPT !.status = "Success"]
    OBVIOUS
  <2>1. CASE n = 1
    BY <1>3, <1>4, <2>1 DEF right
  <2>2. CASE n # 1
    <3> DEFINE m == n - 1
    <3>1. m \in 1..Len(ops) /\ n = m + 1
      BY <2>2
    <3> HIDE DEF m
    <3>2. right[n] = AsApplied(ops)[m] /\ all[n] = ops[m]
      BY <1>3, <1>4, <3>1 DEF right
    <3> QED
      BY <1>6, <3>1, <3>2
  <2> QED
    BY <2>1, <2>2
<1>8. right = [n \in 1..(Len(ops) + 1) |-> right[n]]
  BY <1>4 DEF right
<1>9. AsApplied(all) = right
  BY <1>5, <1>7, <1>8
<1> QED
  BY <1>9 DEF all, right

LEMMA TransfersSequence ==
  ASSUME NEW i, NEW status, NEW coinbaseReceiver, NEW n
  PROVE  \E S : Transfers(i, status, coinbaseReceiver, n) \in Seq(S)
<1> DEFINE inc(type) == operation(n, OrZero(i.fee), Default(i.receiver), type, status, None, None)
           dec == operation(n + 1, - OrZero(i.fee), Default(coinbaseReceiver),
                            "fee_payer_dec", status, n, None)
           S == {inc("coinbase_inc"), inc("fee_receiver_inc"), dec}
<1>1. Transfers(i, status, coinbaseReceiver, n) =
        CASE i.command_type = "coinbase" -> << inc("coinbase_inc") >>
          [] i.command_type = "fee_transfer" -> << inc("fee_receiver_inc") >>
          [] OTHER -> IF coinbaseReceiver = None THEN << >>
                      ELSE << inc("fee_receiver_inc"), dec >>
  BY DEF Transfers
<1>2. inc("coinbase_inc") \in S /\ inc("fee_receiver_inc") \in S /\ dec \in S
  OBVIOUS
<1> HIDE DEF inc, dec, S
<1>3. Transfers(i, status, coinbaseReceiver, n) \in Seq(S)
  BY <1>1, <1>2
<1> QED
  BY <1>3

\* An internal command's operations have its status, and differ in nothing
\* else.
LEMMA InternalAsApplied ==
  ASSUME NEW i, NEW status, NEW fee, NEW coinbaseReceiver
  PROVE  AsApplied(InternalCommandOperations(i, status, fee, coinbaseReceiver))
           = InternalCommandOperations(i, "applied", fee, coinbaseReceiver)
<1>1. CASE fee = None
  BY <1>1, TransfersAsApplied DEF InternalCommandOperations
<1>2. CASE fee # None
  <2> DEFINE creation(s) == operation(0, fee, Default(i.receiver),
                                      "account_creation_fee_via_fee_receiver", s, None, None)
             rest(s) == Transfers(i, s, coinbaseReceiver, 1)
  <2>1. \A s : InternalCommandOperations(i, s, fee, coinbaseReceiver) = <<creation(s)>> \o rest(s)
    BY <1>2 DEF InternalCommandOperations
  <2>2. creation("applied") = [creation(status) EXCEPT !.status = "Success"]
    BY OperationAsApplied
  <2>3. PICK S : rest(status) \in Seq(S)
    BY TransfersSequence
  <2>4. AsApplied(rest(status)) = rest("applied")
    BY TransfersAsApplied
  <2> HIDE DEF creation, rest
  <2>5. PICK T : rest(status) \in Seq(T) /\ creation(status) \in T
    <3>1. rest(status) \in Seq(S \cup {creation(status)})
      BY <2>3
    <3> QED
      BY <3>1
  <2>6. AsApplied(<<creation(status)>> \o rest(status))
          = <<creation("applied")>> \o AsApplied(rest(status))
    BY <2>2, <2>5, FrontAsApplied
  <2> QED
    BY <2>1, <2>4, <2>6
<1> QED
  BY <1>1, <1>2

\* The operations of a zkApp command say its fee, in the default token, and
\* each of its updates, in the update's token.
LEMMA ZkappSays ==
  ASSUME NEW z, NEW S \in SUBSET [account : Accounts, change : Int], IsFiniteSet(S)
  PROVE  LET ops == ZkappCommandOperations(z, SetToSeq(S))
             fee == <<Default(z.fee_payer), - z.fee>>
         IN  /\ {<<ops[n].account, ops[n].amount>> : n \in DOMAIN ops}
                  = {fee} \cup {<<u.account, u.change>> : u \in S}
             /\ {<<ops[n].account, ops[n].amount>> :
                   n \in {m \in DOMAIN ops : ops[m].currency = DefaultToken}}
                  = {fee} \cup {<<u.account, u.change>> :
                                  u \in {v \in S : v.account[2] = DefaultToken}}
<1> DEFINE f == SetToSeq(S)
           ops == ZkappCommandOperations(z, f)
           first == operation(0, - z.fee, Default(z.fee_payer), "zkapp_fee_payer_dec",
                              "applied", None, None)
           op(n) == operation(n, f[n].change, f[n].account, "zkapp_balance_update",
                              z.status, None, f[n].account[2])
           rest == [n \in DOMAIN f |-> op(n)]
<1>1. PICK k \in Nat : f \in [1..k -> S]
  BY Listed
<1>2. \A u \in S : \E n \in 1..k : f[n] = u
  BY <1>1, Listed
<1>3. ops = <<first>> \o rest
  BY DEF ZkappCommandOperations
<1>4. /\ first.account = Default(z.fee_payer) /\ first.amount = - z.fee
      /\ first.currency = DefaultToken
  BY DEF operation, create_currency
<1>5. \A n \in 1..k : /\ op(n).account = f[n].account /\ op(n).amount = f[n].change
                      /\ op(n).currency = f[n].account[2]
  <2> TAKE n \in 1..k
  <2>1. f[n] \in [account : Accounts, change : Int]
    BY <1>1
  <2>2. f[n].account[2] \in Tokens
    BY <2>1 DEF Accounts
  <2>3. f[n].account[2] # None
    BY <2>2, TokensAssumption
  <2> QED
    BY <2>3 DEF operation, create_currency
<1> HIDE DEF f, ops, first, op
<1> DEFINE T == {first} \cup {op(n) : n \in 1..k}
<1>6. rest \in Seq(T) /\ Len(rest) = k
  <2>1. rest \in [1..k -> T]
    BY <1>1
  <2> QED
    BY <1>1, <2>1
<1>7. DOMAIN ops = 1..(k + 1) /\ ops[1] = first /\ \A n \in 1..k : ops[n + 1] = op(n)
  <2>1. first \in T /\ DOMAIN rest = 1..k
    BY <1>1
  <2> HIDE DEF T, rest
  <2>2. /\ DOMAIN ops = 1..(k + 1) /\ ops[1] = first
        /\ \A n \in 1..k : ops[n + 1] = rest[n]
    BY <1>3, <1>6, <2>1, InFront
  <2> QED
    BY <1>1, <2>2 DEF rest
<1>8. \A m \in 1..(k + 1) : m # 1 => m - 1 \in 1..k /\ ops[m] = op(m - 1)
  <2> SUFFICES ASSUME NEW m \in 1..(k + 1), m # 1
               PROVE  m - 1 \in 1..k /\ ops[m] = op(m - 1)
    OBVIOUS
  <2>1. m - 1 \in 1..k /\ (m - 1) + 1 = m
    OBVIOUS
  <2> QED
    BY <1>7, <2>1
<1> HIDE DEF rest, T
<1> DEFINE say(m) == <<ops[m].account, ops[m].amount>>
           fee == <<Default(z.fee_payer), - z.fee>>
<1>9. say(1) = fee /\ ops[1].currency = DefaultToken
  BY <1>4, <1>7
<1>10. \A n \in 1..k : /\ say(n + 1) = <<f[n].account, f[n].change>>
                       /\ ops[n + 1].currency = f[n].account[2]
  BY <1>5, <1>7
<1>11. \A m \in 1..(k + 1) : m # 1 =>
          \E u \in S : say(m) = <<u.account, u.change>> /\ ops[m].currency = u.account[2]
  BY <1>1, <1>5, <1>8
<1>12. \A u \in S : \E m \in 1..(k + 1) :
          say(m) = <<u.account, u.change>> /\ ops[m].currency = u.account[2]
  <2> TAKE u \in S
  <2>1. PICK n \in 1..k : f[n] = u
    BY <1>2
  <2>2. n + 1 \in 1..(k + 1)
    OBVIOUS
  <2> QED
    BY <1>10, <2>1, <2>2
<1>13. 1 \in 1..(k + 1)
  OBVIOUS
<1> HIDE DEF say, fee
<1> DEFINE Said(U) == {fee} \cup {<<u.account, u.change>> : u \in U}
           shown == {m \in DOMAIN ops : ops[m].currency = DefaultToken}
           defaults == {v \in S : v.account[2] = DefaultToken}
<1>14. {say(n) : n \in DOMAIN ops} = Said(S)
  <2>1. \A m \in DOMAIN ops : say(m) \in Said(S)
    BY <1>7, <1>9, <1>11
  <2>2. \A u \in S : \E m \in DOMAIN ops : <<u.account, u.change>> = say(m)
    BY <1>7, <1>12
  <2>3. \E m \in DOMAIN ops : fee = say(m)
    BY <1>7, <1>9, <1>13
  <2> QED
    BY <2>1, <2>2, <2>3
<1>15. {say(n) : n \in shown} = Said(defaults)
  <2>1. \A m \in shown : say(m) \in Said(defaults)
    BY <1>7, <1>9, <1>11
  <2>2. \A u \in defaults : \E m \in shown : <<u.account, u.change>> = say(m)
    BY <1>7, <1>12
  <2>3. \E m \in shown : fee = say(m)
    BY <1>7, <1>9, <1>13
  <2> HIDE DEF shown, defaults
  <2> QED
    BY <2>1, <2>2, <2>3
<1> QED
  BY <1>14, <1>15 DEF say, fee, ops, f

-----------------------------------------------------------------------------
(***************************************************************************)
(* /block and /search/transactions.                                        *)
(***************************************************************************)
\* A set of at most one has nothing but its member.
LEMMA OneOnly ==
  ASSUME NEW S, IsFiniteSet(S), ~ (Cardinality(S) > 1), NEW x \in S, NEW y \in S
  PROVE  x = y
BY TwoAreMany

\* A fee transfer via coinbase finds its coinbase among those shown.
LEMMA ViaIsShown ==
  ASSUME TablesInv, NEW i \in rows, ViaCoinbase(i)
  PROVE  \E c \in CoinbasesShown : c.seq = i.seq /\ IsCoinbase(c)
<1>1. PICK c \in rows : IsCoinbase(c) /\ c.seq = i.seq /\ c.status = "applied"
  BY DEF TablesInv, CoinbaseInv
<1>2. Default(c.receiver) \in ledger
  BY <1>1 DEF TablesInv, MentionInv, Mention, IsCoinbase
<1> QED
  BY <1>1, <1>2 DEF CoinbasesShown, InternalsShown, Table, IsCoinbase, AccountIds

\* Who paid is all that two coinbases make of a fee transfer via coinbase.
LEMMA PayersApart ==
  ASSUME NEW i, i.command_type = "fee_transfer_via_coinbase", NEW fee,
         NEW x, x # None, NEW y, y # None
  PROVE  PayerOpen(InternalCommandOperations(i, "applied", fee, x))
           = PayerOpen(InternalCommandOperations(i, "applied", fee, y))
<1> DEFINE open(op) == IF op.type = "fee_payer_dec" THEN [op EXCEPT !.account = None] ELSE op
           creation == operation(0, fee, Default(i.receiver),
                                 "account_creation_fee_via_fee_receiver", "applied", None, None)
           inc(n) == operation(n, OrZero(i.fee), Default(i.receiver), "fee_receiver_inc",
                               "applied", None, None)
           dec(n, r) == operation(n + 1, - OrZero(i.fee), Default(r), "fee_payer_dec",
                                  "applied", n, None)
<1>1. \A n : open(dec(n, x)) = open(dec(n, y))
  BY DEF operation
<1>2. \A n, r : r # None => Transfers(i, "applied", r, n) = <<inc(n), dec(n, r)>>
  BY DEF Transfers
<1> HIDE DEF creation, inc, dec
<1>3. \A u, v : PayerOpen(<<u, v>>) = <<open(u), open(v)>>
  BY DEF PayerOpen
<1>4. \A u, v, w : PayerOpen(<<u, v, w>>) = <<open(u), open(v), open(w)>>
  BY DEF PayerOpen
<1> HIDE DEF open
<1>5. CASE fee = None
  BY <1>1, <1>2, <1>3, <1>5 DEF InternalCommandOperations
<1>6. CASE fee # None
  <2>1. \A r : r # None => InternalCommandOperations(i, "applied", fee, r)
                             = <<creation>> \o Transfers(i, "applied", r, 1)
    BY <1>6 DEF InternalCommandOperations, creation
  <2>2. \A r : r # None => InternalCommandOperations(i, "applied", fee, r)
                             = <<creation, inc(1), dec(1, r)>>
    <3> SUFFICES ASSUME NEW r, r # None
                 PROVE  InternalCommandOperations(i, "applied", fee, r)
                          = <<creation, inc(1), dec(1, r)>>
      OBVIOUS
    <3>1. \A u, v, w : <<u>> \o <<v, w>> = <<u, v, w>>
      <4> TAKE u, v, w
      <4> DEFINE S == {u, v, w}
                 all == <<u>> \o <<v, w>>
      <4>1. u \in S /\ <<v, w>> \in Seq(S) /\ Len(<<v, w>>) = 2
        OBVIOUS
      <4>2. /\ all \in Seq(S) /\ DOMAIN all = 1..3
            /\ all[1] = u /\ all[1 + 1] = v /\ all[2 + 1] = w
        BY <4>1, InFront
      <4> HIDE DEF S, all
      <4>3. all = <<u, v, w>>
        BY <4>2
      <4> QED
        BY <4>3 DEF all
    <3> QED
      BY <1>2, <2>1, <3>1
  <2> QED
    BY <1>1, <1>4, <2>2
<1> QED
  BY <1>5, <1>6

\* Every command is in one of the three tables.
LEMMA RowsByTable ==
  ASSUME TablesInv
  PROVE  rows = Table("user") \cup Table("internal") \cup Table("zkapp")
BY DEF TablesInv, RowsInv, Shape, Table

\* Every coinbase has a receiver.
LEMMA CoinbaseReceivers ==
  ASSUME TablesInv, NEW c \in Coinbases
  PROVE  ReceiverOf(c) # None
<1>1. c \in Table("internal") /\ InternalShape(c)
  BY DEF Coinbases, Table, TablesInv, RowsInv, Shape
<1> QED
  BY <1>1, TokensAssumption DEF ReceiverOf, InternalShape

LEMMA InvMatches ==
  ASSUME LedgerInv
  PROVE  BlockMatchesSearch
<1> SUFFICES ASSUME blockReply # None, searchReply # None,
                    NEW t \in blockReply, t.row \notin SearchOmits
             PROVE  LET found == {s.ops : s \in {s \in searchReply : s.row = t.row}}
                    IN  CASE t.row.table = "user" -> t.ops \in found
                          [] t.row.table = "internal" ->
                               \E ops \in found :
                                 \/ t.ops = AsApplied(ops)
                                 \/ /\ PayerUntold(t.row)
                                    /\ PayerOpen(t.ops) = PayerOpen(AsApplied(ops))
                          [] t.row.table = "zkapp" ->
                               \E ops \in found :
                                 {<<t.ops[n].account, t.ops[n].amount>> : n \in DOMAIN t.ops} =
                                 {<<ops[n].account, ops[n].amount>> :
                                    n \in {m \in DOMAIN ops : ops[m].currency = DefaultToken}}
  BY DEF BlockMatchesSearch
<1> DEFINE found == {s.ops : s \in {s \in searchReply : s.row = t.row}}
<1>1. PICK feeOf \in [Table("user") -> {None, CreationFee}] :
         /\ \A u \in Table("user") : feeOf[u] \in UserFees(u)
         /\ blockReply = BlockUsers(feeOf) \cup BlockInternals \cup BlockZkapps
  BY DEF LedgerInv, BlockInv
<1>2. PICK coinbaseOf \in [Table("internal") -> Coinbases \cup {None}] :
         /\ \A i \in Table("internal") :
              IF i.command_type = "fee_transfer_via_coinbase" THEN coinbaseOf[i] # None
              ELSE coinbaseOf[i] = None
         /\ searchReply = SearchUsers \cup SearchInternals(coinbaseOf) \cup SearchZkapps
  BY DEF LedgerInv, SearchInv
<1>3. \A ops : \A s \in searchReply : s = BlockTransaction(t.row, ops) => ops \in found
  BY DEF BlockTransaction
<1> HIDE DEF found
<1>4. CASE t \in BlockUsers(feeOf)
  <2>1. PICK u \in Table("user") : t.row = u /\ t.ops = UserCommandOperations(u, feeOf[u])
    BY <1>4 DEF BlockUsers
  <2>2. BlockTransaction(u, t.ops) \in SearchUsers
    BY <1>1, <2>1 DEF SearchUsers
  <2>3. t.ops \in found /\ t.row.table = "user"
    BY <1>2, <1>3, <2>1, <2>2 DEF Table
  <2> QED
    BY <2>3 DEF found
<1>5. CASE t \in BlockInternals
  <2>1. PICK i \in InternalsShown, c \in CoinbasesShown \cup {None} :
           /\ t.row = i /\ c \in CoinbasesOf(i)
           /\ t.ops = InternalCommandOperations(i, BlockStatus(i),
                        FeeIfCreated(i, Default(i.receiver)), ReceiverOf(c))
    BY <1>5 DEF BlockInternals
  <2>2. i \in Table("internal") /\ i.table = "internal" /\ Default(i.receiver) \in AccountIds
    BY DEF InternalsShown, Table
  <2> DEFINE fee == FeeIfCreated(i, Default(i.receiver))
             ops == InternalCommandOperations(i, SearchStatus(i), fee, ReceiverOf(coinbaseOf[i]))
  <2>3. fee \in InternalFees(i)
    <3>1. Default(i.receiver) \in IdsOf(i.receiver)
      BY <2>2 DEF IdsOf, Default
    <3> QED
      BY <3>1 DEF InternalFees
  <2>4. ops \in found
    <3>1. BlockTransaction(i, ops) \in SearchInternals(coinbaseOf)
      BY <2>2, <2>3 DEF SearchInternals
    <3> QED
      BY <1>2, <1>3, <2>1, <3>1
  <2>5. CoinbasesShown \subseteq Coinbases /\ IsFiniteSet(Coinbases)
    BY FS_Subset DEF LedgerInv, TablesInv, RowsInv, CoinbasesShown, InternalsShown, Coinbases, Table
  <2>6. CASE c = coinbaseOf[i]
    <3>1. t.ops = AsApplied(ops)
      BY <2>1, <2>6, InternalAsApplied DEF BlockStatus
    <3> HIDE DEF ops, fee
    <3> QED
      BY <2>1, <2>2, <2>4, <3>1 DEF found
  <2>7. CASE c # coinbaseOf[i]
    <3>1. i.command_type = "fee_transfer_via_coinbase"
      BY <1>2, <2>1, <2>2, <2>7 DEF CoinbasesOf
    <3>2. c \in Coinbases /\ coinbaseOf[i] \in Coinbases
      <4>1. CoinbasesShown # {}
        BY <2>2, <3>1, ViaIsShown DEF ViaCoinbase, Table, LedgerInv
      <4> QED
        BY <1>2, <2>1, <2>2, <2>5, <3>1, <4>1 DEF CoinbasesOf
    <3>3. PayerUntold(i)
      BY <2>5, <2>7, <3>1, <3>2, OneOnly DEF PayerUntold
    <3>4. ReceiverOf(c) # None /\ ReceiverOf(coinbaseOf[i]) # None
      BY <3>2, CoinbaseReceivers DEF LedgerInv
    <3>5. PayerOpen(t.ops) = PayerOpen(AsApplied(ops))
      BY <2>1, <3>1, <3>4, InternalAsApplied, PayersApart DEF BlockStatus
    <3> HIDE DEF ops, fee
    <3> QED
      BY <2>1, <2>2, <2>4, <3>3, <3>5 DEF found
  <2> QED
    BY <2>6, <2>7
<1>6. CASE t \in BlockZkapps
  <2>1. PICK z \in ZkappsShown :
           t.row = z /\ t.ops = ZkappCommandOperations(z, SetToSeq(UpdatesShown(z)))
    BY <1>6 DEF BlockZkapps, ZkappTransaction
  <2>2. z \in Table("zkapp") /\ z \in rows /\ z.table = "zkapp"
    BY DEF ZkappsShown, Table
  <2>3. z.updates \in SUBSET [account : Accounts, change : Int] /\ IsFiniteSet(z.updates)
    BY <2>2, UpdatesAssumption DEF LedgerInv, TablesInv, RowsInv, Shape, ZkappShape
  <2>4. z.updates # {}
    BY <2>1, <2>2 DEF SearchOmits
  <2> DEFINE ops == ZkappCommandOperations(z, SetToSeq(z.updates))
  <2>5. ops \in found
    <3>1. BlockTransaction(z, ops) \in SearchZkapps
      BY <2>2, <2>4 DEF SearchZkapps
    <3> QED
      BY <1>2, <1>3, <2>1, <3>1
  <2>6. /\ UpdatesShown(z) \in SUBSET [account : Accounts, change : Int]
        /\ IsFiniteSet(UpdatesShown(z))
    BY <2>3, FS_Subset DEF UpdatesShown
  <2>7. {<<t.ops[n].account, t.ops[n].amount>> : n \in DOMAIN t.ops}
          = {<<ops[n].account, ops[n].amount>> :
               n \in {m \in DOMAIN ops : ops[m].currency = DefaultToken}}
    <3>1. {<<t.ops[n].account, t.ops[n].amount>> : n \in DOMAIN t.ops}
            = {<<Default(z.fee_payer), - z.fee>>}
              \cup {<<u.account, u.change>> : u \in UpdatesShown(z)}
      BY <2>1, <2>6, ZkappSays
    <3>2. {<<ops[n].account, ops[n].amount>> :
             n \in {m \in DOMAIN ops : ops[m].currency = DefaultToken}}
            = {<<Default(z.fee_payer), - z.fee>>}
              \cup {<<u.account, u.change>> :
                      u \in {v \in z.updates : v.account[2] = DefaultToken}}
      BY <2>3, ZkappSays
    <3> QED
      BY <3>1, <3>2 DEF UpdatesShown
  <2> HIDE DEF ops
  <2>8. t.row.table = "zkapp"
    BY <2>1, <2>2
  <2> QED
    BY <2>5, <2>7, <2>8 DEF found
<1> QED
  BY <1>1, <1>4, <1>5, <1>6

(***************************************************************************)
(* Whatever commands a block holds, in whatever order: what /block says of *)
(* a command that the search returns too is what one of the rows of        *)
(* /search/transactions says, although block.rs and search_transactions.rs *)
(* have queries and joins of their own for each kind of command.  Excepted *)
(* are the status of an internal command, the updates in other tokens of a *)
(* zkApp command, and, where a block has several coinbases, whose coinbase *)
(* paid a fee transfer via coinbase.  A zkApp command without account      *)
(* updates is not returned by the search at all: see                       *)
(* LedgerNothingElseOmitted.                                               *)
(***************************************************************************)
THEOREM LedgerBlockMatchesSearch ==
  LedgerSpec => []BlockMatchesSearch
BY LedgerInvariant, InvMatches, PTL

-----------------------------------------------------------------------------
(***************************************************************************)
(* Which commands of a block the two answers leave out.                    *)
(***************************************************************************)
LEMMA InvBlockOmits ==
  ASSUME LedgerInv, blockReply # None
  PROVE  RowsIn(blockReply) = rows \ BlockOmits
<1>1. PICK feeOf \in [Table("user") -> {None, CreationFee}] :
         blockReply = BlockUsers(feeOf) \cup BlockInternals \cup BlockZkapps
  BY DEF LedgerInv, BlockInv
<1>2. RowsIn(BlockUsers(feeOf)) = Table("user")
  <2> DEFINE say(u) == [row |-> u, via |-> None, id |-> <<"hash", u.seq>>,
                        ops |-> UserCommandOperations(u, feeOf[u])]
  <2>1. BlockUsers(feeOf) = {say(u) : u \in Table("user")} /\ \A u : say(u).row = u
    BY DEF BlockUsers
  <2> HIDE DEF say
  <2> QED
    BY <2>1 DEF RowsIn
<1>3. RowsIn(BlockInternals) = InternalsShown
  <2> DEFINE say(p) == [row |-> p[1], via |-> p[2], id |-> InternalIdentifier(p[1]),
                        ops |-> InternalCommandOperations(p[1], BlockStatus(p[1]),
                                  FeeIfCreated(p[1], Default(p[1].receiver)), ReceiverOf(p[2]))]
             pairs == {q \in InternalsShown \X (CoinbasesShown \cup {None}) :
                         q[2] \in CoinbasesOf(q[1])}
  <2>1. BlockInternals = {say(p) : p \in pairs} /\ \A p : say(p).row = p[1]
    BY DEF BlockInternals
  <2>2. \A i \in InternalsShown : \E c \in CoinbasesShown \cup {None} : c \in CoinbasesOf(i)
    BY DEF CoinbasesOf
  <2>3. \A i \in InternalsShown : \E p \in pairs : p[1] = i
    <3> TAKE i \in InternalsShown
    <3>1. PICK c \in CoinbasesShown \cup {None} : c \in CoinbasesOf(i)
      BY <2>2
    <3>2. <<i, c>> \in pairs /\ <<i, c>>[1] = i
      BY <3>1
    <3> HIDE DEF pairs
    <3> QED
      BY <3>2
  <2>4. \A p \in pairs : p[1] \in InternalsShown
    OBVIOUS
  <2> HIDE DEF say, pairs
  <2>5. RowsIn(BlockInternals) = {p[1] : p \in pairs}
    BY <2>1 DEF RowsIn
  <2> QED
    BY <2>3, <2>4, <2>5
<1>4. RowsIn(BlockZkapps) = ZkappsShown
  <2> DEFINE say(z) == ZkappTransaction(z, UpdatesShown(z))
  <2>1. BlockZkapps = {say(z) : z \in ZkappsShown} /\ \A z : say(z).row = z
    BY DEF BlockZkapps, ZkappTransaction
  <2> HIDE DEF say
  <2> QED
    BY <2>1 DEF RowsIn
<1>5. RowsIn(blockReply) = Table("user") \cup InternalsShown \cup ZkappsShown
  BY <1>1, <1>2, <1>3, <1>4 DEF RowsIn
<1>6. ZkappsShown = Table("zkapp") \ BlockOmits
  BY DEF ZkappsShown, UpdatesShown, BlockOmits, Table
<1>7. InternalsShown = Table("internal") \ BlockOmits
  <2>1. \A i \in Table("internal") : Default(i.receiver) \in AccountIds \/ i.status = "failed"
    <3> TAKE i \in Table("internal")
    <3>1. i \in rows /\ i.table = "internal" /\ i.status \in {"applied", "failed"}
      BY DEF Table, LedgerInv, TablesInv, RowsInv, Shape, InternalShape
    <3>2. i.status = "applied" => Default(i.receiver) \in ledger
      BY <3>1 DEF LedgerInv, TablesInv, MentionInv, Mention
    <3> QED
      BY <3>1, <3>2 DEF AccountIds
  <2>2. \A i \in Table("internal") :
          i \in BlockOmits <=> i.status = "failed" /\ Default(i.receiver) \notin AccountIds
    BY DEF BlockOmits, Table
  <2> QED
    BY <2>1, <2>2 DEF InternalsShown
<1>8. Table("user") \cap BlockOmits = {}
  BY DEF BlockOmits, Table
<1> QED
  BY <1>5, <1>6, <1>7, <1>8, RowsByTable DEF LedgerInv

LEMMA InvSearchOmits ==
  ASSUME LedgerInv, searchReply # None
  PROVE  RowsIn(searchReply) = rows \ SearchOmits
<1>1. PICK coinbaseOf \in [Table("internal") -> Coinbases \cup {None}] :
         searchReply = SearchUsers \cup SearchInternals(coinbaseOf) \cup SearchZkapps
  BY DEF LedgerInv, SearchInv
<1>2. RowsIn(SearchUsers) = Table("user")
  <2>1. \A u : UserFees(u) # {}
    BY DEF UserFees
  <2> DEFINE say(u, fee) ==
               BlockTransaction(u, UserCommandOperations(u, fee))
  <2>2. /\ SearchUsers = UNION {{say(u, fee) : fee \in UserFees(u)} : u \in Table("user")}
        /\ \A u, fee : say(u, fee).row = u
    BY DEF SearchUsers, BlockTransaction
  <2> HIDE DEF say
  <2>3. \A t \in SearchUsers : \E u \in Table("user") : t.row = u
    BY <2>2
  <2>4. \A u \in Table("user") : \E t \in SearchUsers : t.row = u
    <3> TAKE u \in Table("user")
    <3>1. PICK fee : fee \in UserFees(u)
      BY <2>1
    <3>2. say(u, fee) \in SearchUsers
      BY <2>2, <3>1
    <3> QED
      BY <2>2, <3>2
  <2> QED
    BY <2>3, <2>4 DEF RowsIn
<1>3. RowsIn(SearchInternals(coinbaseOf)) = Table("internal")
  <2>1. \A i : InternalFees(i) # {}
    BY DEF InternalFees
  <2> DEFINE say(i, fee) ==
               BlockTransaction(i,
                 InternalCommandOperations(i, SearchStatus(i), fee, ReceiverOf(coinbaseOf[i])))
  <2>2. /\ SearchInternals(coinbaseOf)
             = UNION {{say(i, fee) : fee \in InternalFees(i)} : i \in Table("internal")}
        /\ \A i, fee : say(i, fee).row = i
    BY DEF SearchInternals, BlockTransaction
  <2> HIDE DEF say
  <2>3. \A t \in SearchInternals(coinbaseOf) : \E i \in Table("internal") : t.row = i
    BY <2>2
  <2>4. \A i \in Table("internal") : \E t \in SearchInternals(coinbaseOf) : t.row = i
    <3> TAKE i \in Table("internal")
    <3>1. PICK fee : fee \in InternalFees(i)
      BY <2>1
    <3>2. say(i, fee) \in SearchInternals(coinbaseOf)
      BY <2>2, <3>1
    <3> QED
      BY <2>2, <3>2
  <2> QED
    BY <2>3, <2>4 DEF RowsIn
<1>4. RowsIn(SearchZkapps) = Table("zkapp") \ SearchOmits
  <2> DEFINE say(z) == BlockTransaction(z, ZkappCommandOperations(z, SetToSeq(z.updates)))
             found == {z \in Table("zkapp") : z.updates # {}}
  <2>1. SearchZkapps = {say(z) : z \in found} /\ \A z : say(z).row = z
    BY DEF SearchZkapps, BlockTransaction
  <2>2. found = Table("zkapp") \ SearchOmits
    BY DEF SearchOmits
  <2> HIDE DEF say, found
  <2> QED
    BY <2>1, <2>2 DEF RowsIn
<1>5. RowsIn(searchReply) = Table("user") \cup Table("internal") \cup (Table("zkapp") \ SearchOmits)
  BY <1>1, <1>2, <1>3, <1>4 DEF RowsIn
<1>6. (Table("user") \cup Table("internal")) \cap SearchOmits = {}
  BY DEF SearchOmits, Table
<1> QED
  BY <1>5, <1>6, RowsByTable DEF LedgerInv

(***************************************************************************)
(* Whatever commands a block holds and whatever accounts there are of      *)
(* those they name: no join of the two endpoints loses a command, except   *)
(* that the search does not find a zkApp command without account updates   *)
(* (indexer_zkapp_commands.sql), and that /block does not show a zkApp     *)
(* command whose updates are all in other tokens (zkapp_commands.sql) nor  *)
(* a failed internal command whose receiver has no account                 *)
(* (internal_commands.sql).                                                *)
(***************************************************************************)
THEOREM LedgerNothingElseOmitted ==
  LedgerSpec => []NothingElseOmitted
<1>1. LedgerInv => NothingElseOmitted
  BY InvBlockOmits, InvSearchOmits DEF NothingElseOmitted
<1> QED
  BY <1>1, LedgerInvariant, PTL

-----------------------------------------------------------------------------
(***************************************************************************)
(* Operations: how they are numbered, and what they give an account.       *)
(***************************************************************************)
\* What an operation gives k's account if it was successful.
Given(k, op) ==
  IF op.status = "Success" /\ op.amount # None /\ op.account = Default(k) THEN op.amount ELSE 0

IsOperation(op) == op.account \in Accounts /\ op.amount \in Int \cup {None}

\* Operations numbered from m.
Numbered(ops, m) ==
  /\ \E S : ops \in Seq(S)
  /\ \A n \in 1..Len(ops) : /\ IsOperation(ops[n]) /\ ops[n].index = m + (n - 1)
                            /\ ops[n].related = None \/ ops[n].related \in 0..(m + (n - 2))

LEMMA NumberedWellFormed ==
  ASSUME NEW ops, Numbered(ops, 0)
  PROVE  WellFormed(ops)
<1>1. PICK S : ops \in Seq(S)
  BY DEF Numbered
<1>2. DOMAIN ops = 1..Len(ops) /\ Len(ops) \in Nat
  BY <1>1
<1> QED
  BY <1>2 DEF Numbered, WellFormed, IsOperation

LEMMA GivenInt ==
  ASSUME NEW k, NEW op, IsOperation(op)
  PROVE  Given(k, op) \in Int
BY DEF Given, IsOperation

LEMMA NumberedOne ==
  ASSUME NEW m \in Nat, NEW x, IsOperation(x), x.index = m, x.related = None
  PROVE  Numbered(<<x>>, m) /\ \A k : Reported(k, <<x>>) = Given(k, x)
<1>1. <<x>> \in Seq({x}) /\ Len(<<x>>) = 1 /\ <<x>>[1] = x /\ DOMAIN <<x>> = {1}
  OBVIOUS
<1> DEFINE ops == <<x>>
<1> HIDE DEF ops
<1>2. Numbered(ops, m)
  <2>1. \A n \in 1..Len(ops) : n = 1 /\ ops[n] = x /\ m = m + (n - 1)
    BY <1>1 DEF ops
  <2>2. \E S : ops \in Seq(S)
    BY <1>1 DEF ops
  <2> QED
    BY <2>1, <2>2 DEF Numbered
<1>3. \A k : Reported(k, ops) = Given(k, x)
  <2> TAKE k
  <2> DEFINE f == [n \in DOMAIN ops |-> Given(k, ops[n])]
  <2>1. Reported(k, ops) = SumFunction(f)
    BY DEF Reported, Given
  <2>2. DOMAIN f = {1} /\ f[1] = Given(k, x) /\ f[1] \in Int
    BY <1>1, GivenInt DEF ops
  <2> HIDE DEF f
  <2>3. SumFunctionOnSet(f, {1}) = f[1]
    BY <2>2, SumSingle
  <2> QED
    BY <2>1, <2>2, <2>3, SumOfAll
<1> QED
  BY <1>2, <1>3 DEF ops

LEMMA NumberedNone ==
  ASSUME NEW m \in Nat
  PROVE  Numbered(<< >>, m) /\ \A k : Reported(k, << >>) = 0
<1>1. Numbered(<< >>, m)
  <2>1. << >> \in Seq({}) /\ Len(<< >>) = 0
    OBVIOUS
  <2> QED
    BY <2>1 DEF Numbered
<1>2. \A k : Reported(k, << >>) = 0
  <2> TAKE k
  <2> DEFINE f == [n \in DOMAIN << >> |-> Given(k, << >>[n])]
  <2>1. Reported(k, << >>) = SumFunction(f)
    BY DEF Reported, Given
  <2>2. DOMAIN f = {}
    OBVIOUS
  <2> HIDE DEF f
  <2> QED
    BY <2>1, <2>2, SumOfAll, SumEmpty
<1> QED
  BY <1>1, <1>2

\* One sequence after another.
LEMMA Joined ==
  ASSUME NEW S, NEW s \in Seq(S), NEW t \in Seq(S)
  PROVE  /\ s \o t \in Seq(S) /\ Len(s \o t) = Len(s) + Len(t)
         /\ DOMAIN (s \o t) = 1..(Len(s) + Len(t))
         /\ Len(s) \in Nat /\ Len(t) \in Nat
         /\ \A n \in 1..Len(s) : (s \o t)[n] = s[n]
         /\ \A n \in 1..Len(t) : (s \o t)[n + Len(s)] = t[n]
OBVIOUS

Adds(s, t) ==
  \A k : /\ Reported(k, s) \in Int /\ Reported(k, t) \in Int
         /\ Reported(k, s \o t) = Reported(k, s) + Reported(k, t)

LEMMA NumberedJoined ==
  ASSUME NEW m \in Nat, NEW s, NEW t, Numbered(s, m), Numbered(t, m + Len(s))
  PROVE  Numbered(s \o t, m) /\ Adds(s, t)
<1>1. PICK S : s \in Seq(S) /\ t \in Seq(S)
  <2>1. PICK S1 : s \in Seq(S1)
    BY DEF Numbered
  <2>2. PICK S2 : t \in Seq(S2)
    BY DEF Numbered
  <2>3. s \in Seq(S1 \cup S2) /\ t \in Seq(S1 \cup S2)
    BY <2>1, <2>2
  <2> QED
    BY <2>3
<1> DEFINE all == s \o t
           a == Len(s)
           b == Len(t)
<1>2. /\ all \in Seq(S) /\ Len(all) = a + b /\ DOMAIN all = 1..(a + b) /\ a \in Nat /\ b \in Nat
      /\ \A n \in 1..a : all[n] = s[n]
      /\ \A n \in 1..b : all[n + a] = t[n]
      /\ DOMAIN s = 1..a /\ DOMAIN t = 1..b
  BY <1>1, Joined
<1> HIDE DEF all, a, b
<1>3. \A n \in 1..(a + b) : \/ n \in 1..a /\ all[n] = s[n]
                            \/ n - a \in 1..b /\ all[n] = t[n - a]
  <2> SUFFICES ASSUME NEW n \in 1..(a + b), n \notin 1..a
               PROVE  n - a \in 1..b /\ all[n] = t[n - a]
    BY <1>2
  <2>1. n - a \in 1..b /\ (n - a) + a = n
    BY <1>2
  <2> QED
    BY <1>2, <2>1
<1>4. Numbered(all, m)
  <2> SUFFICES ASSUME NEW n \in 1..(a + b)
               PROVE  /\ IsOperation(all[n]) /\ all[n].index = m + (n - 1)
                      /\ all[n].related = None \/ all[n].related \in 0..(m + (n - 2))
    BY <1>2 DEF Numbered
  <2>1. CASE n \in 1..a /\ all[n] = s[n]
    BY <2>1 DEF Numbered, a
  <2>2. CASE n - a \in 1..b /\ all[n] = t[n - a]
    <3> DEFINE q == n - a
    <3>1. q \in 1..b /\ all[n] = t[q] /\ q \in Int /\ n = q + a
      BY <1>2, <2>2
    <3> HIDE DEF q
    <3>2. /\ IsOperation(t[q]) /\ t[q].index = (m + a) + (q - 1)
          /\ t[q].related = None \/ t[q].related \in 0..((m + a) + (q - 2))
      BY <3>1 DEF Numbered, a, b
    <3>3. (m + a) + (q - 1) = m + (n - 1) /\ (m + a) + (q - 2) = m + (n - 2)
      BY <1>2, <3>1
    <3> QED
      BY <3>1, <3>2, <3>3
  <2> QED
    BY <1>3, <2>1, <2>2
<1>5. ASSUME NEW k
      PROVE  /\ Reported(k, s) \in Int /\ Reported(k, t) \in Int
             /\ Reported(k, all) = Reported(k, s) + Reported(k, t)
  <2> DEFINE f == [n \in DOMAIN all |-> Given(k, all[n])]
             g == [n \in DOMAIN s |-> Given(k, s[n])]
             h == [n \in DOMAIN t |-> Given(k, t[n])]
             S1 == 1..a
             S2 == (a + 1)..(a + b)
             shift == [n \in 1..b |-> n + a]
  <2>1. /\ Reported(k, all) = SumFunction(f) /\ Reported(k, s) = SumFunction(g)
        /\ Reported(k, t) = SumFunction(h)
    BY DEF Reported, Given
  <2>2. DOMAIN f = S1 \cup S2 /\ DOMAIN g = S1 /\ DOMAIN h = 1..b /\ S1 \cap S2 = {}
    BY <1>2
  <2>3. \A n \in S1 \cup S2 : f[n] \in Int
    BY <1>2, <1>4, GivenInt DEF Numbered
  <2>4. \A n \in S1 : g[n] \in Int /\ g[n] = f[n]
    BY <1>2, GivenInt DEF Numbered, a
  <2>5. shift \in Bijection(1..b, S2)
    <3>1. \A n \in 1..b : n + a \in S2 /\ shift[n] = n + a
      BY <1>2
    <3>2. \A n, q \in 1..b : shift[n] = shift[q] => n = q
      BY <1>2, <3>1
    <3>3. \A q \in S2 : q - a \in 1..b /\ (q - a) + a = q
      BY <1>2
    <3>4. \A q \in S2 : \E n \in 1..b : shift[n] = q
      BY <3>1, <3>3
    <3>5. shift \in [1..b -> S2]
      BY <3>1
    <3> HIDE DEF shift, S2
    <3> QED
      BY <3>2, <3>4, <3>5 DEF Bijection, Injection, Surjection, IsInjective
  <2>6. \A n \in 1..b : h[n] \in Int /\ h[n] = f[shift[n]]
    <3> TAKE n \in 1..b
    <3>1. n + a \in 1..(a + b)
      BY <1>2
    <3>2. h[n] = Given(k, t[n]) /\ f[shift[n]] = Given(k, t[n])
      BY <1>2, <3>1
    <3>3. IsOperation(t[n])
      BY DEF Numbered, b
    <3> QED
      BY <3>2, <3>3, GivenInt
  <2>7. IsFiniteSet(S1) /\ IsFiniteSet(S2) /\ IsFiniteSet(1..b)
    BY <1>2, FS_Interval
  <2> HIDE DEF f, g, h, S1, S2, shift
  <2>8. SumFunctionOnSet(f, S1 \cup S2) = SumFunctionOnSet(f, S1) + SumFunctionOnSet(f, S2)
    BY <2>2, <2>3, <2>7, SumUnion
  <2>9. SumFunctionOnSet(g, S1) = SumFunctionOnSet(f, S1) /\ SumFunctionOnSet(g, S1) \in Int
    <3>1. SumFunctionOnSet(g, S1) \in Int
      BY <2>4, <2>7, SumInt
    <3>2. \A n \in S1 : f[n] \in Int /\ g[n] = f[n]
      BY <2>4
    <3>3. SumFunctionOnSet(g, S1) = SumFunctionOnSet(f, S1)
      BY <2>7, <3>2, SumSame
    <3> QED
      BY <3>1, <3>3
  <2>10. SumFunctionOnSet(h, 1..b) = SumFunctionOnSet(f, S2) /\ SumFunctionOnSet(h, 1..b) \in Int
    <3>1. SumFunctionOnSet(h, 1..b) \in Int
      <4>1. IsFiniteSet(1..b) /\ \A n \in 1..b : h[n] \in Int
        BY <2>6, <2>7
      <4> QED
        BY <4>1, SumInt
    <3>2. SumFunctionOnSet(h, 1..b) = SumFunctionOnSet(f, S2)
      <4> DEFINE I == 1..b
      <4>1. /\ shift \in Bijection(I, S2) /\ IsFiniteSet(I)
            /\ \A n \in I : h[n] \in Int /\ h[n] = f[shift[n]]
        BY <2>5, <2>6, <2>7
      <4> HIDE DEF I
      <4>2. SumFunctionOnSet(h, I) = SumFunctionOnSet(f, S2)
        BY <4>1, SumMap
      <4> QED
        BY <4>2 DEF I
    <3> QED
      BY <3>1, <3>2
  <2> QED
    BY <2>1, <2>2, <2>8, <2>9, <2>10, SumOfAll
<1> QED
  BY <1>4, <1>5 DEF all, a, Adds

\* Two operations, of which the second may refer to the first.
LEMMA NumberedTwo ==
  ASSUME NEW m \in Nat, NEW x, IsOperation(x), x.index = m, x.related = None,
         NEW y, IsOperation(y), y.index = m + 1, y.related \in {None, m}
  PROVE  /\ Numbered(<<x, y>>, m)
         /\ \A k : Reported(k, <<x, y>>) = Given(k, x) + Given(k, y)
<1>1. /\ <<x, y>> \in Seq({x, y}) /\ Len(<<x, y>>) = 2
      /\ <<x, y>>[1] = x /\ <<x, y>>[2] = y /\ DOMAIN <<x, y>> = {1, 2}
  OBVIOUS
<1> DEFINE ops == <<x, y>>
<1> HIDE DEF ops
<1>2. Numbered(ops, m)
  <2>1. \A n \in 1..Len(ops) : \/ n = 1 /\ ops[n] = x /\ m = m + (n - 1)
                               \/ n = 2 /\ ops[n] = y /\ m + 1 = m + (n - 1) /\ m \in 0..(m + (n - 2))
    BY <1>1 DEF ops
  <2>2. \E S : ops \in Seq(S)
    BY <1>1 DEF ops
  <2> QED
    BY <2>1, <2>2 DEF Numbered
<1>3. \A k : Reported(k, ops) = Given(k, x) + Given(k, y)
  <2> TAKE k
  <2> DEFINE f == [n \in DOMAIN ops |-> Given(k, ops[n])]
  <2>1. Reported(k, ops) = SumFunction(f)
    BY DEF Reported, Given
  <2>2. /\ DOMAIN f = {1, 2} /\ f[1] = Given(k, x) /\ f[1] \in Int
        /\ f[2] = Given(k, y) /\ f[2] \in Int
    BY <1>1, GivenInt DEF ops
  <2> HIDE DEF f
  <2>3. SumFunctionOnSet(f, {1, 2}) = f[1] + f[2]
    BY <2>2, SumPair
  <2> QED
    BY <2>1, <2>2, <2>3, SumOfAll
<1> QED
  BY <1>2, <1>3 DEF ops

\* op has this index, amount, key, status and relation.
Means(op, ident, amount, key, status, related) ==
  /\ IsOperation(op) /\ op.index = ident /\ op.related = related
  /\ \A k : Given(k, op) = IF status = "applied" /\ amount # None
                            THEN To(k, key, amount) ELSE 0

LEMMA OperationIs ==
  ASSUME NEW ident, NEW amount, amount \in Int \cup {None}, NEW key \in Keys, NEW type,
         NEW status, status \in {"applied", "failed"}, NEW related
  PROVE  Means(operation(ident, amount, Default(key), type, status, related, None),
               ident, amount, key, status, related)
<1> DEFINE op == operation(ident, amount, Default(key), type, status, related, None)
<1>1. /\ op.index = ident /\ op.related = related /\ op.amount = amount
      /\ op.account = Default(key)
      /\ op.status = IF status = "failed" THEN "Failed" ELSE "Success"
  BY DEF operation, OperationStatus
<1> HIDE DEF op
<1>2. Default(key) \in Accounts
  BY TokensAssumption DEF Default, Accounts
<1>3. IsOperation(op)
  BY <1>1, <1>2 DEF IsOperation
<1>4. \A k : Default(key) = Default(k) <=> k = key
  BY DefaultApart
<1>5. \A k : Given(k, op) = IF status = "applied" /\ amount # None
                            THEN To(k, key, amount) ELSE 0
  BY <1>1, <1>4 DEF Given, To
<1> QED
  BY <1>1, <1>3, <1>5 DEF op, Means

-----------------------------------------------------------------------------
\* The operations of a user command after the fees.
UserBody(u, n) ==
  LET moved(amount) == IF u.status = "applied" THEN amount ELSE None
  IN  IF u.command_type = "payment"
      THEN << operation(n, moved(- OrZero(u.amount)), Default(u.source),
                        "payment_source_dec", u.status, None, None),
              operation(n + 1, moved(OrZero(u.amount)), Default(u.receiver),
                        "payment_receiver_inc", u.status, n, None) >>
      ELSE << operation(n, None, Default(u.source), "delegate_change", u.status, None, None) >>

CreationPayment(u, fee) ==
  operation(1, IF u.status = "applied" THEN - fee ELSE None, Default(u.receiver),
            "account_creation_fee_via_payment", u.status, None, None)

LEMMA UserOperationsAre ==
  ASSUME NEW u, NEW fee
  PROVE  UserCommandOperations(u, fee) =
           IF fee = None THEN <<FeePayment(u)>> \o UserBody(u, 1)
           ELSE <<FeePayment(u), CreationPayment(u, fee)>> \o UserBody(u, 2)
BY DEF UserCommandOperations, UserBody, Body, CreationPayment

LEMMA UserBodySays ==
  ASSUME NEW u, UserShape(u), NEW n \in Nat
  PROVE  /\ Numbered(UserBody(u, n), n)
         /\ \A k : Reported(k, UserBody(u, n)) =
              IF u.command_type = "payment" /\ u.status = "applied"
              THEN To(k, u.source, - u.amount) + To(k, u.receiver, u.amount) ELSE 0
<1>1. CASE u.command_type = "payment"
  <2> DEFINE a == IF u.status = "applied" THEN - Amount ELSE None
             b == IF u.status = "applied" THEN Amount ELSE None
             x == operation(n, a, Default(u.source), "payment_source_dec", u.status, None, None)
             y == operation(n + 1, b, Default(u.receiver), "payment_receiver_inc", u.status, n, None)
  <2>1. u.amount = Amount /\ Amount \in Int /\ None \notin Int
    BY <1>1, AmountsAssumption, NoneAssumption DEF UserShape
  <2>2. OrZero(u.amount) = Amount
    BY <2>1 DEF OrZero
  <2>3. UserBody(u, n) = <<x, y>>
    BY <1>1, <2>2 DEF UserBody
  <2>4. a \in Int \cup {None} /\ b \in Int \cup {None}
    BY <2>1
  <2>5. /\ u.source \in Keys /\ u.receiver \in Keys /\ u.status \in {"applied", "failed"}
    BY DEF UserShape
  <2> HIDE DEF a, b
  <2>6. /\ IsOperation(x) /\ x.index = n /\ x.related = None
        /\ \A k : Given(k, x) = IF u.status = "applied" /\ a # None
                                THEN To(k, u.source, a) ELSE 0
    <3>1. Means(x, n, a, u.source, u.status, None)
      BY Zenon, <2>4, <2>5, OperationIs
    <3> QED
      BY <3>1 DEF Means
  <2>7. /\ IsOperation(y) /\ y.index = n + 1 /\ y.related = n
        /\ \A k : Given(k, y) = IF u.status = "applied" /\ b # None
                                THEN To(k, u.receiver, b) ELSE 0
    <3>1. Means(y, n + 1, b, u.receiver, u.status, n)
      BY Zenon, <2>4, <2>5, OperationIs
    <3> QED
      BY <3>1 DEF Means
  <2> HIDE DEF x, y
  <2>8. Numbered(<<x, y>>, n) /\ \A k : Reported(k, <<x, y>>) = Given(k, x) + Given(k, y)
    BY <2>6, <2>7, NumberedTwo
  <2>9. \A k : Reported(k, <<x, y>>) =
          IF u.status = "applied" THEN To(k, u.source, - Amount) + To(k, u.receiver, Amount) ELSE 0
    <3> TAKE k
    <3>1. CASE u.status = "applied"
      <4>1. a = - Amount /\ b = Amount /\ a # None /\ b # None
        BY <2>1, <3>1 DEF a, b
      <4> QED
        BY <2>6, <2>7, <2>8, <3>1, <4>1
    <3>2. CASE u.status # "applied"
      <4>1. Given(k, x) = 0 /\ Given(k, y) = 0
        BY <2>6, <2>7, <3>2
      <4> QED
        BY <2>8, <3>2, <4>1
    <3> QED
      BY <3>1, <3>2
  <2> QED
    BY <1>1, <2>1, <2>3, <2>8, <2>9
<1>2. CASE u.command_type # "payment"
  <2> DEFINE x == operation(n, None, Default(u.source), "delegate_change", u.status, None, None)
  <2>1. UserBody(u, n) = <<x>>
    BY <1>2 DEF UserBody
  <2>2. /\ IsOperation(x) /\ x.index = n /\ x.related = None
        /\ \A k : Given(k, x) = IF u.status = "applied" /\ None # None
                                THEN To(k, u.source, None) ELSE 0
    <3>1. u.source \in Keys /\ u.status \in {"applied", "failed"} /\ None \in Int \cup {None}
      BY DEF UserShape
    <3>2. Means(x, n, None, u.source, u.status, None)
      BY Zenon, <3>1, OperationIs
    <3> QED
      BY <3>2 DEF Means
  <2> HIDE DEF x
  <2>3. Numbered(<<x>>, n) /\ \A k : Reported(k, <<x>>) = Given(k, x)
    BY <2>2, NumberedOne
  <2> QED
    BY <1>2, <2>1, <2>2, <2>3
<1> QED
  BY <1>1, <1>2

\* What the operations of a user command add up to: its effect, and the
\* account creation fee if it is shown.
LEMMA UserSays ==
  ASSUME NEW u, UserShape(u), NEW fee, fee \in {None, CreationFee}
  PROVE  /\ WellFormed(UserCommandOperations(u, fee))
         /\ \A k : Reported(k, UserCommandOperations(u, fee)) =
              UserEffect(u, k) + (IF fee # None /\ u.status = "applied"
                                  THEN To(k, u.receiver, - fee) ELSE 0)
<1> DEFINE x == FeePayment(u)
           y == CreationPayment(u, fee)
<1>1. /\ u.source \in Keys /\ u.receiver \in Keys /\ u.fee_payer \in Keys /\ u.fee = Fee
      /\ u.status \in {"applied", "failed"}
      /\ Fee \in Int /\ Amount \in Int /\ CreationFee \in Int /\ None \notin Int
      /\ u.command_type = "payment" => u.amount = Amount
  BY AmountsAssumption, NoneAssumption DEF UserShape
<1>2. /\ IsOperation(x) /\ x.index = 0 /\ x.related = None
      /\ \A k : Given(k, x) = To(k, u.fee_payer, - u.fee)
  <2>1. x = operation(0, - Fee, Default(u.fee_payer), "fee_payment", "applied", None, None)
    BY <1>1 DEF FeePayment, OrZero
  <2>2. - Fee \in Int \cup {None} /\ - Fee # None /\ "applied" \in {"applied", "failed"}
    BY <1>1
  <2> HIDE DEF x
  <2> DEFINE op == operation(0, - Fee, Default(u.fee_payer), "fee_payment", "applied", None, None)
  <2>3. /\ IsOperation(op) /\ op.index = 0 /\ op.related = None
        /\ \A k : Given(k, op) = IF "applied" = "applied" /\ - Fee # None
                                 THEN To(k, u.fee_payer, - Fee) ELSE 0
    <3>1. Means(op, 0, - Fee, u.fee_payer, "applied", None)
      BY Zenon, <1>1, <2>2, OperationIs
    <3> QED
      BY <3>1 DEF Means
  <2> HIDE DEF op
  <2> QED
    BY <1>1, <2>1, <2>2, <2>3 DEF op
<1>3. \A n \in Nat : /\ Numbered(UserBody(u, n), n)
                     /\ \A k : Reported(k, UserBody(u, n)) =
                          IF u.command_type = "payment" /\ u.status = "applied"
                          THEN To(k, u.source, - u.amount) + To(k, u.receiver, u.amount) ELSE 0
  BY UserBodySays
<1>4. \A k : /\ To(k, u.fee_payer, - u.fee) \in Int
             /\ (IF u.command_type = "payment" /\ u.status = "applied"
                 THEN To(k, u.source, - u.amount) + To(k, u.receiver, u.amount) ELSE 0) \in Int
             /\ UserEffect(u, k) = To(k, u.fee_payer, - u.fee)
                  + (IF u.command_type = "payment" /\ u.status = "applied"
                     THEN To(k, u.source, - u.amount) + To(k, u.receiver, u.amount) ELSE 0)
  BY <1>1 DEF UserEffect, To
<1> HIDE DEF x
<1>5. CASE fee = None
  <2>1. UserCommandOperations(u, fee) = <<x>> \o UserBody(u, 1)
    BY <1>5, UserOperationsAre DEF x
  <2>2. Numbered(<<x>>, 0) /\ \A k : Reported(k, <<x>>) = Given(k, x)
    BY <1>2, NumberedOne
  <2>3. Numbered(UserBody(u, 1), 0 + Len(<<x>>))
    BY <1>3
  <2> DEFINE ops == <<x>> \o UserBody(u, 1)
  <2>4. /\ Numbered(ops, 0)
        /\ \A k : Reported(k, ops) = Reported(k, <<x>>) + Reported(k, UserBody(u, 1))
    <3>1. Numbered(ops, 0) /\ Adds(<<x>>, UserBody(u, 1))
      <4>1. 0 \in Nat
        OBVIOUS
      <4> QED
        BY Zenon, <2>2, <2>3, <4>1, NumberedJoined
    <3> QED
      BY <3>1 DEF Adds
  <2> HIDE DEF ops
  <2>5. \A k : Reported(k, ops) = UserEffect(u, k) + 0
    BY <1>2, <1>3, <1>4, <2>2, <2>4
  <2> QED
    BY <1>5, <2>1, <2>4, <2>5, NumberedWellFormed DEF ops
<1>6. CASE fee # None
  <2>0. fee = CreationFee
    BY <1>6
  <2> DEFINE a == IF u.status = "applied" THEN - fee ELSE None
  <2>1. UserCommandOperations(u, fee) = <<x, y>> \o UserBody(u, 2)
    BY <1>6, UserOperationsAre DEF x
  <2>2. a \in Int \cup {None} /\ (u.status = "applied" => a = - fee /\ a # None)
    BY <1>1, <2>0
  <2>3. y = operation(1, a, Default(u.receiver), "account_creation_fee_via_payment",
                      u.status, None, None)
    BY DEF CreationPayment
  <2> HIDE DEF a, y
  <2> DEFINE op == operation(1, a, Default(u.receiver), "account_creation_fee_via_payment",
                             u.status, None, None)
  <2>4. /\ IsOperation(op) /\ op.index = 1 /\ op.related = None
        /\ \A k : Given(k, op) = IF u.status = "applied" /\ a # None
                                 THEN To(k, u.receiver, a) ELSE 0
    <3>1. Means(op, 1, a, u.receiver, u.status, None)
      BY Zenon, <1>1, <2>2, OperationIs
    <3> QED
      BY <3>1 DEF Means
  <2> HIDE DEF op
  <2>5. /\ IsOperation(y) /\ y.index = 1 /\ y.related = None
        /\ \A k : Given(k, y) = IF u.status = "applied" THEN To(k, u.receiver, - fee) ELSE 0
    BY <2>2, <2>3, <2>4 DEF op
  <2>6. /\ Numbered(<<x, y>>, 0)
        /\ \A k : Reported(k, <<x, y>>) = Given(k, x) + Given(k, y)
    BY <1>2, <2>5, NumberedTwo
  <2>7. Numbered(UserBody(u, 2), 0 + Len(<<x, y>>))
    BY <1>3
  <2> DEFINE ops == <<x, y>> \o UserBody(u, 2)
  <2>8. /\ Numbered(ops, 0)
        /\ \A k : Reported(k, ops) = Reported(k, <<x, y>>) + Reported(k, UserBody(u, 2))
    <3>1. Numbered(ops, 0) /\ Adds(<<x, y>>, UserBody(u, 2))
      <4>1. 0 \in Nat
        OBVIOUS
      <4> QED
        BY Zenon, <2>6, <2>7, <4>1, NumberedJoined
    <3> QED
      BY <3>1 DEF Adds
  <2> HIDE DEF ops
  <2>9. \A k : Reported(k, ops) = UserEffect(u, k)
                 + (IF u.status = "applied" THEN To(k, u.receiver, - fee) ELSE 0)
    <3> TAKE k
    <3> DEFINE e1 == To(k, u.fee_payer, - u.fee)
               e2 == IF u.command_type = "payment" /\ u.status = "applied"
                     THEN To(k, u.source, - u.amount) + To(k, u.receiver, u.amount) ELSE 0
               e3 == IF u.status = "applied" THEN To(k, u.receiver, - fee) ELSE 0
    <3>1. e1 \in Int /\ e2 \in Int /\ UserEffect(u, k) = e1 + e2
      BY <1>4
    <3>2. e3 \in Int
      BY <1>1, <2>0 DEF To
    <3>3. Reported(k, ops) = (e1 + e3) + e2
      BY <1>2, <1>3, <2>5, <2>6, <2>8
    <3> HIDE DEF e1, e2, e3
    <3>4. Reported(k, ops) = UserEffect(u, k) + e3
      BY <3>1, <3>2, <3>3
    <3> QED
      BY <3>4 DEF e3
  <2> QED
    BY <1>6, <2>1, <2>8, <2>9, NumberedWellFormed DEF ops
<1> QED
  BY <1>5, <1>6

-----------------------------------------------------------------------------
\* What an internal command gives, if the coinbase it is paired with is c's.
Transferred(i, c, k) ==
  IF i.command_type # "fee_transfer_via_coinbase" THEN To(k, i.receiver, i.fee)
  ELSE IF c = None THEN 0 ELSE To(k, i.receiver, i.fee) + To(k, c, - i.fee)

LEMMA TransfersSay ==
  ASSUME NEW i, InternalShape(i), NEW status, status \in {"applied", "failed"},
         NEW c, c \in Keys \cup {None}, NEW n \in Nat
  PROVE  /\ Numbered(Transfers(i, status, c, n), n)
         /\ \A k : Reported(k, Transfers(i, status, c, n)) =
                     IF status = "applied" THEN Transferred(i, c, k) ELSE 0
<1> DEFINE inc(type) == operation(n, i.fee, Default(i.receiver), type, status, None, None)
           dec == operation(n + 1, - i.fee, Default(c), "fee_payer_dec", status, n, None)
           ops == Transfers(i, status, c, n)
<1>1. /\ i.fee \in Int /\ - i.fee \in Int /\ i.fee # None /\ - i.fee # None
      /\ i.fee \in Int \cup {None} /\ - i.fee \in Int \cup {None} /\ i.receiver \in Keys
      /\ i.command_type \in {"coinbase", "fee_transfer", "fee_transfer_via_coinbase"}
  BY NoneAssumption DEF InternalShape
<1>2. ops = CASE i.command_type = "coinbase" -> << inc("coinbase_inc") >>
              [] i.command_type = "fee_transfer" -> << inc("fee_receiver_inc") >>
              [] OTHER -> IF c = None THEN << >> ELSE << inc("fee_receiver_inc"), dec >>
  BY <1>1 DEF Transfers, OrZero
<1>3. \A type : Means(inc(type), n, i.fee, i.receiver, status, None)
  BY Zenon, <1>1, OperationIs
<1>4. c # None => Means(dec, n + 1, - i.fee, c, status, n)
  <2> SUFFICES ASSUME c # None
               PROVE  Means(dec, n + 1, - i.fee, c, status, n)
    OBVIOUS
  <2>1. c \in Keys
    OBVIOUS
  <2> QED
    BY Zenon, <1>1, <2>1, OperationIs
<1> HIDE DEF inc, dec, ops
<1>5. \A type : /\ Numbered(<<inc(type)>>, n)
                /\ \A k : Reported(k, <<inc(type)>>) =
                            IF status = "applied" THEN To(k, i.receiver, i.fee) ELSE 0
  <2> TAKE type
  <2> DEFINE x == inc(type)
  <2>1. /\ IsOperation(x) /\ x.index = n /\ x.related = None
        /\ \A k : Given(k, x) = IF status = "applied" THEN To(k, i.receiver, i.fee) ELSE 0
    BY <1>1, <1>3 DEF Means
  <2> HIDE DEF x
  <2>2. Numbered(<<x>>, n) /\ \A k : Reported(k, <<x>>) = Given(k, x)
    BY <2>1, NumberedOne
  <2> QED
    BY <2>1, <2>2 DEF x
<1>6. CASE i.command_type \in {"coinbase", "fee_transfer"}
  <2>1. \E type : ops = <<inc(type)>>
    BY <1>2, <1>6
  <2> QED
    BY <1>5, <1>6, <2>1 DEF Transferred, ops
<1>7. CASE i.command_type = "fee_transfer_via_coinbase" /\ c = None
  <2>1. ops = << >>
    BY <1>2, <1>7
  <2>2. Numbered(<< >>, n) /\ \A k : Reported(k, << >>) = 0
    BY NumberedNone
  <2>3. Numbered(ops, n) /\ \A k : Reported(k, ops) = 0
    BY <2>1, <2>2
  <2> QED
    BY <1>7, <2>3 DEF Transferred, ops
<1>8. CASE i.command_type = "fee_transfer_via_coinbase" /\ c # None
  <2> DEFINE x == inc("fee_receiver_inc")
  <2>1. ops = <<x, dec>>
    BY <1>2, <1>8
  <2>2. /\ IsOperation(x) /\ x.index = n /\ x.related = None
        /\ \A k : Given(k, x) = IF status = "applied" THEN To(k, i.receiver, i.fee) ELSE 0
    BY <1>1, <1>3 DEF Means
  <2>3. /\ IsOperation(dec) /\ dec.index = n + 1 /\ dec.related = n
        /\ \A k : Given(k, dec) = IF status = "applied" THEN To(k, c, - i.fee) ELSE 0
    BY <1>1, <1>4, <1>8 DEF Means
  <2> HIDE DEF x
  <2>4. /\ Numbered(<<x, dec>>, n)
        /\ \A k : Reported(k, <<x, dec>>) = Given(k, x) + Given(k, dec)
    BY <2>2, <2>3, NumberedTwo
  <2>5. \A k : Reported(k, <<x, dec>>) =
           IF status = "applied" THEN To(k, i.receiver, i.fee) + To(k, c, - i.fee) ELSE 0
    <3> TAKE k
    <3>1. Reported(k, <<x, dec>>) = Given(k, x) + Given(k, dec)
      BY <2>4
    <3> QED
      BY <2>2, <2>3, <3>1
  <2> QED
    BY <1>8, <2>1, <2>4, <2>5 DEF Transferred, ops
<1> QED
  BY <1>1, <1>6, <1>7, <1>8

\* What the operations of an internal command add up to, if they are
\* successful.
LEMMA InternalSays ==
  ASSUME NEW i, InternalShape(i), NEW status, status \in {"applied", "failed"},
         NEW fee, fee \in {None, CreationFee}, NEW c, c \in Keys \cup {None}
  PROVE  /\ WellFormed(InternalCommandOperations(i, status, fee, c))
         /\ status = "applied" =>
              \A k : Reported(k, InternalCommandOperations(i, status, fee, c)) =
                       Transferred(i, c, k) + (IF fee # None THEN To(k, i.receiver, fee) ELSE 0)
<1> DEFINE ops == InternalCommandOperations(i, status, fee, c)
           rest(n) == Transfers(i, status, c, n)
<1>1. \A n \in Nat : /\ Numbered(rest(n), n)
                     /\ \A k : Reported(k, rest(n)) =
                                 IF status = "applied" THEN Transferred(i, c, k) ELSE 0
  BY TransfersSay
<1>2. i.receiver \in Keys /\ i.fee \in Int /\ CreationFee \in Int /\ None \notin Int
  BY AmountsAssumption, NoneAssumption DEF InternalShape
<1>3. \A k : Transferred(i, c, k) \in Int
  BY <1>2 DEF Transferred, To
<1>4. CASE fee = None
  <2>1. ops = rest(0)
    BY <1>4 DEF InternalCommandOperations
  <2> HIDE DEF ops, rest
  <2>2. Numbered(ops, 0) /\ \A k : Reported(k, ops) =
                                     IF status = "applied" THEN Transferred(i, c, k) ELSE 0
    BY <1>1, <2>1
  <2>3. WellFormed(ops)
    BY <2>2, NumberedWellFormed
  <2>4. status = "applied" => \A k : Reported(k, ops) = Transferred(i, c, k) + 0
    BY <1>3, <2>2
  <2> QED
    BY <1>4, <2>3, <2>4 DEF ops
<1>5. CASE fee # None
  <2> DEFINE x == operation(0, fee, Default(i.receiver),
                            "account_creation_fee_via_fee_receiver", status, None, None)
  <2>1. ops = <<x>> \o rest(1)
    BY <1>5 DEF InternalCommandOperations
  <2> HIDE DEF ops, rest
  <2>2. fee = CreationFee /\ fee \in Int \cup {None} /\ fee \in Int
    BY <1>2, <1>5
  <2>3. Means(x, 0, fee, i.receiver, status, None)
    BY Zenon, <1>2, <2>2, OperationIs
  <2> HIDE DEF x
  <2>4. /\ IsOperation(x) /\ x.index = 0 /\ x.related = None
        /\ \A k : Given(k, x) = IF status = "applied" THEN To(k, i.receiver, fee) ELSE 0
    BY <1>5, <2>3 DEF Means
  <2>5. Numbered(<<x>>, 0) /\ \A k : Reported(k, <<x>>) = Given(k, x)
    BY <2>4, NumberedOne
  <2>6. Numbered(rest(1), 0 + Len(<<x>>))
    BY <1>1
  <2>7. Numbered(ops, 0) /\ Adds(<<x>>, rest(1))
    <3>1. 0 \in Nat
      OBVIOUS
    <3> QED
      BY Zenon, <2>1, <2>5, <2>6, <3>1, NumberedJoined
  <2>8. WellFormed(ops)
    BY <2>7, NumberedWellFormed
  <2>9. ASSUME status = "applied", NEW k
        PROVE  Reported(k, ops) = Transferred(i, c, k) + To(k, i.receiver, fee)
    <3>1. Reported(k, ops) = Reported(k, <<x>>) + Reported(k, rest(1))
      BY <2>1, <2>7 DEF Adds
    <3>2. Reported(k, <<x>>) = To(k, i.receiver, fee)
      BY <2>4, <2>5, <2>9
    <3>3. Reported(k, rest(1)) = Transferred(i, c, k)
      BY <1>1, <2>9
    <3>4. To(k, i.receiver, fee) \in Int
      BY <2>2 DEF To
    <3> QED
      BY <1>3, <3>1, <3>2, <3>3, <3>4
  <2> QED
    BY <1>5, <2>8, <2>9 DEF ops
<1> QED
  BY <1>4, <1>5

-----------------------------------------------------------------------------
\* What the operations of a zkApp command add up to, for the updates S.
LEMMA ZkappAddsUp ==
  ASSUME NEW z, ZkappShape(z), NEW S \in SUBSET [account : Accounts, change : Int],
         IsFiniteSet(S)
  PROVE  /\ WellFormed(ZkappCommandOperations(z, SetToSeq(S)))
         /\ \A k : Reported(k, ZkappCommandOperations(z, SetToSeq(S))) =
              To(k, z.fee_payer, - z.fee)
              + (IF z.status = "applied" THEN SumFunction(Gains(S, k)) ELSE 0)
<1> DEFINE f == SetToSeq(S)
           b == Cardinality(S)
           first == operation(0, - z.fee, Default(z.fee_payer), "zkapp_fee_payer_dec",
                              "applied", None, None)
           op(n) == operation(n, f[n].change, f[n].account, "zkapp_balance_update",
                              z.status, None, f[n].account[2])
           rest == [n \in DOMAIN f |-> op(n)]
           ops == ZkappCommandOperations(z, f)
<1>1. ops = <<first>> \o rest
  BY DEF ZkappCommandOperations
<1>2. b \in Nat /\ f \in Bijection(1..b, S)
  BY ListedOnce
<1>3. f \in [1..b -> S] /\ DOMAIN f = 1..b
  BY <1>2 DEF Bijection, Injection
<1>4. /\ z.fee_payer \in Keys /\ z.fee \in Int /\ - z.fee \in Int \cup {None} /\ - z.fee # None
      /\ z.status \in {"applied", "failed"} /\ "applied" \in {"applied", "failed"}
  BY AmountsAssumption, NoneAssumption DEF ZkappShape
<1>5. Means(first, 0, - z.fee, z.fee_payer, "applied", None)
  BY Zenon, <1>4, OperationIs
<1>6. \A n \in 1..b : /\ IsOperation(op(n)) /\ op(n).index = n /\ op(n).related = None
                      /\ f[n] \in S
                      /\ \A k : Given(k, op(n)) = IF z.status = "applied" /\ f[n].account = Default(k)
                                                  THEN f[n].change ELSE 0
  <2> TAKE n \in 1..b
  <2>1. f[n] \in S /\ f[n].account \in Accounts /\ f[n].change \in Int /\ f[n].change # None
    BY <1>3, NoneAssumption
  <2>2. /\ op(n).index = n /\ op(n).related = None /\ op(n).amount = f[n].change
        /\ op(n).account = f[n].account
        /\ op(n).status = IF z.status = "failed" THEN "Failed" ELSE "Success"
    BY DEF operation, OperationStatus
  <2> HIDE DEF op, f
  <2> QED
    BY <1>4, <2>1, <2>2 DEF IsOperation, Given
<1> HIDE DEF f, b, first, op, ops
<1>7. Numbered(rest, 1)
  <2> DEFINE T == {op(n) : n \in 1..b}
  <2>1. rest \in [1..b -> T] /\ \A n \in 1..b : rest[n] = op(n)
    BY <1>3
  <2> HIDE DEF rest
  <2>2. rest \in Seq(T) /\ Len(rest) = b
    BY <1>2, <2>1
  <2>3. \A n \in 1..b : n = 1 + (n - 1)
    BY <1>2
  <2> QED
    BY <1>6, <2>1, <2>2, <2>3 DEF Numbered
<1>8. \A k : Reported(k, rest) = IF z.status = "applied" THEN SumFunction(Gains(S, k)) ELSE 0
  <2> TAKE k
  <2> DEFINE I == 1..b
             g == [n \in DOMAIN rest |-> Given(k, rest[n])]
             e == Gains(S, k)
  <2>1. Reported(k, rest) = SumFunction(g)
    BY DEF Reported, Given
  <2>2. DOMAIN g = I /\ \A n \in I : g[n] = Given(k, op(n))
    BY <1>3
  <2>3. /\ IsFiniteSet(I) /\ f \in Bijection(I, S)
        /\ \A n \in I : g[n] = IF z.status = "applied" /\ f[n].account = Default(k)
                               THEN f[n].change ELSE 0
    BY <1>2, <1>6, <2>2, FS_Interval
  <2>4. DOMAIN e = S /\ \A u \in S : e[u] = (IF u.account = Default(k) THEN u.change ELSE 0)
                                     /\ u.change \in Int
    BY DEF Gains
  <2>5. \A n \in I : f[n] \in S
    BY <1>3
  <2> HIDE DEF I, g, e
  <2>6. CASE z.status = "applied"
    <3>1. \A n \in I : g[n] \in Int /\ g[n] = e[f[n]]
      BY <2>3, <2>4, <2>5, <2>6
    <3>2. SumFunctionOnSet(g, I) = SumFunctionOnSet(e, S)
      BY <2>3, <3>1, SumMap
    <3> QED
      BY <2>1, <2>2, <2>4, <2>6, <3>2, SumOfAll DEF e
  <2>7. CASE z.status # "applied"
    <3>1. \A n \in I : g[n] = 0
      BY <2>3, <2>7
    <3> QED
      BY <2>1, <2>2, <2>3, <2>7, <3>1, SumOfAll, SumZero
  <2> QED
    BY <2>6, <2>7
<1>9. /\ IsOperation(first) /\ first.index = 0 /\ first.related = None
      /\ \A k : Given(k, first) = To(k, z.fee_payer, - z.fee)
  BY <1>4, <1>5 DEF Means
<1>10. Numbered(<<first>>, 0) /\ \A k : Reported(k, <<first>>) = Given(k, first)
  BY <1>9, NumberedOne
<1> HIDE DEF rest
<1>11. Numbered(ops, 0) /\ Adds(<<first>>, rest)
  <2>1. 0 \in Nat
    OBVIOUS
  <2>2. Numbered(rest, 0 + Len(<<first>>))
    BY <1>7
  <2> QED
    BY Zenon, <1>1, <1>10, <2>1, <2>2, NumberedJoined
<1>12. WellFormed(ops)
  BY <1>11, NumberedWellFormed
<1>13. \A k : Reported(k, ops) = To(k, z.fee_payer, - z.fee)
                + (IF z.status = "applied" THEN SumFunction(Gains(S, k)) ELSE 0)
  BY <1>1, <1>8, <1>9, <1>10, <1>11 DEF Adds
<1> QED
  BY <1>12, <1>13 DEF ops, f

-----------------------------------------------------------------------------
(***************************************************************************)
(* Type correctness.                                                       *)
(***************************************************************************)
LEMMA FeesAre ==
  /\ \A r, a : FeeIfCreated(r, a) \in {None, CreationFee}
  /\ \A u : \A fee \in UserFees(u) : fee \in {None, CreationFee}
  /\ \A i : \A fee \in InternalFees(i) : fee \in {None, CreationFee}
<1>1. \A r, a : FeeIfCreated(r, a) \in {None, CreationFee}
  BY DEF FeeIfCreated
<1> QED
  BY <1>1 DEF UserFees, InternalFees

LEMMA ReceiversAre ==
  ASSUME TablesInv, NEW c \in Coinbases \cup {None}
  PROVE  ReceiverOf(c) \in Keys \cup {None}
BY DEF TablesInv, RowsInv, Shape, InternalShape, ReceiverOf, Coinbases, Table

\* Transactions of /block are of rows, and their operations well formed.
LEMMA BlockTyped ==
  ASSUME LedgerInv, blockReply # None, NEW t \in blockReply
  PROVE  t.row \in rows /\ WellFormed(t.ops)
<1>1. PICK feeOf \in [Table("user") -> {None, CreationFee}] :
         blockReply = BlockUsers(feeOf) \cup BlockInternals \cup BlockZkapps
  BY DEF LedgerInv, BlockInv
<1>2. \A r \in rows : Shape(r)
  BY DEF LedgerInv, TablesInv, RowsInv
<1>3. CASE t \in BlockUsers(feeOf)
  <2>1. PICK u \in Table("user") : t.row = u /\ t.ops = UserCommandOperations(u, feeOf[u])
    BY <1>3 DEF BlockUsers
  <2>2. UserShape(u) /\ u \in rows /\ feeOf[u] \in {None, CreationFee}
    BY <1>2 DEF Table, Shape
  <2> QED
    BY <2>1, <2>2, UserSays
<1>4. CASE t \in BlockInternals
  <2>1. PICK i \in InternalsShown, c \in CoinbasesShown \cup {None} :
           /\ t.row = i
           /\ t.ops = InternalCommandOperations(i, BlockStatus(i),
                        FeeIfCreated(i, Default(i.receiver)), ReceiverOf(c))
    BY <1>4 DEF BlockInternals
  <2>2. InternalShape(i) /\ i \in rows
    BY <1>2 DEF InternalsShown, Table, Shape
  <2>3. ReceiverOf(c) \in Keys \cup {None}
    BY ReceiversAre DEF LedgerInv, CoinbasesShown, InternalsShown, Coinbases
  <2> DEFINE fee == FeeIfCreated(i, Default(i.receiver))
             to == ReceiverOf(c)
             status == BlockStatus(i)
  <2>4. fee \in {None, CreationFee} /\ status \in {"applied", "failed"}
    BY FeesAre DEF BlockStatus
  <2>5. t.ops = InternalCommandOperations(i, status, fee, to) /\ to \in Keys \cup {None}
    BY <2>1, <2>3
  <2> HIDE DEF fee, to, status
  <2> QED
    BY <2>1, <2>2, <2>4, <2>5, InternalSays
<1>5. CASE t \in BlockZkapps
  <2>1. PICK z \in ZkappsShown :
           t.row = z /\ t.ops = ZkappCommandOperations(z, SetToSeq(UpdatesShown(z)))
    BY <1>5 DEF BlockZkapps, ZkappTransaction
  <2>2. ZkappShape(z) /\ z \in rows
    BY <1>2 DEF ZkappsShown, Table, Shape
  <2>3. UpdatesShown(z) \in SUBSET [account : Accounts, change : Int] /\ IsFiniteSet(UpdatesShown(z))
    BY <2>2, UpdatesAssumption, FS_Subset DEF UpdatesShown, ZkappShape
  <2> QED
    BY <2>1, <2>2, <2>3, ZkappAddsUp
<1> QED
  BY <1>1, <1>3, <1>4, <1>5

\* So are those of /search/transactions.
LEMMA SearchTyped ==
  ASSUME LedgerInv, searchReply # None, NEW t \in searchReply
  PROVE  t.row \in rows /\ WellFormed(t.ops)
<1>1. PICK coinbaseOf \in [Table("internal") -> Coinbases \cup {None}] :
         searchReply = SearchUsers \cup SearchInternals(coinbaseOf) \cup SearchZkapps
  BY DEF LedgerInv, SearchInv
<1>2. \A r \in rows : Shape(r)
  BY DEF LedgerInv, TablesInv, RowsInv
<1>3. CASE t \in SearchUsers
  <2>1. PICK u \in Table("user") : \E fee \in UserFees(u) :
           t.row = u /\ t.ops = UserCommandOperations(u, fee)
    BY <1>3 DEF SearchUsers, BlockTransaction
  <2>2. PICK fee \in UserFees(u) : t.row = u /\ t.ops = UserCommandOperations(u, fee)
    BY <2>1
  <2>3. UserShape(u) /\ u \in rows /\ fee \in {None, CreationFee}
    BY <1>2, FeesAre DEF Table, Shape
  <2> QED
    BY <2>2, <2>3, UserSays
<1>4. CASE t \in SearchInternals(coinbaseOf)
  <2>0. PICK i \in Table("internal") : \E fee \in InternalFees(i) :
           /\ t.row = i
           /\ t.ops = InternalCommandOperations(i, SearchStatus(i), fee, ReceiverOf(coinbaseOf[i]))
    BY <1>4 DEF SearchInternals, BlockTransaction
  <2>1. PICK fee \in InternalFees(i) :
           /\ t.row = i
           /\ t.ops = InternalCommandOperations(i, SearchStatus(i), fee, ReceiverOf(coinbaseOf[i]))
    BY <2>0
  <2>2. InternalShape(i) /\ i \in rows /\ fee \in {None, CreationFee}
    BY <1>2, FeesAre DEF Table, Shape
  <2> DEFINE to == ReceiverOf(coinbaseOf[i])
             status == SearchStatus(i)
  <2>3. to \in Keys \cup {None} /\ status \in {"applied", "failed"}
    <3>1. coinbaseOf[i] \in Coinbases \cup {None}
      BY <1>1
    <3> QED
      BY <2>2, <3>1, ReceiversAre DEF LedgerInv, SearchStatus, InternalShape
  <2>4. t.ops = InternalCommandOperations(i, status, fee, to)
    BY <2>1
  <2> HIDE DEF to, status
  <2> QED
    BY <2>1, <2>2, <2>3, <2>4, InternalSays
<1>5. CASE t \in SearchZkapps
  <2>1. PICK z \in Table("zkapp") :
           t.row = z /\ t.ops = ZkappCommandOperations(z, SetToSeq(z.updates))
    BY <1>5 DEF SearchZkapps, BlockTransaction
  <2>2. ZkappShape(z) /\ z \in rows
    BY <1>2 DEF Table, Shape
  <2>3. z.updates \in SUBSET [account : Accounts, change : Int] /\ IsFiniteSet(z.updates)
    BY <2>2, UpdatesAssumption DEF ZkappShape
  <2> QED
    BY <2>1, <2>2, <2>3, ZkappAddsUp
<1> QED
  BY <1>1, <1>3, <1>4, <1>5

LEMMA ChangeInt ==
  ASSUME TablesInv
  PROVE  change \in [Keys -> Int]
<1>1. \A k \in Keys : SumFunction(Effects(rows, k)) \in Int
  <2> TAKE k \in Keys
  <2>1. DOMAIN Effects(rows, k) = rows /\ \A r \in rows : Effects(rows, k)[r] \in Int
    BY EffectInt DEF Effects, TablesInv, RowsInv
  <2>2. IsFiniteSet(rows)
    BY DEF TablesInv, RowsInv
  <2> QED
    BY <2>1, <2>2, SumOfAll, SumInt
<1> QED
  BY <1>1, AmountsAssumption DEF TablesInv, ChangeInv

LEMMA InvTyped ==
  ASSUME LedgerInv
  PROVE  LedgerTypeOK
<1>1. /\ seq \in 0..MaxCommands /\ ledger \subseteq Accounts /\ Created \subseteq ledger
      /\ \A r \in rows : r.seq \in 0..(seq - 1)
  BY DEF LedgerInv, TablesInv, RowsInv, CreatedInv
<1>2. change \in [Keys -> Int]
  BY ChangeInt DEF LedgerInv
<1>3. \A reply \in Replies : \A t \in reply : t.row \in rows /\ WellFormed(t.ops)
  BY BlockTyped, SearchTyped DEF Replies
<1> QED
  BY <1>1, <1>2, <1>3 DEF LedgerTypeOK

(***************************************************************************)
(* The types of the ledger model, and what CommandOperations makes of any  *)
(* block: the operations of every transaction of either answer are         *)
(* numbered from 0 without a gap, refer to earlier ones of the same        *)
(* transaction, name accounts there may be, and move whole amounts         *)
(* (generate_operations_user_command, ..._internal_command and             *)
(* ..._zkapp_command).                                                     *)
(***************************************************************************)
THEOREM LedgerTypeCorrect ==
  LedgerSpec => []LedgerTypeOK
BY LedgerInvariant, InvTyped, PTL

-----------------------------------------------------------------------------
(***************************************************************************)
(* What /block says of an account adds up.                                 *)
(***************************************************************************)
\* Sums over a set that is another one, renamed.
LEMMA SumRenamed ==
  ASSUME NEW S, IsFiniteSet(S), NEW T, NEW m \in Bijection(S, T),
         NEW f, NEW g, DOMAIN g = S, \A x \in S : g[x] \in Int /\ g[x] = f[m[x]]
  PROVE  /\ IsFiniteSet(T) /\ \A y \in T : f[y] \in Int
         /\ SumFunctionOnSet(f, T) = SumFunction(g)
<1>1. m \in Surjection(S, T)
  BY DEF Bijection
<1>2. IsFiniteSet(T)
  BY <1>1, FS_Surjection DEF ExistsSurjection
<1>3. \A y \in T : f[y] \in Int
  BY <1>1 DEF Surjection
<1>4. SumFunctionOnSet(g, S) = SumFunctionOnSet(f, T)
  BY SumMap
<1> QED
  BY <1>2, <1>3, <1>4, SumOfAll

\* A set of records is a renaming of the rows that they are of.
LEMMA RowsRename ==
  ASSUME NEW S, NEW m, m = [x \in S |-> m[x]], \A x \in S : m[x].row = x
  PROVE  m \in Bijection(S, {m[x] : x \in S})
<1> DEFINE T == {m[x] : x \in S}
<1>1. \A x, y \in S : m[x] = m[y] => x = y
  OBVIOUS
<1>2. \A x \in S : m[x] \in T
  OBVIOUS
<1>3. \A y \in T : \E x \in S : m[x] = y
  OBVIOUS
<1>4. m \in [S -> T] /\ DOMAIN m = S
  BY <1>2
<1>5. m \in Bijection(S, T)
  <2> HIDE DEF T
  <2> QED
    BY <1>1, <1>3, <1>4 DEF Bijection, Injection, Surjection, IsInjective
<1> QED
  BY <1>5

\* SumPlus, for sums over whole domains.
LEMMA SumFunctionPlus ==
  ASSUME NEW S, IsFiniteSet(S), NEW f, NEW g, NEW h,
         DOMAIN f = S, DOMAIN g = S, DOMAIN h = S,
         \A x \in S : f[x] \in Int /\ g[x] \in Int /\ h[x] = f[x] + g[x]
  PROVE  /\ SumFunction(f) \in Int /\ SumFunction(g) \in Int
         /\ SumFunction(h) = SumFunction(f) + SumFunction(g)
<1>1. SumFunctionOnSet(h, S) = SumFunctionOnSet(f, S) + SumFunctionOnSet(g, S)
  BY SumPlus
<1>2. SumFunctionOnSet(f, S) \in Int /\ SumFunctionOnSet(g, S) \in Int
  BY SumInt
<1> QED
  BY <1>1, <1>2, SumOfAll

\* The account creation fee out of a user command, and out of an internal
\* one; and the amount of an internal command that failed.
UserFee(u, fee, k) ==
  IF fee # None /\ u.status = "applied" THEN To(k, u.receiver, - fee) ELSE 0

InternalFee(i, k) ==
  LET fee == FeeIfCreated(i, Default(i.receiver))
  IN  IF fee # None THEN To(k, i.receiver, fee) ELSE 0

FailedAmount(i, k) == IF i.status = "failed" THEN To(k, i.receiver, i.fee) ELSE 0

UserEffects(k) == [u \in Table("user") |-> UserEffect(u, k)]
FeesOut(feeOf, k) == [u \in Table("user") |-> UserFee(u, feeOf[u], k)]
ShownEffects(k) == [i \in InternalsShown |-> InternalEffect(rows, i, k)]
ShownFailed(k) == [i \in InternalsShown |-> FailedAmount(i, k)]
ShownFees(k) == [i \in InternalsShown |-> InternalFee(i, k)]
ShownZkapps(k) == [z \in ZkappsShown |-> ZkappEffect(z, k)]

\* The tables, and what is shown of them.
LEMMA TablesAre ==
  ASSUME TablesInv
  PROVE  /\ IsFiniteSet(Table("user")) /\ IsFiniteSet(Table("internal"))
         /\ IsFiniteSet(Table("zkapp"))
         /\ InternalsShown \subseteq Table("internal") /\ IsFiniteSet(InternalsShown)
         /\ ZkappsShown \subseteq Table("zkapp") /\ IsFiniteSet(ZkappsShown)
         /\ IsFiniteSet(CoinbasesShown)
         /\ \A u \in Table("user") : u \in rows /\ UserShape(u) /\ u.table = "user"
         /\ \A i \in Table("internal") : i \in rows /\ InternalShape(i) /\ i.table = "internal"
         /\ \A z \in Table("zkapp") : z \in rows /\ ZkappShape(z) /\ z.table = "zkapp"
<1>1. IsFiniteSet(rows) /\ \A r \in rows : Shape(r)
  BY DEF TablesInv, RowsInv
<1>2. /\ \A u \in Table("user") : u \in rows /\ UserShape(u) /\ u.table = "user"
      /\ \A i \in Table("internal") : i \in rows /\ InternalShape(i) /\ i.table = "internal"
      /\ \A z \in Table("zkapp") : z \in rows /\ ZkappShape(z) /\ z.table = "zkapp"
  BY <1>1 DEF Table, Shape
<1>3. /\ InternalsShown \subseteq Table("internal") /\ CoinbasesShown \subseteq Table("internal")
      /\ ZkappsShown \subseteq Table("zkapp")
  BY DEF InternalsShown, CoinbasesShown, ZkappsShown
<1>4. \A name : IsFiniteSet(Table(name))
  BY <1>1, FS_Subset DEF Table
<1> QED
  BY <1>2, <1>3, <1>4, FS_Subset

\* Effects of the rows of each table are integers.
LEMMA PartsInt ==
  ASSUME TablesInv, NEW k
  PROVE  /\ \A u \in Table("user") : UserEffect(u, k) \in Int
         /\ \A i \in Table("internal") : InternalEffect(rows, i, k) \in Int
         /\ \A z \in Table("zkapp") : ZkappEffect(z, k) \in Int
<1>1. \A r \in rows : Effect(rows, r, k) \in Int
  BY EffectInt DEF TablesInv, RowsInv
<1> QED
  BY <1>1 DEF Effect, Table

\* The updates in other tokens change nothing of k's account.
LEMMA GainsShown ==
  ASSUME NEW z, z.updates \in UpdateSets, NEW k
  PROVE  SumFunction(Gains(UpdatesShown(z), k)) = SumFunction(Gains(z.updates, k))
<1> DEFINE S == UpdatesShown(z)
           R == z.updates \ S
           g == Gains(z.updates, k)
           h == Gains(S, k)
<1>1. z.updates = S \cup R /\ S \cap R = {} /\ IsFiniteSet(S) /\ IsFiniteSet(R)
  BY GainsInt, FS_Subset DEF UpdatesShown
<1>2. DOMAIN g = z.updates /\ DOMAIN h = S /\ \A u \in z.updates : g[u] \in Int
  BY GainsInt DEF Gains
<1>3. \A u \in S : h[u] \in Int /\ h[u] = g[u]
  BY <1>1, <1>2 DEF Gains
<1>4. \A u \in R : g[u] = 0
  BY DEF Gains, UpdatesShown, Default
<1> HIDE DEF S, R, g, h
<1>5. SumFunctionOnSet(g, S \cup R) = SumFunctionOnSet(g, S) + SumFunctionOnSet(g, R)
  BY <1>1, <1>2, SumUnion
<1>6. SumFunctionOnSet(g, R) = 0
  BY <1>1, <1>4, SumZero
<1>7. SumFunctionOnSet(g, S) = SumFunctionOnSet(h, S) /\ SumFunctionOnSet(h, S) \in Int
  BY <1>1, <1>3, SumSame, SumInt
<1>8. SumFunction(g) = SumFunction(h)
  BY <1>1, <1>2, <1>5, <1>6, <1>7, SumOfAll
<1> QED
  BY <1>8 DEF g, h, S

\* User commands report their effects and the account creation fees.
LEMMA UsersAddUp ==
  ASSUME TablesInv, NEW feeOf \in [Table("user") -> {None, CreationFee}], NEW k,
         NEW f, \A t \in BlockUsers(feeOf) : f[t] = Reported(k, t.ops)
  PROVE  /\ IsFiniteSet(BlockUsers(feeOf)) /\ \A t \in BlockUsers(feeOf) : f[t] \in Int
         /\ SumFunction(UserEffects(k)) \in Int /\ SumFunction(FeesOut(feeOf, k)) \in Int
         /\ SumFunctionOnSet(f, BlockUsers(feeOf)) =
              SumFunction(UserEffects(k)) + SumFunction(FeesOut(feeOf, k))
<1> DEFINE U == Table("user")
           m == [u \in U |-> [row |-> u, via |-> None, id |-> <<"hash", u.seq>>,
                              ops |-> UserCommandOperations(u, feeOf[u])]]
           T == {m[u] : u \in U}
           a == UserEffects(k)
           b == FeesOut(feeOf, k)
           g == [u \in U |-> a[u] + b[u]]
<1>1. BlockUsers(feeOf) = T
  BY DEF BlockUsers
<1>2. \A u \in U : m[u].row = u /\ m[u].ops = UserCommandOperations(u, feeOf[u])
  OBVIOUS
<1>3. m = [u \in U |-> m[u]] /\ DOMAIN g = U /\ DOMAIN a = U /\ DOMAIN b = U
  BY DEF UserEffects, FeesOut
<1>4. \A u \in U : a[u] = UserEffect(u, k) /\ b[u] = UserFee(u, feeOf[u], k)
  BY DEF UserEffects, FeesOut
<1>5. \A u \in U : /\ a[u] \in Int /\ b[u] \in Int
                   /\ Reported(k, UserCommandOperations(u, feeOf[u])) = a[u] + b[u]
  <2> SUFFICES ASSUME NEW u \in U
               PROVE  /\ a[u] \in Int /\ b[u] \in Int
                      /\ Reported(k, UserCommandOperations(u, feeOf[u])) = a[u] + b[u]
    OBVIOUS
  <2>1. UserShape(u) /\ feeOf[u] \in {None, CreationFee}
    BY TablesAre
  <2>2. UserFee(u, feeOf[u], k) \in Int
    BY <2>1, AmountsAssumption DEF UserFee, To
  <2>3. Reported(k, UserCommandOperations(u, feeOf[u])) =
          UserEffect(u, k) + UserFee(u, feeOf[u], k)
    BY <2>1, UserSays DEF UserFee
  <2> QED
    BY <1>4, <2>2, <2>3, PartsInt
<1>6. \A u \in U : g[u] = a[u] + b[u]
  OBVIOUS
<1>7. IsFiniteSet(U)
  BY TablesAre
<1> HIDE DEF m, U, a, b, g
<1>8. m \in Bijection(U, T)
  BY <1>2, <1>3, RowsRename
<1>9. \A u \in U : g[u] \in Int /\ g[u] = f[m[u]]
  BY <1>1, <1>2, <1>5, <1>6
<1> HIDE DEF T
<1>10. /\ IsFiniteSet(T) /\ \A y \in T : f[y] \in Int
       /\ SumFunctionOnSet(f, T) = SumFunction(g)
  BY <1>3, <1>7, <1>8, <1>9, SumRenamed
<1>11. /\ SumFunction(a) \in Int /\ SumFunction(b) \in Int
       /\ SumFunction(g) = SumFunction(a) + SumFunction(b)
  <2>1. \A u \in U : a[u] \in Int /\ b[u] \in Int /\ g[u] = a[u] + b[u]
    BY <1>5, <1>6
  <2>2. DOMAIN a = U /\ DOMAIN b = U /\ DOMAIN g = U
    BY <1>3
  <2> QED
    BY <1>7, <2>1, <2>2, SumFunctionPlus
<1> QED
  BY <1>1, <1>10, <1>11 DEF a, b

\* zkApp commands that are shown report their effects.
LEMMA ZkappsAddUp ==
  ASSUME TablesInv, NEW k, NEW f, \A t \in BlockZkapps : f[t] = Reported(k, t.ops)
  PROVE  /\ IsFiniteSet(BlockZkapps) /\ \A t \in BlockZkapps : f[t] \in Int
         /\ SumFunctionOnSet(f, BlockZkapps) = SumFunction(ShownZkapps(k))
<1> DEFINE U == ZkappsShown
           m == [z \in U |-> ZkappTransaction(z, UpdatesShown(z))]
           T == {m[z] : z \in U}
           g == ShownZkapps(k)
<1>1. BlockZkapps = T
  BY DEF BlockZkapps
<1>2. \A z \in U : m[z].row = z /\ m[z].ops = ZkappCommandOperations(z, SetToSeq(UpdatesShown(z)))
  BY DEF ZkappTransaction
<1>3. m = [z \in U |-> m[z]] /\ DOMAIN g = U /\ IsFiniteSet(U)
  BY TablesAre DEF ShownZkapps
<1>4. \A z \in U : /\ g[z] \in Int
                   /\ Reported(k, ZkappCommandOperations(z, SetToSeq(UpdatesShown(z)))) = g[z]
  <2> SUFFICES ASSUME NEW z \in U
               PROVE  /\ g[z] \in Int
                      /\ Reported(k, ZkappCommandOperations(z, SetToSeq(UpdatesShown(z)))) = g[z]
    OBVIOUS
  <2>1. ZkappShape(z) /\ z \in Table("zkapp")
    BY TablesAre
  <2>2. g[z] = ZkappEffect(z, k) /\ g[z] \in Int
    BY <2>1, PartsInt DEF ShownZkapps
  <2>3. UpdatesShown(z) \in SUBSET [account : Accounts, change : Int] /\ IsFiniteSet(UpdatesShown(z))
    BY <2>1, UpdatesAssumption, FS_Subset DEF UpdatesShown, ZkappShape
  <2>4. SumFunction(Gains(UpdatesShown(z), k)) = SumFunction(Gains(z.updates, k))
    BY <2>1, GainsShown DEF ZkappShape
  <2> QED
    BY <2>1, <2>2, <2>3, <2>4, ZkappAddsUp DEF ZkappEffect
<1> HIDE DEF m, U, g
<1>5. m \in Bijection(U, T)
  BY <1>2, <1>3, RowsRename
<1>6. \A z \in U : g[z] \in Int /\ g[z] = f[m[z]]
  BY <1>1, <1>2, <1>4
<1> HIDE DEF T
<1>7. /\ IsFiniteSet(T) /\ \A y \in T : f[y] \in Int
      /\ SumFunctionOnSet(f, T) = SumFunction(g)
  BY <1>3, <1>5, <1>6, SumRenamed
<1> QED
  BY <1>1, <1>7 DEF g

\* No fee transfer has several coinbases to be paired with.
Told ==
  ~ (/\ Cardinality(CoinbasesShown) > 1
     /\ \E i \in InternalsShown : i.command_type = "fee_transfer_via_coinbase")

\* A fee transfer via coinbase is paired with the coinbase that pays it.
LEMMA CoinbaseIs ==
  ASSUME TablesInv, Told, NEW i \in InternalsShown, ViaCoinbase(i)
  PROVE  \E c \in CoinbasesShown :
           /\ CoinbasesShown = {c} /\ c \in Table("internal") /\ c.receiver \in Keys
           /\ \A k : PaidBy(rows, i, k) <=> k = c.receiver
<1>1. i \in rows /\ ~ (Cardinality(CoinbasesShown) > 1) /\ IsFiniteSet(CoinbasesShown)
  BY TablesAre DEF Told, ViaCoinbase
<1>2. PICK c \in CoinbasesShown : c.seq = i.seq /\ IsCoinbase(c)
  BY <1>1, ViaIsShown
<1>3. CoinbasesShown = {c}
  BY <1>1, OneOnly
<1>4. c \in Table("internal") /\ c \in rows /\ c.receiver \in Keys
  BY TablesAre DEF CoinbasesShown, InternalShape
<1>5. ASSUME NEW d \in rows, IsCoinbase(d), d.seq = i.seq
      PROVE  d = c
  <2>1. d.status = "applied"
    BY <1>1, <1>5 DEF TablesInv, CoinbaseInv
  <2>2. Default(d.receiver) \in ledger
    BY <1>5, <2>1 DEF TablesInv, MentionInv, Mention, IsCoinbase
  <2>3. d \in CoinbasesShown
    BY <1>5, <2>2 DEF CoinbasesShown, InternalsShown, Table, IsCoinbase, AccountIds
  <2> QED
    BY <1>3, <2>3
<1>6. \A k : PaidBy(rows, i, k) <=> k = c.receiver
  BY <1>2, <1>4, <1>5 DEF PaidBy
<1> QED
  BY <1>3, <1>4, <1>6

\* An internal command is shown once, and says what it did and, if it
\* failed, the amount that it did not pay.
LEMMA PairedWith ==
  ASSUME TablesInv, Told, NEW i \in InternalsShown
  PROVE  \E c \in CoinbasesShown \cup {None} :
           /\ CoinbasesOf(i) = {c} /\ ReceiverOf(c) \in Keys \cup {None}
           /\ \A k : Transferred(i, ReceiverOf(c), k) =
                       InternalEffect(rows, i, k) + FailedAmount(i, k)
<1>1. InternalShape(i) /\ i.table = "internal"
  BY TablesAre
<1>2. i.fee \in Int /\ - i.fee \in Int
  BY <1>1 DEF InternalShape
<1>3. CASE ViaCoinbase(i)
  <2>1. PICK c \in CoinbasesShown :
          /\ CoinbasesShown = {c} /\ c \in Table("internal") /\ c.receiver \in Keys
          /\ \A k : PaidBy(rows, i, k) <=> k = c.receiver
    BY <1>3, CoinbaseIs
  <2>2. CoinbasesOf(i) = {c} /\ ReceiverOf(c) = c.receiver
    BY <1>3, <2>1 DEF CoinbasesOf, ViaCoinbase, ReceiverOf
  <2>3. c.receiver # None
    BY <2>1, TokensAssumption
  <2>4. i.command_type = "fee_transfer_via_coinbase" /\ i.status = "applied"
    BY <1>1, <1>3 DEF ViaCoinbase, InternalShape
  <2>5. \A k : Transferred(i, c.receiver, k) = InternalEffect(rows, i, k) + FailedAmount(i, k)
    <3> TAKE k
    <3>1. Transferred(i, c.receiver, k) = To(k, i.receiver, i.fee) + To(k, c.receiver, - i.fee)
      BY <2>3, <2>4 DEF Transferred
    <3>2. InternalEffect(rows, i, k) =
            To(k, i.receiver, i.fee) + (IF k = c.receiver THEN - i.fee ELSE 0)
      BY <1>3, <2>1, <2>4 DEF InternalEffect
    <3>3. FailedAmount(i, k) = 0
      BY <2>4 DEF FailedAmount
    <3> QED
      BY <1>2, <3>1, <3>2, <3>3 DEF To
  <2> QED
    BY <2>1, <2>2, <2>5
<1>4. CASE ~ ViaCoinbase(i)
  <2>1. i.command_type # "fee_transfer_via_coinbase" /\ i.status \in {"applied", "failed"}
    BY <1>1, <1>4 DEF ViaCoinbase, InternalShape
  <2>2. CoinbasesOf(i) = {None}
    BY <2>1 DEF CoinbasesOf
  <2>3. ReceiverOf(None) \in Keys \cup {None}
    BY ReceiversAre
  <2>4. \A c, k : Transferred(i, c, k) = InternalEffect(rows, i, k) + FailedAmount(i, k)
    <3> TAKE c, k
    <3>1. Transferred(i, c, k) = To(k, i.receiver, i.fee)
      BY <2>1 DEF Transferred
    <3>2. InternalEffect(rows, i, k) = (IF i.status = "applied" THEN To(k, i.receiver, i.fee) ELSE 0)
      BY <1>2, <1>4 DEF InternalEffect, To
    <3> QED
      BY <1>2, <2>1, <3>1, <3>2 DEF FailedAmount, To
  <2> QED
    BY <2>2, <2>3, <2>4
<1> QED
  BY <1>3, <1>4

\* Internal commands report their effects, failed amounts and fees.
LEMMA InternalsAddUp ==
  ASSUME TablesInv, Told, NEW k, NEW f, \A t \in BlockInternals : f[t] = Reported(k, t.ops)
  PROVE  /\ IsFiniteSet(BlockInternals) /\ \A t \in BlockInternals : f[t] \in Int
         /\ SumFunction(ShownEffects(k)) \in Int /\ SumFunction(ShownFailed(k)) \in Int
         /\ SumFunction(ShownFees(k)) \in Int
         /\ SumFunctionOnSet(f, BlockInternals) =
              (SumFunction(ShownEffects(k)) + SumFunction(ShownFailed(k))) + SumFunction(ShownFees(k))
<1> DEFINE U == InternalsShown
           pair(i) == CHOOSE c \in CoinbasesShown \cup {None} :
             /\ CoinbasesOf(i) = {c} /\ ReceiverOf(c) \in Keys \cup {None}
             /\ \A l : Transferred(i, ReceiverOf(c), l) =
                         InternalEffect(rows, i, l) + FailedAmount(i, l)
           fee(i) == FeeIfCreated(i, Default(i.receiver))
           says(i, c) == InternalCommandOperations(i, BlockStatus(i), fee(i), ReceiverOf(c))
           m == [i \in U |-> [row |-> i, via |-> pair(i), id |-> InternalIdentifier(i),
                              ops |-> says(i, pair(i))]]
           T == {m[i] : i \in U}
           a == ShownEffects(k)
           b == ShownFailed(k)
           c == ShownFees(k)
           ab == [i \in U |-> a[i] + b[i]]
           g == [i \in U |-> ab[i] + c[i]]
<1>1. \A i \in U : /\ pair(i) \in CoinbasesShown \cup {None}
                   /\ CoinbasesOf(i) = {pair(i)} /\ ReceiverOf(pair(i)) \in Keys \cup {None}
                   /\ \A l : Transferred(i, ReceiverOf(pair(i)), l) =
                               InternalEffect(rows, i, l) + FailedAmount(i, l)
  <2> TAKE i \in U
  <2>1. \E x \in CoinbasesShown \cup {None} :
          /\ CoinbasesOf(i) = {x} /\ ReceiverOf(x) \in Keys \cup {None}
          /\ \A l : Transferred(i, ReceiverOf(x), l) =
                      InternalEffect(rows, i, l) + FailedAmount(i, l)
    BY PairedWith
  <2> QED
    BY <2>1
<1> HIDE DEF pair
<1>2. BlockInternals = T
  <2>1. BlockInternals =
          {[row |-> p[1], via |-> p[2], id |-> InternalIdentifier(p[1]), ops |-> says(p[1], p[2])] :
             p \in {q \in U \X (CoinbasesShown \cup {None}) : q[2] \in CoinbasesOf(q[1])}}
    BY DEF BlockInternals
  <2> HIDE DEF says
  <2>2. {q \in U \X (CoinbasesShown \cup {None}) : q[2] \in CoinbasesOf(q[1])} =
          {<<i, pair(i)>> : i \in U}
    <3> HIDE DEF U
    <3> QED
      BY <1>1
  <2>3. ASSUME NEW t \in BlockInternals
        PROVE  t \in T
    BY <2>1, <2>2
  <2>4. ASSUME NEW i \in U
        PROVE  m[i] \in BlockInternals
    <3> DEFINE q == <<i, pair(i)>>
    <3>1. q \in {<<j, pair(j)>> : j \in U} /\ q[1] = i /\ q[2] = pair(i)
      OBVIOUS
    <3>2. m[i] = [row |-> q[1], via |-> q[2], id |-> InternalIdentifier(q[1]),
                  ops |-> says(q[1], q[2])]
      BY <3>1
    <3> HIDE DEF q, m, U
    <3> QED
      BY Zenon, <2>1, <2>2, <3>1, <3>2
  <2> QED
    BY <2>3, <2>4
<1>3. \A i \in U : m[i].row = i /\ m[i].ops = says(i, pair(i))
  OBVIOUS
<1>4. /\ m = [i \in U |-> m[i]] /\ DOMAIN g = U /\ DOMAIN ab = U
      /\ DOMAIN a = U /\ DOMAIN b = U /\ DOMAIN c = U /\ IsFiniteSet(U)
  BY TablesAre DEF ShownEffects, ShownFailed, ShownFees
<1>5. \A i \in U : /\ a[i] \in Int /\ b[i] \in Int /\ c[i] \in Int
                   /\ Reported(k, says(i, pair(i))) = (a[i] + b[i]) + c[i]
  <2> SUFFICES ASSUME NEW i \in U
               PROVE  /\ a[i] \in Int /\ b[i] \in Int /\ c[i] \in Int
                      /\ Reported(k, says(i, pair(i))) = (a[i] + b[i]) + c[i]
    OBVIOUS
  <2>1. InternalShape(i) /\ i \in Table("internal")
    BY TablesAre
  <2>2. fee(i) \in {None, CreationFee} /\ BlockStatus(i) = "applied"
    BY FeesAre DEF BlockStatus
  <2>3. /\ a[i] = InternalEffect(rows, i, k) /\ b[i] = FailedAmount(i, k) /\ c[i] = InternalFee(i, k)
    BY DEF ShownEffects, ShownFailed, ShownFees
  <2>4. a[i] \in Int /\ b[i] \in Int
    BY <2>1, <2>3, PartsInt DEF FailedAmount, To, InternalShape
  <2>5. c[i] = (IF fee(i) # None THEN To(k, i.receiver, fee(i)) ELSE 0)
    BY <2>3 DEF InternalFee
  <2> DEFINE y == fee(i)
             x == ReceiverOf(pair(i))
             s == BlockStatus(i)
  <2> HIDE DEF a, b, c, fee
  <2>6. /\ says(i, pair(i)) = InternalCommandOperations(i, s, y, x)
        /\ s \in {"applied", "failed"} /\ s = "applied"
        /\ y \in {None, CreationFee} /\ x \in Keys \cup {None}
    BY <1>1, <2>2
  <2>7. Transferred(i, x, k) = a[i] + b[i] /\ c[i] = (IF y # None THEN To(k, i.receiver, y) ELSE 0)
    BY <1>1, <2>3, <2>5
  <2> HIDE DEF y, x, s, says
  <2>8. Reported(k, InternalCommandOperations(i, s, y, x)) =
          Transferred(i, x, k) + (IF y # None THEN To(k, i.receiver, y) ELSE 0)
    BY <2>1, <2>6, InternalSays
  <2>9. c[i] \in Int
    BY <2>6, <2>7, AmountsAssumption DEF To
  <2> QED
    BY <2>4, <2>6, <2>7, <2>8, <2>9
<1>6. \A i \in U : ab[i] = a[i] + b[i] /\ g[i] = ab[i] + c[i]
  OBVIOUS
<1> HIDE DEF m, U, a, b, c, ab, g, says
<1>7. m \in Bijection(U, T)
  BY <1>3, <1>4, RowsRename
<1>8. \A i \in U : ab[i] \in Int /\ g[i] \in Int
  BY <1>5, <1>6
<1>9. \A i \in U : g[i] \in Int /\ g[i] = f[m[i]]
  <2> TAKE i \in U
  <2>1. f[m[i]] = Reported(k, m[i].ops)
    BY <1>2
  <2> QED
    BY <1>3, <1>5, <1>6, <1>8, <2>1
<1> HIDE DEF T
<1>10. /\ IsFiniteSet(T) /\ \A y \in T : f[y] \in Int
       /\ SumFunctionOnSet(f, T) = SumFunction(g)
  BY <1>4, <1>7, <1>9, SumRenamed
<1>11. /\ SumFunction(ab) \in Int /\ SumFunction(c) \in Int
       /\ SumFunction(g) = SumFunction(ab) + SumFunction(c)
  <2>1. \A i \in U : ab[i] \in Int /\ c[i] \in Int /\ g[i] = ab[i] + c[i]
    BY <1>5, <1>6, <1>8
  <2>2. DOMAIN ab = U /\ DOMAIN c = U /\ DOMAIN g = U /\ IsFiniteSet(U)
    BY <1>4
  <2> QED
    BY <2>1, <2>2, SumFunctionPlus
<1>12. /\ SumFunction(a) \in Int /\ SumFunction(b) \in Int
       /\ SumFunction(ab) = SumFunction(a) + SumFunction(b)
  <2>1. \A i \in U : a[i] \in Int /\ b[i] \in Int /\ ab[i] = a[i] + b[i]
    BY <1>5, <1>6
  <2>2. DOMAIN a = U /\ DOMAIN b = U /\ DOMAIN ab = U /\ IsFiniteSet(U)
    BY <1>4
  <2> QED
    BY <2>1, <2>2, SumFunctionPlus
<1> QED
  BY <1>2, <1>10, <1>11, <1>12 DEF a, b, c

\* What /block reports, by the parts of its answer.
LEMMA BlockAddsUp ==
  ASSUME TablesInv, Told, NEW k, NEW feeOf \in [Table("user") -> {None, CreationFee}],
         blockReply = BlockUsers(feeOf) \cup BlockInternals \cup BlockZkapps
  PROVE  /\ SumFunction(UserEffects(k)) \in Int /\ SumFunction(FeesOut(feeOf, k)) \in Int
         /\ SumFunction(ShownEffects(k)) \in Int /\ SumFunction(ShownFailed(k)) \in Int
         /\ SumFunction(ShownFees(k)) \in Int /\ SumFunction(ShownZkapps(k)) \in Int
         /\ ReportedByBlock(k) =
              (SumFunction(UserEffects(k)) + SumFunction(FeesOut(feeOf, k)))
              + ((SumFunction(ShownEffects(k)) + SumFunction(ShownFailed(k)))
                 + SumFunction(ShownFees(k)))
              + SumFunction(ShownZkapps(k))
<1> DEFINE f == [t \in blockReply |-> Reported(k, t.ops)]
           A == BlockUsers(feeOf)
           B == BlockInternals
           C == BlockZkapps
<1>1. /\ \A t \in A : f[t] = Reported(k, t.ops)
      /\ \A t \in B : f[t] = Reported(k, t.ops)
      /\ \A t \in C : f[t] = Reported(k, t.ops)
  OBVIOUS
<1>2. DOMAIN f = A \cup B \cup C
  OBVIOUS
<1>3. ReportedByBlock(k) = SumFunction(f)
  BY DEF ReportedByBlock
<1> HIDE DEF f
<1>4. /\ IsFiniteSet(A) /\ \A t \in A : f[t] \in Int
      /\ SumFunction(UserEffects(k)) \in Int /\ SumFunction(FeesOut(feeOf, k)) \in Int
      /\ SumFunctionOnSet(f, A) = SumFunction(UserEffects(k)) + SumFunction(FeesOut(feeOf, k))
  BY <1>1, UsersAddUp
<1>5. /\ IsFiniteSet(B) /\ \A t \in B : f[t] \in Int
      /\ SumFunction(ShownEffects(k)) \in Int /\ SumFunction(ShownFailed(k)) \in Int
      /\ SumFunction(ShownFees(k)) \in Int
      /\ SumFunctionOnSet(f, B) =
           (SumFunction(ShownEffects(k)) + SumFunction(ShownFailed(k))) + SumFunction(ShownFees(k))
  BY <1>1, InternalsAddUp
<1>6. /\ IsFiniteSet(C) /\ \A t \in C : f[t] \in Int
      /\ SumFunctionOnSet(f, C) = SumFunction(ShownZkapps(k))
  BY <1>1, ZkappsAddUp
<1>7. A \cap B = {} /\ (A \cup B) \cap C = {}
  <2>1. \A t \in A : t.row.table = "user"
    BY DEF BlockUsers, Table
  <2>2. \A t \in B : t.row.table = "internal"
    BY DEF BlockInternals, InternalsShown, Table
  <2>3. \A t \in C : t.row.table = "zkapp"
    BY DEF BlockZkapps, ZkappsShown, ZkappTransaction, Table
  <2> HIDE DEF A, B, C
  <2> QED
    BY <2>1, <2>2, <2>3
<1> HIDE DEF A, B, C
<1>8. SumFunctionOnSet(f, A \cup B) = SumFunctionOnSet(f, A) + SumFunctionOnSet(f, B)
  <2>1. \A t \in A \cup B : f[t] \in Int
    BY <1>4, <1>5
  <2> QED
    BY <1>4, <1>5, <1>7, <2>1, SumUnion
<1>9. SumFunctionOnSet(f, A \cup B \cup C) = SumFunctionOnSet(f, A \cup B) + SumFunctionOnSet(f, C)
  <2>1. \A t \in (A \cup B) \cup C : f[t] \in Int
    BY <1>4, <1>5, <1>6
  <2>2. IsFiniteSet(A \cup B)
    BY <1>4, <1>5, FS_Union
  <2> QED
    BY <1>6, <1>7, <2>1, <2>2, SumUnion
<1>10. SumFunction(f) = SumFunctionOnSet(f, A) + SumFunctionOnSet(f, B) + SumFunctionOnSet(f, C)
  BY <1>2, <1>8, <1>9, SumOfAll
<1>11. SumFunction(ShownZkapps(k)) \in Int
  BY <1>6, SumInt
<1> QED
  BY <1>3, <1>4, <1>5, <1>6, <1>10, <1>11

\* Internal commands that are not shown changed nothing.
LEMMA HiddenInternal ==
  ASSUME TablesInv, NEW i \in Table("internal"), i \notin InternalsShown, NEW k
  PROVE  InternalEffect(rows, i, k) = 0
<1>1. i \in rows /\ InternalShape(i) /\ i.table = "internal"
  BY TablesAre
<1>2. Default(i.receiver) \notin ledger
  BY DEF InternalsShown, AccountIds
<1>3. i.status # "applied"
  BY <1>1, <1>2 DEF TablesInv, MentionInv, Mention
<1>4. ~ ViaCoinbase(i)
  BY <1>1, <1>3 DEF ViaCoinbase, InternalShape
<1> QED
  BY <1>3, <1>4 DEF InternalEffect

\* zkApp commands that are not shown cost their fee, and no more.
LEMMA HiddenZkapp ==
  ASSUME TablesInv, NEW z \in Table("zkapp"), z \notin ZkappsShown, NEW k
  PROVE  /\ To(k, z.fee_payer, z.fee) \in Int
         /\ ZkappEffect(z, k) + To(k, z.fee_payer, z.fee) = 0
<1>1. ZkappShape(z) /\ UpdatesShown(z) = {}
  BY TablesAre DEF ZkappsShown
<1>2. z.fee \in Int
  BY <1>1, AmountsAssumption DEF ZkappShape
<1>3. SumFunction(Gains(z.updates, k)) = 0
  <2>1. SumFunction(Gains(z.updates, k)) = SumFunction(Gains({}, k))
    BY <1>1, GainsShown DEF ZkappShape
  <2>2. DOMAIN Gains({}, k) = {}
    BY DEF Gains
  <2> QED
    BY <2>1, <2>2, SumOfAll, SumEmpty
<1> QED
  BY <1>2, <1>3 DEF ZkappEffect, To

\* The effects of all rows, table by table.
LEMMA EffectsByTable ==
  ASSUME TablesInv, NEW k
  PROVE  SumFunction(Effects(rows, k)) =
           SumFunctionOnSet(Effects(rows, k), Table("user"))
           + (SumFunctionOnSet(Effects(rows, k), Table("internal"))
              + SumFunctionOnSet(Effects(rows, k), Table("zkapp")))
<1> DEFINE U == Table("user")
           I == Table("internal")
           Z == Table("zkapp")
           e == Effects(rows, k)
<1>1. rows = U \cup (I \cup Z)
  BY DEF TablesInv, RowsInv, Shape, Table
<1>2. U \cap (I \cup Z) = {} /\ I \cap Z = {}
  BY DEF Table
<1>3. IsFiniteSet(U) /\ IsFiniteSet(I) /\ IsFiniteSet(Z) /\ IsFiniteSet(I \cup Z)
  BY TablesAre, FS_Union
<1>4. DOMAIN e = rows /\ \A r \in rows : e[r] \in Int
  BY EffectInt DEF Effects, TablesInv, RowsInv
<1> HIDE DEF U, I, Z, e
<1>5. SumFunctionOnSet(e, U \cup (I \cup Z)) = SumFunctionOnSet(e, U) + SumFunctionOnSet(e, I \cup Z)
  BY <1>1, <1>2, <1>3, <1>4, SumUnion
<1>6. SumFunctionOnSet(e, I \cup Z) = SumFunctionOnSet(e, I) + SumFunctionOnSet(e, Z)
  BY <1>1, <1>2, <1>3, <1>4, SumUnion
<1>7. SumFunction(e) = SumFunctionOnSet(e, U) + (SumFunctionOnSet(e, I) + SumFunctionOnSet(e, Z))
  BY <1>1, <1>4, <1>5, <1>6, SumOfAll
<1> QED
  BY <1>7 DEF U, I, Z, e

\* The sum over what is shown of a table, and over what is not.
LEMMA SumShown ==
  ASSUME NEW T, IsFiniteSet(T), NEW S \in SUBSET T, NEW e, \A x \in T : e[x] \in Int,
         NEW g, DOMAIN g = S, \A x \in S : g[x] = e[x]
  PROVE  /\ SumFunctionOnSet(e, T \ S) \in Int /\ SumFunction(g) \in Int
         /\ SumFunctionOnSet(e, T) = SumFunction(g) + SumFunctionOnSet(e, T \ S)
<1>1. IsFiniteSet(S) /\ IsFiniteSet(T \ S) /\ S \cap (T \ S) = {} /\ T = S \cup (T \ S)
  BY FS_Subset
<1>2. SumFunctionOnSet(e, S \cup (T \ S)) = SumFunctionOnSet(e, S) + SumFunctionOnSet(e, T \ S)
  BY <1>1, SumUnion
<1>3. SumFunctionOnSet(g, S) = SumFunctionOnSet(e, S)
  BY <1>1, SumSame
<1>4. SumFunctionOnSet(e, S) \in Int /\ SumFunctionOnSet(e, T \ S) \in Int
  BY <1>1, SumInt
<1> QED
  BY <1>1, <1>2, <1>3, <1>4, SumOfAll

\* What the rows did to the balances, by what /block shows of them.
LEMMA EffectsShown ==
  ASSUME TablesInv, NEW k
  PROVE  /\ SumFunction(UserEffects(k)) \in Int /\ SumFunction(ShownEffects(k)) \in Int
         /\ SumFunction(ShownZkapps(k)) \in Int /\ SumFunction(Effects(rows, k)) \in Int
         /\ HiddenFees(k) \in Int
         /\ SumFunction(Effects(rows, k)) + HiddenFees(k) =
              (SumFunction(UserEffects(k)) + SumFunction(ShownEffects(k)))
              + SumFunction(ShownZkapps(k))
<1> DEFINE U == Table("user")
           I == Table("internal")
           Z == Table("zkapp")
           H == Z \ ZkappsShown
           e == Effects(rows, k)
           fees == [z \in H |-> To(k, z.fee_payer, z.fee)]
           zero == [z \in H |-> e[z] + fees[z]]
<1>1. /\ \A u \in U : e[u] = UserEffect(u, k) /\ e[u] \in Int
      /\ \A i \in I : e[i] = InternalEffect(rows, i, k) /\ e[i] \in Int
      /\ \A z \in Z : e[z] = ZkappEffect(z, k) /\ e[z] \in Int
  <2>1. /\ \A u \in U : u \in rows /\ u.table = "user"
        /\ \A i \in I : i \in rows /\ i.table = "internal"
        /\ \A z \in Z : z \in rows /\ z.table = "zkapp"
    BY DEF Table
  <2>2. /\ \A u \in U : e[u] = UserEffect(u, k)
        /\ \A i \in I : e[i] = InternalEffect(rows, i, k)
        /\ \A z \in Z : e[z] = ZkappEffect(z, k)
    BY <2>1 DEF Effects, Effect
  <2> QED
    BY <2>2, PartsInt
<1>2. /\ IsFiniteSet(U) /\ IsFiniteSet(I) /\ IsFiniteSet(Z)
      /\ InternalsShown \in SUBSET I /\ ZkappsShown \in SUBSET Z
  BY TablesAre
<1>3. SumFunction(e) =
        SumFunctionOnSet(e, U) + (SumFunctionOnSet(e, I) + SumFunctionOnSet(e, Z))
  BY EffectsByTable
<1>4. \A i \in I \ InternalsShown : e[i] = 0
  BY <1>1, HiddenInternal
<1>5. \A z \in H : fees[z] \in Int /\ e[z] + fees[z] = 0
  BY <1>1, HiddenZkapp
<1>6. HiddenFees(k) = SumFunction(fees)
  BY DEF HiddenFees
<1>7. DOMAIN fees = H /\ \A z \in H : zero[z] = e[z] + fees[z]
  OBVIOUS
<1> HIDE DEF e, fees, zero
<1>8. SumFunctionOnSet(e, U) = SumFunction(UserEffects(k)) /\ SumFunction(UserEffects(k)) \in Int
  <2>1. DOMAIN UserEffects(k) = U /\ \A u \in U : UserEffects(k)[u] = e[u]
    BY <1>1 DEF UserEffects
  <2>2. SumFunctionOnSet(UserEffects(k), U) = SumFunctionOnSet(e, U)
    BY <1>1, <1>2, <2>1, SumSame
  <2>3. SumFunctionOnSet(e, U) \in Int
    BY <1>1, <1>2, SumInt
  <2> QED
    BY <2>1, <2>2, <2>3, SumOfAll
<1>9. SumFunctionOnSet(e, I) = SumFunction(ShownEffects(k)) /\ SumFunction(ShownEffects(k)) \in Int
  <2> DEFINE g == ShownEffects(k)
             S == InternalsShown
  <2>1. DOMAIN g = S /\ \A i \in S : g[i] = e[i]
    BY <1>1, <1>2 DEF ShownEffects
  <2>2. IsFiniteSet(I \ S) /\ S \in SUBSET I /\ \A i \in I : e[i] \in Int
    BY <1>1, <1>2, FS_Subset
  <2> HIDE DEF g, S, I
  <2>3. /\ SumFunctionOnSet(e, I \ S) \in Int /\ SumFunction(g) \in Int
        /\ SumFunctionOnSet(e, I) = SumFunction(g) + SumFunctionOnSet(e, I \ S)
    BY <1>2, <2>1, <2>2, SumShown
  <2>4. SumFunctionOnSet(e, I \ S) = 0
    BY <1>4, <2>2, SumZero DEF S
  <2>5. SumFunctionOnSet(e, I) = SumFunction(g)
    BY <2>3, <2>4
  <2> QED
    BY <2>3, <2>5 DEF g
<1>10. /\ SumFunction(ShownZkapps(k)) \in Int /\ SumFunctionOnSet(e, H) \in Int
       /\ SumFunctionOnSet(e, Z) = SumFunction(ShownZkapps(k)) + SumFunctionOnSet(e, H)
  <2> DEFINE g == ShownZkapps(k)
             S == ZkappsShown
  <2>1. DOMAIN g = S /\ \A z \in S : g[z] = e[z]
    BY <1>1, <1>2 DEF ShownZkapps
  <2>2. IsFiniteSet(Z) /\ S \in SUBSET Z /\ \A z \in Z : e[z] \in Int
    BY <1>1, <1>2
  <2> HIDE DEF g, S, Z, H
  <2>3. /\ SumFunctionOnSet(e, Z \ S) \in Int /\ SumFunction(g) \in Int
        /\ SumFunctionOnSet(e, Z) = SumFunction(g) + SumFunctionOnSet(e, Z \ S)
    BY <2>1, <2>2, SumShown
  <2> QED
    BY <2>3 DEF g, S, H
<1>11. SumFunction(fees) \in Int /\ SumFunctionOnSet(e, H) + SumFunction(fees) = 0
  <2>1. IsFiniteSet(H) /\ \A z \in H : e[z] \in Int /\ fees[z] \in Int /\ zero[z] = e[z] + fees[z]
    BY <1>1, <1>2, <1>5, <1>7, FS_Subset
  <2>2. \A z \in H : zero[z] = 0
    BY <1>5, <1>7
  <2> HIDE DEF H
  <2>3. SumFunctionOnSet(zero, H) = SumFunctionOnSet(e, H) + SumFunctionOnSet(fees, H)
    BY <2>1, SumPlus
  <2>4. SumFunctionOnSet(zero, H) = 0
    BY <2>1, <2>2, SumZero
  <2>5. SumFunction(fees) = SumFunctionOnSet(fees, H) /\ SumFunctionOnSet(fees, H) \in Int
    BY <1>7, <2>1, SumOfAll, SumInt
  <2> QED
    BY <2>3, <2>4, <2>5
<1>12. SumFunction(e) \in Int
  BY <1>3, <1>8, <1>9, <1>10
<1>13. SumFunction(e) + SumFunction(fees) =
         (SumFunction(UserEffects(k)) + SumFunction(ShownEffects(k))) + SumFunction(ShownZkapps(k))
  BY <1>3, <1>8, <1>9, <1>10, <1>11
<1> QED
  BY <1>6, <1>8, <1>9, <1>10, <1>11, <1>12, <1>13 DEF e

\* FailedAmounts is the failed part of what is shown.
LEMMA FailedAre ==
  ASSUME TablesInv, NEW k
  PROVE  FailedAmounts(k) = SumFunction(ShownFailed(k)) /\ FailedAmounts(k) \in Int
<1> DEFINE S == InternalsShown
           F == {i \in S : i.status = "failed"}
           e == ShownFailed(k)
           g == [i \in F |-> To(k, i.receiver, i.fee)]
<1>1. IsFiniteSet(S) /\ F \in SUBSET S /\ IsFiniteSet(S \ F)
  BY TablesAre, FS_Subset
<1>2. \A i \in S : i.fee \in Int
  BY TablesAre DEF InternalShape
<1>3. /\ DOMAIN e = S
      /\ \A i \in S : e[i] \in Int
      /\ \A i \in S \ F : e[i] = 0
  BY <1>2 DEF ShownFailed, FailedAmount, To
<1>4. DOMAIN g = F /\ \A i \in F : g[i] = e[i]
  BY DEF ShownFailed, FailedAmount
<1>5. FailedAmounts(k) = SumFunction(g)
  BY DEF FailedAmounts
<1> HIDE DEF S, F, e, g
<1>6. /\ SumFunctionOnSet(e, S \ F) \in Int /\ SumFunction(g) \in Int
      /\ SumFunctionOnSet(e, S) = SumFunction(g) + SumFunctionOnSet(e, S \ F)
  <2>1. IsFiniteSet(S) /\ F \in SUBSET S /\ \A i \in S : e[i] \in Int
    BY <1>1, <1>3
  <2> QED
    BY <1>4, <2>1, SumShown
<1>7. SumFunctionOnSet(e, S \ F) = 0
  BY <1>1, <1>3, SumZero
<1>8. SumFunction(e) = SumFunctionOnSet(e, S)
  BY <1>3, SumOfAll
<1>9. SumFunction(g) = SumFunction(e) /\ SumFunction(g) \in Int
  BY <1>6, <1>7, <1>8
<1> QED
  BY <1>5, <1>9 DEF e

\* The accounts of k that the block created, told apart from those of zkApp
\* commands: only k's account in the default token.
LEMMA OneCreated ==
  ASSUME TablesInv, NEW k \in Keys, ~ Untold(k), NEW a \in Created, a[1] = k
  PROVE  a = Default(k)
<1>1. PICK c \in created : c.account = a
  BY DEF Created
<1>2. c.by # "zkapp"
  BY <1>1 DEF Untold
<1>3. a[2] = DefaultToken /\ a \in Accounts
  BY <1>1, <1>2 DEF TablesInv, CreatedInv, FirstInv, Created
<1> QED
  BY <1>3 DEF Accounts, Default

\* least(..) finds the command that created an account, and no other command
\* of its transaction has that receiver.
Creator(k, c, r) ==
  /\ r \in rows /\ r.table = c.by /\ r.table \in {"user", "internal"}
  /\ r.status = "applied" /\ r.receiver = k /\ FirstMention(k) = r.seq
  /\ \A s \in rows : s.seq = r.seq /\ s.receiver = k => s = r

\* Any account that a user or an internal command created has its creator.
LEMMA FirstMentionIs ==
  ASSUME TablesInv, NEW k, NEW c \in created, c.account = Default(k), c.by # "zkapp"
  PROVE  \E r : Creator(k, c, r)
<1>1. c.account[1] = k
  BY DEF Default
<1>2. PICK r \in rows : /\ Mention(r) /\ r.receiver = k /\ r.table = c.by
                        /\ \A s \in rows : Mention(s) /\ s.receiver = k => r.seq <= s.seq
  BY <1>1 DEF TablesInv, CreatedInv, FirstInv
<1> DEFINE mentions == {m.seq : m \in {m \in Table("user") \cup Table("internal") :
                                         m.receiver = k /\ m.status = "applied"}}
<1>3. r.seq \in mentions
  BY <1>2 DEF Mention, Table
<1>4. \A n \in mentions : r.seq <= n /\ n \in Int
  BY <1>2 DEF Mention, Table, TablesInv, RowsInv
<1>5. FirstMention(k) = Min(mentions)
  BY <1>3 DEF FirstMention
<1> HIDE DEF mentions
<1>6. Min(mentions) = r.seq
  <2>1. \A x \in mentions : (\A y \in mentions : x <= y) => x = r.seq
    BY <1>3, <1>4
  <2> QED
    BY <1>3, <1>4, <2>1 DEF Min
<1>7. \A s \in rows : s.seq = r.seq /\ s.receiver = k => s = r
  BY <1>2 DEF TablesInv, SequenceInv
<1> QED
  BY <1>2, <1>5, <1>6, <1>7 DEF Creator, Mention

\* A user command that is not the first to mention k takes no fee off it.
LEMMA UserFeeNone ==
  ASSUME TablesInv, NEW k \in Keys, ~ Untold(k),
         NEW u \in Table("user"), NEW fee \in UserFees(u),
         ~ (/\ u.receiver = k /\ u.status = "applied"
            /\ Default(k) \in Created /\ u.seq = FirstMention(k))
  PROVE  UserFee(u, fee, k) = 0
<1> SUFFICES ASSUME u.receiver = k, u.status = "applied"
             PROVE  fee = None
  BY DEF UserFee, To
<1>1. CASE IdsOf(k) = {}
  BY <1>1 DEF UserFees
<1>2. CASE IdsOf(k) # {}
  <2>1. PICK a \in IdsOf(k) : fee = FeeIfCreated(u, a)
    BY <1>2 DEF UserFees
  <2>2. a \in Created => a = Default(k)
    BY OneCreated DEF IdsOf
  <2> QED
    BY <2>1, <2>2 DEF FeeIfCreated
<1> QED
  BY <1>1, <1>2

\* The one that is, if k has one account, takes it.
LEMMA UserFeeSome ==
  ASSUME NEW k, NEW u, NEW fee \in UserFees(u), IdsOf(k) = {Default(k)},
         u.receiver = k, u.status = "applied", Default(k) \in Created, u.seq = FirstMention(k)
  PROVE  UserFee(u, fee, k) = - CreationFee
<1>1. fee = CreationFee
  BY DEF UserFees, FeeIfCreated
<1>2. CreationFee # None
  BY AmountsAssumption, NoneAssumption
<1> QED
  BY <1>1, <1>2 DEF UserFee, To

\* An internal command adds the fee if it is the first to mention k.
LEMMA InternalFeeIs ==
  ASSUME NEW i, NEW k
  PROVE  InternalFee(i, k) =
           IF i.receiver = k /\ Default(k) \in Created /\ i.seq = FirstMention(k)
           THEN CreationFee ELSE 0
<1>1. CreationFee # None
  BY AmountsAssumption, NoneAssumption
<1> QED
  BY <1>1 DEF InternalFee, FeeIfCreated, To

\* The account creation fees that /block takes off k's account and puts on it.
LEMMA FeesAddUp ==
  ASSUME TablesInv, NEW k \in Keys, ~ Untold(k),
         NEW feeOf \in [Table("user") -> {None, CreationFee}],
         \A u \in Table("user") : feeOf[u] \in UserFees(u)
  PROVE  /\ TurnedFees(k) \in Int
         /\ SumFunction(FeesOut(feeOf, k)) + SumFunction(ShownFees(k)) =
              TurnedFees(k) - (IF PaidFor(k) THEN CreationFee ELSE 0)
<1> DEFINE U == Table("user")
           S == InternalsShown
           f == FeesOut(feeOf, k)
           g == ShownFees(k)
           first(x) == /\ x.receiver = k /\ x.status = "applied"
                       /\ Default(k) \in Created /\ x.seq = FirstMention(k)
           paid(i) == i.receiver = k /\ Default(k) \in Created /\ i.seq = FirstMention(k)
<1>1. IsFiniteSet(U) /\ IsFiniteSet(S) /\ DOMAIN f = U /\ DOMAIN g = S /\ CreationFee \in Int
  BY TablesAre, AmountsAssumption DEF FeesOut, ShownFees
<1>2. \A u \in U : u \in rows /\ u.table = "user"
  BY DEF Table
<1>3. \A i \in S : i \in rows /\ i.table = "internal"
  BY DEF InternalsShown, Table
<1>4. \A u \in U : ~ first(u) => f[u] = 0
  BY UserFeeNone DEF FeesOut
<1>5. \A i \in S : g[i] = IF paid(i) THEN CreationFee ELSE 0
  BY InternalFeeIs DEF ShownFees
<1>6. TurnedFees(k) = IF [account |-> Default(k), by |-> "internal"] \in created
                      THEN 2 * CreationFee ELSE 0
  BY DEF TurnedFees
<1>7. CASE Default(k) \notin Created
  <2>1. \A u \in U : f[u] = 0
    BY <1>4, <1>7
  <2>2. \A i \in S : g[i] = 0
    BY <1>5, <1>7
  <2>3. ~ PaidFor(k) /\ [account |-> Default(k), by |-> "internal"] \notin created
    BY <1>7 DEF PaidFor, Created
  <2> HIDE DEF f, g, U, S
  <2>4. SumFunction(f) = 0
    BY <1>1, <2>1, SumOfAll, SumZero
  <2>5. SumFunction(g) = 0
    BY <1>1, <2>2, SumOfAll, SumZero
  <2> QED
    BY <1>6, <2>3, <2>4, <2>5 DEF f, g
<1>8. CASE Default(k) \in Created
  <2>1. PICK c \in created : c.account = Default(k)
    BY <1>8 DEF Created
  <2>2. c.by # "zkapp" /\ Default(k)[1] = k
    BY <2>1 DEF Untold, Default
  <2>3. PaidFor(k)
    BY <2>1, <2>2 DEF PaidFor
  <2>4. PICK r : Creator(k, c, r)
    BY <2>1, <2>2, FirstMentionIs
  <2>5. c = [account |-> Default(k), by |-> c.by]
    BY <2>1 DEF TablesInv, CreatedInv
  <2>6. \A s \in rows : s.seq = FirstMention(k) /\ s.receiver = k => s = r
    BY <2>4 DEF Creator
  <2>7. c.by \in {"user", "internal"} /\ r.table = c.by
    BY <2>4 DEF Creator
  <2>8. CASE c.by = "user"
    <3>1. IdsOf(k) = {Default(k)}
      BY <2>5, <2>8 DEF Untold
    <3>2. r \in U /\ first(r)
      BY <1>8, <2>4, <2>8 DEF Creator, Table
    <3>3. f[r] = - CreationFee
      BY <3>1, <3>2, UserFeeSome DEF FeesOut
    <3>4. \A u \in U : u # r => f[u] = 0
      BY <1>2, <1>4, <2>6
    <3>5. \A i \in S : g[i] = 0
      BY <1>3, <1>5, <2>6, <2>7, <2>8
    <3>6. [account |-> Default(k), by |-> "internal"] \notin created
      <4> SUFFICES ASSUME [account |-> Default(k), by |-> "internal"] \in created
                   PROVE  FALSE
        OBVIOUS
      <4>1. c = [account |-> Default(k), by |-> "internal"]
        BY <2>1 DEF TablesInv, CreatedInv
      <4> QED
        BY <2>8, <4>1
    <3> HIDE DEF f, g, U, S, first
    <3>7. SumFunction(f) = - CreationFee
      <4>1. f[r] \in Int
        BY <1>1, <3>3
      <4>2. SumFunctionOnSet(f, U) = f[r]
        BY <1>1, <3>2, <3>4, <4>1, SumOne
      <4> QED
        BY <1>1, <3>3, <4>2, SumOfAll
    <3>8. SumFunction(g) = 0
      BY <1>1, <3>5, SumOfAll, SumZero
    <3> QED
      BY <1>1, <1>6, <2>3, <3>6, <3>7, <3>8 DEF f, g
  <2>9. CASE c.by = "internal"
    <3>1. [account |-> Default(k), by |-> "internal"] \in created
      BY <2>5, <2>9
    <3>2. r \in S
      <4>1. r \in Table("internal") /\ Default(r.receiver) \in ledger
        BY <2>4, <2>9 DEF Creator, Table, TablesInv, MentionInv, Mention
      <4> QED
        BY <4>1 DEF InternalsShown, AccountIds
    <3>3. g[r] = CreationFee
      BY <1>5, <1>8, <2>4, <3>2 DEF Creator
    <3>4. \A i \in S : i # r => g[i] = 0
      BY <1>3, <1>5, <2>6
    <3>5. \A u \in U : f[u] = 0
      BY <1>2, <1>4, <2>6, <2>7, <2>9
    <3> HIDE DEF f, g, U, S
    <3>6. SumFunction(g) = CreationFee
      <4>1. g[r] \in Int
        BY <1>1, <3>3
      <4>2. SumFunctionOnSet(g, S) = g[r]
        BY <1>1, <3>2, <3>4, <4>1, SumOne
      <4> QED
        BY <1>1, <3>3, <4>2, SumOfAll
    <3>7. SumFunction(f) = 0
      BY <1>1, <3>5, SumOfAll, SumZero
    <3> QED
      BY <1>1, <1>6, <2>3, <3>1, <3>6, <3>7 DEF f, g
  <2> QED
    BY <2>7, <2>8, <2>9
<1> QED
  BY <1>7, <1>8

\* Balances and reports are the same parts, put together.
LEMMA InvReconciles ==
  ASSUME LedgerInv
  PROVE  Reconciles
<1> SUFFICES ASSUME blockReply # None, NEW k \in Keys, ~ Untold(k)
             PROVE  ReportedByBlock(k) = change[k] + HiddenFees(k) + FailedAmounts(k) + TurnedFees(k)
  BY DEF Reconciles
<1>1. TablesInv /\ Told
  BY DEF LedgerInv, Untold, Told
<1>2. PICK feeOf \in [Table("user") -> {None, CreationFee}] :
         /\ \A u \in Table("user") : feeOf[u] \in UserFees(u)
         /\ blockReply = BlockUsers(feeOf) \cup BlockInternals \cup BlockZkapps
  BY DEF LedgerInv, BlockInv
<1> DEFINE users == SumFunction(UserEffects(k))
           feesOut == SumFunction(FeesOut(feeOf, k))
           internals == SumFunction(ShownEffects(k))
           failed == SumFunction(ShownFailed(k))
           feesIn == SumFunction(ShownFees(k))
           zkapps == SumFunction(ShownZkapps(k))
           all == SumFunction(Effects(rows, k))
           cost == IF PaidFor(k) THEN CreationFee ELSE 0
<1>3. /\ users \in Int /\ feesOut \in Int /\ internals \in Int
      /\ failed \in Int /\ feesIn \in Int /\ zkapps \in Int
      /\ ReportedByBlock(k) = (users + feesOut) + ((internals + failed) + feesIn) + zkapps
  BY <1>1, <1>2, BlockAddsUp
<1>4. /\ all \in Int /\ HiddenFees(k) \in Int
      /\ all + HiddenFees(k) = (users + internals) + zkapps
  BY <1>1, EffectsShown
<1>5. FailedAmounts(k) = failed
  BY <1>1, FailedAre
<1>6. TurnedFees(k) \in Int /\ feesOut + feesIn = TurnedFees(k) - cost
  BY <1>1, <1>2, FeesAddUp
<1>7. change[k] = all - cost /\ cost \in Int
  BY <1>1, AmountsAssumption DEF TablesInv, ChangeInv
<1> HIDE DEF users, feesOut, internals, failed, feesIn, zkapps, all, cost
<1> QED
  BY <1>3, <1>4, <1>5, <1>6, <1>7

(***************************************************************************)
(* For any block, the successful operations that /block answers with add   *)
(* up to what the block did to every account in the default token:         *)
(* user_commands.sql and internal_commands.sql find the one command that   *)
(* paid for a new account, a fee transfer via coinbase is taken off the    *)
(* coinbase that pays it, and each payment, fee and reward is counted      *)
(* once.  The differences are exactly the fees of zkApp commands that are  *)
(* not shown, the amounts of failed internal commands, and the account     *)
(* creation fees of internal commands, with the sign turned.               *)
(***************************************************************************)
THEOREM LedgerReconciles ==
  LedgerSpec => []Reconciles
BY LedgerInvariant, InvReconciles, PTL
=============================================================================
