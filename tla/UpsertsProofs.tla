---------------------------- MODULE UpsertsProofs ---------------------------
(***************************************************************************)
(* What upsert resolution computes, for every log and every list of        *)
(* pending assertions: the map it returns is a map on entities; unless the *)
(* owners Phase A finds form a cycle, it gives all assertions of one       *)
(* identity value the same entity; and without identity values it maps     *)
(* nothing.  From these: in Transact, upserts unify, and                   *)
(* :db/retractEntity leaves nothing of an entity.                          *)
(***************************************************************************)
EXTENDS TransactProofs, FiniteSetTheorems, WellFoundedInduction

-----------------------------------------------------------------------------
(* Counting up *)

\* A set of numbers that holds 0 and with each number the next one, up to b,
\* holds them all.
LEMMA CountUp ==
    ASSUME NEW b \in Nat, NEW P, 0 \in P, \A n \in 1..b : n - 1 \in P => n \in P
    PROVE  b \in P /\ \A n \in 0..b : n \in P
<1>1. PICK R : R = {p \in Nat \X Nat : p[1] < p[2]} /\ IsWellFoundedOn(R, Nat)
  BY Zenon, NatLessThanWellFounded DEF OpToRel
<1>2. SUFFICES ASSUME {n \in 0..b : n \notin P} # {} PROVE FALSE
  OBVIOUS
<1>3. PICK m \in {n \in 0..b : n \notin P} : \A n \in {n \in 0..b : n \notin P} : ~(<<n, m>> \in R)
  BY Zenon, <1>1, <1>2, WFMin
<1>4. m \in 1..b /\ m - 1 \in 0..b /\ <<m - 1, m>> \in R
  BY <1>1, <1>3
<1>5. m - 1 \in P
  BY Zenon, <1>3, <1>4
<1> QED
  BY <1>3, <1>4, <1>5

\* f starts at c, and F leads from each of its values to the next.
Steps(f, c, F, b) == f[0] = c /\ \A n \in 1..b : f[n] = F[<<f[n - 1], n>>]

\* A function defined from its value at 0 by a step from each number to the
\* next exists.
LEMMA StepByStep ==
    ASSUME NEW S, NEW c \in S, NEW b \in Nat, NEW F \in [S \X (1..b) -> S]
    PROVE  \E f \in [0..b -> S] : Steps(f, c, F, b)
<1> DEFINE Good(f, n) == f[0] = c /\ \A i \in 1..n : f[i] = F[<<f[i - 1], i>>]
           P == {n \in 0..b : \E f \in [0..b -> S] : Good(f, n)}
<1>1. 0 \in P
  <2>1. [n \in 0..b |-> c] \in [0..b -> S] /\ Good([n \in 0..b |-> c], 0)
    OBVIOUS
  <2>2. 0 \in 0..b
    OBVIOUS
  <2> HIDE DEF Good
  <2> QED
    BY Zenon, <2>1, <2>2
<1>2. ASSUME NEW n \in 1..b, n - 1 \in P
      PROVE  n \in P
  <2>1. PICK f \in [0..b -> S] : Good(f, n - 1)
    BY Zenon, <1>2
  <2>2. n \in 0..b /\ n - 1 \in 0..b
    OBVIOUS
  <2>3. f[n - 1] \in S
    BY Zenon, <2>2
  <2>4. PICK next \in S : next = F[<<f[n - 1], n>>]
    BY Zenon, <2>3
  <2> DEFINE g == [f EXCEPT ![n] = next]
  <2>5. g \in [0..b -> S]
    BY Zenon, <2>4
  <2>6. g[n] = next /\ \A i \in 0..b : i # n => g[i] = f[i]
    OBVIOUS
  <2>7. g[0] = c
    BY <2>1, <2>6
  <2>8. ASSUME NEW i \in 1..n
        PROVE  g[i] = F[<<g[i - 1], i>>]
    <3>1. i - 1 \in 0..b /\ i - 1 # n /\ i \in 0..b
      OBVIOUS
    <3>2. g[i - 1] = f[i - 1]
      BY Zenon, <2>6, <3>1
    <3>3. CASE i = n
      BY Zenon, <2>4, <2>6, <3>2, <3>3
    <3>4. CASE i # n
      <4>1. i \in 1..(n - 1)
        BY <3>4
      <4> QED
        BY Zenon, <2>1, <2>6, <3>1, <3>2, <3>4, <4>1
    <3> QED
      BY Zenon, <3>3, <3>4
  <2> HIDE DEF g
  <2>9. Good(g, n)
    BY Zenon, <2>7, <2>8
  <2> HIDE DEF Good
  <2> QED
    BY Zenon, <2>2, <2>5, <2>9
<1>3. b \in P
  <2> HIDE DEF P
  <2> QED
    BY Zenon, <1>1, <1>2, CountUp
<1> QED
  BY Zenon, <1>3 DEF Steps

-----------------------------------------------------------------------------
(* Chains *)

\* The entries of a map are finite in number.
LEMMA EntriesCount ==
    ASSUME NEW m \in Remaps
    PROVE  Entries(m) \in Nat /\ IsFiniteSet({x \in Entity : m[x] # x})
<1>1. IsFiniteSet(Entity)
  BY FS_Interval, EntityAssumption DEF Entity
<1> QED
  BY Zenon, <1>1, FS_Subset, FS_CardinalityType DEF Entries

\* resolve_root follows the map from x, one hop at a time.
LEMMA RootChain ==
    ASSUME NEW m \in Remaps, NEW x \in Entity
    PROVE  \E hop \in [0..(Entries(m) + 1) -> Entity] :
               /\ hop[0] = x
               /\ \A n \in 1..(Entries(m) + 1) : hop[n] = m[hop[n - 1]]
               /\ ResolveRoot(m, x) = hop[Entries(m) + 1]
<1> DEFINE b == Entries(m) + 1
           F == [p \in Entity \X (1..b) |-> m[p[1]]]
           Hops(f) == [n \in 0..b |-> IF n = 0 THEN x ELSE m[f[n - 1]]]
<1>1. b \in Nat
  <2>1. Entries(m) \in Nat
    BY Zenon, EntriesCount
  <2> QED
    BY <2>1
<1>2. F \in [Entity \X (1..b) -> Entity]
  BY Zenon DEF Remaps
<1> HIDE DEF b
<1>3. PICK f \in [0..b -> Entity] : Steps(f, x, F, b)
  <2> HIDE DEF F
  <2> QED
    BY Zenon, <1>1, <1>2, StepByStep
<1>4. ASSUME NEW n \in 1..b
      PROVE  F[<<f[n - 1], n>>] = m[f[n - 1]]
  <2>1. n - 1 \in 0..b
    BY <1>1
  <2>2. f[n - 1] \in Entity
    BY Zenon, <1>3, <2>1
  <2> QED
    BY Zenon, <2>1, <2>2
<1>5. f = Hops(f)
  <2> HIDE DEF F
  <2>1. f[0] = x /\ \A n \in 1..b : f[n] = m[f[n - 1]]
    BY <1>3, <1>4, Zenon DEF Steps
  <2>2. \A n \in 0..b : n = 0 \/ n \in 1..b
    BY <1>1
  <2>3. \A n \in 0..b : f[n] = IF n = 0 THEN x ELSE m[f[n - 1]]
    BY Zenon, <2>1, <2>2
  <2> QED
    BY Zenon, <2>3
<1>6. PICK hop : hop = Hops(hop) /\ ResolveRoot(m, x) = hop[b]
  BY <1>5, Zenon DEF ResolveRoot, b
<1>7. hop[0] = x /\ \A n \in 1..b : hop[n] = m[hop[n - 1]]
  BY <1>1, <1>6
<1>8. \A n \in 0..b : n \in {i \in 0..b : hop[i] \in Entity}
  <2> DEFINE P == {i \in 0..b : hop[i] \in Entity}
  <2>1. 0 \in P
    BY <1>1, <1>7
  <2>2. ASSUME NEW n \in 1..b, n - 1 \in P PROVE n \in P
    BY <1>1, <1>7, <2>2 DEF Remaps
  <2> HIDE DEF P
  <2>3. \A n \in 0..b : n \in P
    BY Zenon, <1>1, <2>1, <2>2, CountUp
  <2> QED
    BY Zenon, <2>3 DEF P
<1>9. hop \in [0..b -> Entity]
  BY Zenon, <1>6, <1>8
<1> QED
  BY <1>6, <1>7, <1>9, Zenon DEF b

\* The root of an entity is an entity.
LEMMA RootType ==
    ASSUME NEW m \in Remaps, NEW x \in Entity
    PROVE  ResolveRoot(m, x) \in Entity
<1>1. Entries(m) \in Nat
  BY EntriesCount, Zenon
<1>2. PICK hop \in [0..(Entries(m) + 1) -> Entity] : ResolveRoot(m, x) = hop[Entries(m) + 1]
  BY RootChain
<1> QED
  BY <1>1, <1>2

\* An entity that is not remapped is its own root.
LEMMA RootOfStill ==
    ASSUME NEW m \in Remaps, NEW x \in Entity, m[x] = x
    PROVE  ResolveRoot(m, x) = x
<1> DEFINE b == Entries(m) + 1
<1>1. b \in Nat
  <2>1. Entries(m) \in Nat
    BY Zenon, EntriesCount
  <2> QED
    BY <2>1
<1>2. PICK hop \in [0..b -> Entity] :
          /\ hop[0] = x
          /\ \A n \in 1..b : hop[n] = m[hop[n - 1]]
          /\ ResolveRoot(m, x) = hop[b]
  BY Zenon, RootChain
<1> DEFINE P == {n \in 0..b : hop[n] = x}
<1>3. 0 \in P
  BY <1>1, <1>2
<1>4. ASSUME NEW n \in 1..b, n - 1 \in P PROVE n \in P
  BY <1>1, <1>2, <1>4
<1>5. b \in P
  <2> HIDE DEF P, b
  <2> QED
    BY Zenon, <1>1, <1>3, <1>4, CountUp
<1> QED
  BY Zenon, <1>2, <1>5

-----------------------------------------------------------------------------
(* The phases yield maps on entities *)

\* What Phase A maps an entity to is an owner in the log, or the entity itself.
LEMMA PhaseAType ==
    ASSUME NEW L \in SUBSET LogRow, NEW s \in Seq(Triple)
    PROVE  PhaseA(L, s) \in Remaps
<1>1. ASSUME NEW i \in DOMAIN s
      PROVE  DbOwner(L, s[i]) \in Entity
  <2>1. s[i] \in Triple
    OBVIOUS
  <2>2. Owners(L, s[i].a, s[i].v) \subseteq Entity
    BY Zenon DEF Owners, LogRow
  <2> QED
    BY Zenon, <2>1, <2>2 DEF DbOwner, Triple
<1>2. ASSUME NEW x \in Entity, RemappedAt(L, s, x) # {}
      PROVE  (CHOOSE i \in RemappedAt(L, s, x) : TRUE) \in DOMAIN s
  BY Zenon, <1>2 DEF RemappedAt
<1> QED
  BY Zenon, <1>1, <1>2 DEF PhaseA, Remaps

\* The pair of positions that comparison p of Phase B is about.
Earlier(n, p) == ((p - 1) \div n) + 1
Later(n, p) == ((p - 1) % n) + 1

LEMMA PairsInRange ==
    ASSUME NEW n \in Nat \ {0}, NEW p \in 1..(n * n)
    PROVE  Earlier(n, p) \in Nat \ {0} /\ Later(n, p) \in 1..n
<1>1. Earlier(n, p) \in Nat \ {0}
  BY DEF Earlier
<1>2. Later(n, p) \in 1..n
  BY DEF Later
<1> QED
  BY Zenon, <1>1, <1>2

\* Every pair of positions is compared.
LEMMA PairsCovered ==
    ASSUME NEW n \in Nat \ {0}, NEW i \in 1..n, NEW j \in 1..n
    PROVE  \E p \in 1..(n * n) : Earlier(n, p) = i /\ Later(n, p) = j
<1>1. (i - 1) * n + j \in 1..(n * n)
  OBVIOUS
<1>2. ASSUME NEW q \in Nat, NEW r \in 0..(n - 1)
      PROVE  (q * n + r) % n = r
  OBVIOUS
<1>3. ASSUME NEW q \in Nat, NEW r \in 0..(n - 1)
      PROVE  (q * n + r) \div n = q
  OBVIOUS
<1>4. i - 1 \in Nat /\ j - 1 \in 0..(n - 1)
  OBVIOUS
<1>5. ((i - 1) * n + j) - 1 = (i - 1) * n + (j - 1)
  OBVIOUS
<1>6. ((i - 1) * n + (j - 1)) % n = j - 1 /\ ((i - 1) * n + (j - 1)) \div n = i - 1
  BY Zenon, <1>2, <1>3, <1>4
<1>7. Earlier(n, (i - 1) * n + j) = i /\ Later(n, (i - 1) * n + j) = j
  BY <1>5, <1>6 DEF Earlier, Later
<1> QED
  BY Zenon, <1>1, <1>7

\* One comparison of Phase B maps entities to entities.
LEMMA UnifyType ==
    ASSUME NEW m \in Remaps, NEW s \in Seq(Triple), NEW i \in Nat \ {0}, NEW j \in 1..Len(s)
    PROVE  Unify(m, s, i, j) \in Remaps
<1>1. CASE i < j
  <2>1. s[i] \in Triple /\ s[j] \in Triple
    BY <1>1
  <2>2. ResolveRoot(m, s[i].e) \in Entity /\ ResolveRoot(m, s[j].e) \in Entity
    BY Zenon, <2>1, RootType DEF Triple
  <2> QED
    BY Zenon, <2>2 DEF Unify, Remaps
<1>2. CASE ~(i < j)
  BY Zenon, <1>2 DEF Unify
<1> QED
  BY Zenon, <1>1, <1>2

\* Phase B is one comparison after another.
LEMMA PhaseBSteps ==
    ASSUME NEW m \in Remaps, NEW s \in Seq(Triple)
    PROVE  LET n == Len(s)
           IN  \E merged \in [0..(n * n) -> Remaps] :
                   /\ merged[0] = m
                   /\ \A p \in 1..(n * n) :
                          merged[p] = Unify(merged[p - 1], s, Earlier(n, p), Later(n, p))
                   /\ PhaseB(m, s) = merged[n * n]
<1> DEFINE n == Len(s)
           b == n * n
           F == [q \in Remaps \X (1..b) |-> Unify(q[1], s, Earlier(n, q[2]), Later(n, q[2]))]
           Merge(f) == [p \in 0..b |->
                           IF p = 0 THEN m ELSE Unify(f[p - 1], s, Earlier(n, p), Later(n, p))]
<1>1. n \in Nat /\ b \in Nat
  OBVIOUS
<1>2. ASSUME NEW r \in Remaps, NEW p \in 1..b
      PROVE  Unify(r, s, Earlier(n, p), Later(n, p)) \in Remaps
  <2>1. n \in Nat \ {0}
    BY <1>1
  <2>2. Earlier(n, p) \in Nat \ {0} /\ Later(n, p) \in 1..n
    BY Zenon, <2>1, PairsInRange
  <2> QED
    BY Zenon, <2>2, UnifyType
<1> HIDE DEF n, b
<1>3. F \in [Remaps \X (1..b) -> Remaps]
  BY Zenon, <1>2
<1>4. PICK f \in [0..b -> Remaps] : Steps(f, m, F, b)
  <2> HIDE DEF F
  <2> QED
    BY Zenon, <1>1, <1>3, StepByStep
<1>5. ASSUME NEW p \in 1..b
      PROVE  f[p - 1] \in Remaps /\ f[p] = Unify(f[p - 1], s, Earlier(n, p), Later(n, p))
  <2>1. p - 1 \in 0..b
    BY <1>1
  <2>2. f[p - 1] \in Remaps
    BY Zenon, <1>4, <2>1
  <2>3. f[p] = F[<<f[p - 1], p>>]
    BY <1>4, Zenon DEF Steps
  <2> QED
    BY Zenon, <2>2, <2>3
<1>6. f = Merge(f)
  <2>1. f[0] = m
    BY Zenon, <1>4 DEF Steps
  <2>2. \A p \in 0..b : p = 0 \/ p \in 1..b
    BY <1>1
  <2>3. \A p \in 0..b : f[p] = Merge(f)[p]
    BY Zenon, <1>5, <2>1, <2>2
  <2> QED
    BY Zenon, <1>4, <2>3
<1>7. PICK merged : merged = Merge(merged) /\ PhaseB(m, s) = merged[b]
  BY <1>6, Zenon DEF PhaseB, n, b, Earlier, Later
<1>8. /\ merged[0] = m
      /\ \A p \in 1..b : merged[p] = Unify(merged[p - 1], s, Earlier(n, p), Later(n, p))
  BY <1>1, <1>7
<1>9. \A p \in 0..b : merged[p] \in Remaps
  <2> DEFINE P == {p \in 0..b : merged[p] \in Remaps}
  <2>1. 0 \in P
    BY <1>1, <1>8
  <2>2. ASSUME NEW p \in 1..b, p - 1 \in P PROVE p \in P
    BY <1>1, <1>2, <1>8, <2>2
  <2> HIDE DEF P
  <2>3. \A p \in 0..b : p \in P
    BY Zenon, <1>1, <2>1, <2>2, CountUp
  <2> QED
    BY Zenon, <2>3 DEF P
<1>10. merged \in [0..b -> Remaps]
  BY Zenon, <1>7, <1>9
<1> QED
  BY <1>7, <1>8, <1>10, Zenon DEF b, n

\* One step of the flattening: x is pointed at its root.
Flat(m, x) == IF ResolveRoot(m, x) = x THEN m ELSE [m EXCEPT ![x] = ResolveRoot(m, x)]

\* Flattening is one entity after another.
LEMMA FlattenSteps ==
    ASSUME NEW m \in Remaps
    PROVE  \E flat \in [0..MaxEntity -> Remaps] :
               /\ flat[0] = m
               /\ \A x \in 1..MaxEntity : flat[x] = Flat(flat[x - 1], x)
               /\ Flatten(m) = flat[MaxEntity]
<1> DEFINE b == MaxEntity
           F == [q \in Remaps \X (1..b) |-> Flat(q[1], q[2])]
           Flattened(f) == [x \in 0..b |-> IF x = 0 THEN m ELSE Flat(f[x - 1], x)]
<1>1. b \in Nat
  BY Zenon, EntityAssumption
<1>2. ASSUME NEW r \in Remaps, NEW x \in 1..b
      PROVE  Flat(r, x) \in Remaps
  <2>1. ResolveRoot(r, x) \in Entity
    BY Zenon, RootType DEF Entity
  <2> QED
    BY Zenon, <2>1 DEF Flat, Remaps, Entity
<1>3. F \in [Remaps \X (1..b) -> Remaps]
  BY Zenon, <1>2
<1>4. PICK f \in [0..b -> Remaps] : Steps(f, m, F, b)
  <2> HIDE DEF F
  <2> QED
    BY Zenon, <1>1, <1>3, StepByStep
<1>5. ASSUME NEW x \in 1..b
      PROVE  f[x - 1] \in Remaps /\ f[x] = Flat(f[x - 1], x)
  <2>1. x - 1 \in 0..b
    BY <1>1
  <2>2. f[x - 1] \in Remaps
    BY Zenon, <1>4, <2>1
  <2>3. f[x] = F[<<f[x - 1], x>>]
    BY <1>4, Zenon DEF Steps
  <2> QED
    BY Zenon, <2>2, <2>3
<1>6. f = Flattened(f)
  <2>1. f[0] = m
    BY Zenon, <1>4 DEF Steps
  <2>2. \A x \in 0..b : x = 0 \/ x \in 1..b
    BY <1>1
  <2>3. \A x \in 0..b : f[x] = Flattened(f)[x]
    BY Zenon, <1>5, <2>1, <2>2
  <2> QED
    BY Zenon, <1>4, <2>3
<1>7. PICK flat : flat = Flattened(flat) /\ Flatten(m) = flat[b]
  BY <1>6, Zenon DEF Flatten, Flat
<1>8. flat[0] = m /\ \A x \in 1..b : flat[x] = Flat(flat[x - 1], x)
  BY <1>1, <1>7
<1>9. \A x \in 0..b : flat[x] \in Remaps
  <2> DEFINE P == {x \in 0..b : flat[x] \in Remaps}
  <2>1. 0 \in P
    BY <1>1, <1>8
  <2>2. ASSUME NEW x \in 1..b, x - 1 \in P PROVE x \in P
    BY <1>1, <1>2, <1>8, <2>2
  <2> HIDE DEF P
  <2>3. \A x \in 0..b : x \in P
    BY Zenon, <1>1, <2>1, <2>2, CountUp
  <2> QED
    BY Zenon, <2>3 DEF P
<1>10. flat \in [0..b -> Remaps]
  BY Zenon, <1>7, <1>9
<1> QED
  BY Zenon, <1>7, <1>8, <1>10

\* Upsert resolution maps entities to entities, cycles or not.
LEMMA UpsertsType ==
    ASSUME NEW L \in SUBSET LogRow, NEW s \in Seq(Triple)
    PROVE  ResolveUpserts(L, s) \in Remaps
<1>1. PhaseA(L, s) \in Remaps
  BY Zenon, PhaseAType
<1>2. ASSUME NEW m \in Remaps PROVE PhaseB(m, s) \in Remaps
  <2>1. Len(s) * Len(s) \in Nat
    OBVIOUS
  <2>2. PICK merged \in [0..(Len(s) * Len(s)) -> Remaps] : PhaseB(m, s) = merged[Len(s) * Len(s)]
    BY Zenon, PhaseBSteps
  <2> QED
    BY <2>1, <2>2
<1>3. ASSUME NEW m \in Remaps PROVE Flatten(m) \in Remaps
  <2>1. PICK flat \in [0..MaxEntity -> Remaps] : Flatten(m) = flat[MaxEntity]
    BY Zenon, FlattenSteps
  <2> QED
    BY <2>1, EntityAssumption
<1> QED
  BY Zenon, <1>1, <1>2, <1>3 DEF ResolveUpserts

-----------------------------------------------------------------------------
(* Roots *)

\* rank decreases along the map, and is 0 where the map stands still.
RankOf(m, rank) ==
    \A x \in Entity : IF m[x] = x THEN rank[x] = 0 ELSE rank[m[x]] < rank[x]

Ranked(m) == \E rank \in [Entity -> Nat] : RankOf(m, rank)

\* The ranks need not be more than the entries of the map.
LEMMA RankedByEntries ==
    ASSUME NEW m \in Remaps, Ranked(m)
    PROVE  \E rank \in [Entity -> 0..Entries(m)] : RankOf(m, rank)
<1> DEFINE N == {y \in Entity : m[y] # y}
<1>1. PICK rank \in [Entity -> Nat] : RankOf(m, rank)
  BY Zenon DEF Ranked
<1> DEFINE Below(x) == {y \in N : rank[y] <= rank[x]}
           low == [x \in Entity |-> Cardinality(Below(x))]
<1>2. IsFiniteSet(N) /\ Entries(m) = Cardinality(N) /\ Entries(m) \in Nat
  BY Zenon, EntriesCount DEF Entries
<1>3. ASSUME NEW x \in Entity
      PROVE  IsFiniteSet(Below(x)) /\ Cardinality(Below(x)) \in 0..Entries(m)
  <2>1. Below(x) \in SUBSET N
    BY Zenon
  <2> HIDE DEF N, Below
  <2>2. IsFiniteSet(Below(x)) /\ Cardinality(Below(x)) <= Cardinality(N)
    BY Zenon, <1>2, <2>1, FS_Subset
  <2>3. Cardinality(Below(x)) \in Nat
    BY Zenon, <2>2, FS_CardinalityType
  <2> QED
    BY <1>2, <2>2, <2>3
<1>4. low \in [Entity -> 0..Entries(m)]
  <2> HIDE DEF N, Below
  <2> QED
    BY Zenon, <1>3
<1>5. ASSUME NEW x \in Entity, m[x] = x
      PROVE  low[x] = 0
  <2>1. Below(x) = {}
    BY <1>1, <1>5 DEF RankOf, Remaps
  <2> QED
    BY Zenon, <2>1, FS_EmptySet
<1>6. ASSUME NEW x \in Entity, m[x] # x
      PROVE  low[m[x]] < low[x]
  <2>1. m[x] \in Entity /\ rank[m[x]] < rank[x] /\ rank[m[x]] \in Nat /\ rank[x] \in Nat
    BY Zenon, <1>1, <1>6 DEF RankOf, Remaps
  <2>2. Below(m[x]) \in SUBSET Below(x) /\ x \in Below(x) /\ x \notin Below(m[x])
    BY <1>1, <1>6, <2>1
  <2>3. Below(m[x]) # Below(x)
    BY Zenon, <2>2
  <2> HIDE DEF Below
  <2>4. Cardinality(Below(m[x])) <= Cardinality(Below(x)) /\ Cardinality(Below(m[x])) # Cardinality(Below(x))
    BY Zenon, <1>3, <2>2, <2>3, FS_Subset
  <2>5. Cardinality(Below(m[x])) \in Int /\ Cardinality(Below(x)) \in Int
    BY <1>3, <2>1
  <2>6. Cardinality(Below(m[x])) < Cardinality(Below(x))
    BY <2>4, <2>5
  <2> QED
    BY Zenon, <2>1, <2>6
<1> HIDE DEF low
<1>7. RankOf(m, low)
  BY Zenon, <1>5, <1>6 DEF RankOf
<1> QED
  BY Zenon, <1>4, <1>7

\* resolve_root ends at an entity that is not remapped: the bound on its hops
\* is never what stops it.
LEMMA RootStands ==
    ASSUME NEW m \in Remaps, Ranked(m), NEW x \in Entity
    PROVE  m[ResolveRoot(m, x)] = ResolveRoot(m, x)
<1> DEFINE b == Entries(m) + 1
<1>1. Entries(m) \in Nat
  BY Zenon, EntriesCount
<1>2. PICK rank \in [Entity -> 0..Entries(m)] : RankOf(m, rank)
  BY Zenon, RankedByEntries
<1>3. PICK hop \in [0..b -> Entity] :
          /\ hop[0] = x
          /\ \A n \in 1..b : hop[n] = m[hop[n - 1]]
          /\ ResolveRoot(m, x) = hop[b]
  BY Zenon, RootChain
<1> DEFINE P == {n \in 0..b : m[hop[n]] = hop[n] \/ rank[hop[n]] <= Entries(m) - n}
<1>4. 0 \in P
  BY <1>1, <1>2, <1>3
<1>5. ASSUME NEW n \in 1..b, n - 1 \in P
      PROVE  n \in P
  <2>1. /\ n - 1 \in 0..b /\ n \in 0..b /\ hop[n - 1] \in Entity /\ hop[n] \in Entity
        /\ hop[n] = m[hop[n - 1]]
    <3>1. n - 1 \in 0..b /\ n \in 0..b
      BY <1>1
    <3> QED
      BY <1>3, <3>1, Zenon
  <2>2. rank[hop[n]] \in 0..Entries(m) /\ rank[hop[n - 1]] \in 0..Entries(m)
    BY Zenon, <1>2, <2>1
  <2>3. CASE m[hop[n - 1]] = hop[n - 1]
    BY Zenon, <2>1, <2>3
  <2>4. CASE m[hop[n - 1]] # hop[n - 1]
    <3>1. rank[hop[n]] < rank[hop[n - 1]]
      BY Zenon, <1>2, <2>1, <2>4 DEF RankOf
    <3>2. rank[hop[n - 1]] <= Entries(m) - (n - 1)
      BY Zenon, <1>5, <2>4
    <3>3. rank[hop[n]] <= Entries(m) - n
      BY <1>1, <2>1, <2>2, <3>1, <3>2
    <3> QED
      BY Zenon, <2>1, <3>3
  <2> QED
    BY Zenon, <2>3, <2>4
<1>6. b \in P
  <2>1. b \in Nat
    BY <1>1
  <2> HIDE DEF P, b
  <2> QED
    BY Zenon, <1>4, <1>5, <2>1, CountUp
<1>7. ~(rank[hop[b]] <= Entries(m) - b)
  BY <1>1, <1>2, <1>3
<1> QED
  BY Zenon, <1>3, <1>6, <1>7

\* Along a chain the root does not change.
LEMMA RootAlong ==
    ASSUME NEW m \in Remaps, Ranked(m), NEW x \in Entity
    PROVE  ResolveRoot(m, m[x]) = ResolveRoot(m, x)
<1> DEFINE b == Entries(m) + 1
           y == m[x]
<1>0. y \in Entity
  BY Zenon DEF Remaps
<1>1. Entries(m) \in Nat
  BY EntriesCount, Zenon
<1>2. PICK hop \in [0..b -> Entity] :
          /\ hop[0] = x
          /\ \A n \in 1..b : hop[n] = m[hop[n - 1]]
          /\ ResolveRoot(m, x) = hop[b]
  BY Zenon, RootChain
<1>3. PICK on \in [0..b -> Entity] :
          /\ on[0] = y
          /\ \A n \in 1..b : on[n] = m[on[n - 1]]
          /\ ResolveRoot(m, y) = on[b]
  BY Zenon, <1>0, RootChain
<1> DEFINE P == {n \in 0..Entries(m) : on[n] = hop[n + 1]}
<1>4. 0 \in P
  BY <1>1, <1>2, <1>3
<1>5. ASSUME NEW n \in 1..Entries(m), n - 1 \in P
      PROVE  n \in P
  <2>1. n \in 1..b /\ n + 1 \in 1..b /\ (n + 1) - 1 = n /\ (n - 1) + 1 = n /\ n \in 0..Entries(m)
    BY <1>1
  <2>2. on[n - 1] = hop[n]
    BY Zenon, <1>5, <2>1
  <2> QED
    BY <1>2, <1>3, <2>1, <2>2
<1>6. Entries(m) \in P
  <2> HIDE DEF P
  <2> QED
    BY Zenon, <1>1, <1>4, <1>5, CountUp
<1>7. b \in 1..b /\ b - 1 = Entries(m)
  BY <1>1
<1>8. on[b] = m[hop[b]]
  BY Zenon, <1>3, <1>6, <1>7
<1> QED
  BY Zenon, <1>2, <1>3, <1>8, RootStands

\* The roots are the one function that leaves what is not remapped where it is
\* and does not change along a chain.
LEMMA RootsAre ==
    ASSUME NEW m \in Remaps, Ranked(m), NEW Q \in [Entity -> Entity],
           \A x \in Entity : m[x] = x => Q[x] = x,
           \A x \in Entity : Q[m[x]] = Q[x],
           NEW x \in Entity
    PROVE  ResolveRoot(m, x) = Q[x]
<1> DEFINE b == Entries(m) + 1
<1>1. Entries(m) \in Nat
  BY Zenon, EntriesCount
<1>2. PICK hop \in [0..b -> Entity] :
          /\ hop[0] = x
          /\ \A n \in 1..b : hop[n] = m[hop[n - 1]]
          /\ ResolveRoot(m, x) = hop[b]
  BY ZenonT(30), RootChain
<1> DEFINE P == {n \in 0..b : Q[hop[n]] = Q[x]}
<1>3. 0 \in P
  BY <1>1, <1>2
<1>4. ASSUME NEW n \in 1..b, n - 1 \in P
      PROVE  n \in P
  <2>1. n - 1 \in 0..b /\ n \in 0..b /\ hop[n - 1] \in Entity /\ hop[n] = m[hop[n - 1]]
    BY <1>1, <1>2
  <2> QED
    BY Zenon, <1>4, <2>1
<1>5. b \in Nat
  BY <1>1
<1>6. b \in P
  <2> HIDE DEF P, b
  <2> QED
    BY Zenon, <1>3, <1>4, <1>5, CountUp
<1>7. m[ResolveRoot(m, x)] = ResolveRoot(m, x) /\ ResolveRoot(m, x) \in Entity
  BY Zenon, RootStands, RootType
<1> QED
  BY Zenon, <1>2, <1>6, <1>7

\* A map without cycles can be ranked.
LEMMA AcyclicRanked ==
    ASSUME NEW m \in Remaps, Acyclic(m)
    PROVE  Ranked(m)
<1> DEFINE RankedOn(S, rank) ==
               \A x \in S : /\ m[x] \in S
                            /\ IF m[x] = x THEN rank[x] = 0 ELSE rank[m[x]] < rank[x]
           Part(S) == \E rank \in [Entity -> Nat] : RankedOn(S, rank)
           P == {n \in 0..MaxEntity : \E S \in SUBSET Entity : Cardinality(S) = n /\ Part(S)}
<1>1. IsFiniteSet(Entity) /\ Cardinality(Entity) = MaxEntity
  BY FS_Interval, EntityAssumption DEF Entity
<1>2. 0 \in P
  <2>1. Part({})
    <3>1. [x \in Entity |-> 0] \in [Entity -> Nat] /\ RankedOn({}, [x \in Entity |-> 0])
      BY Zenon
    <3> QED
      BY Zenon, <3>1
  <2> HIDE DEF Part
  <2> QED
    BY <2>1, FS_EmptySet, EntityAssumption
<1>3. ASSUME NEW n \in 1..MaxEntity, n - 1 \in P
      PROVE  n \in P
  <2>1. PICK S \in SUBSET Entity : Cardinality(S) = n - 1 /\ Part(S)
    <3> HIDE DEF Part
    <3> QED
      BY Zenon, <1>3
  <2>2. PICK rank \in [Entity -> Nat] : RankedOn(S, rank)
    BY Zenon, <2>1
  <2>3. IsFiniteSet(S) /\ Entity \ S # {}
    <3>1. IsFiniteSet(S)
      BY Zenon, <1>1, FS_Subset
    <3>2. n - 1 # MaxEntity
      BY EntityAssumption
    <3>3. S # Entity
      BY Zenon, <1>1, <2>1, <3>2
    <3> QED
      BY Zenon, <3>1, <3>3
  <2>4. PICK x \in Entity \ S : m[x] = x \/ m[x] \in S
    <3>1. CASE \E x \in Entity \ S : m[x] \in S
      BY Zenon, <3>1
    <3>2. CASE \A x \in Entity \ S : m[x] \in Entity \ S
      <4>1. \E x \in Entity \ S : m[x] = x
        BY <2>3, <3>2, Zenon DEF Acyclic
      <4> QED
        BY Zenon, <4>1
    <3> QED
      BY Zenon, <3>1, <3>2 DEF Remaps
  <2> DEFINE T == S \cup {x}
             higher == [rank EXCEPT ![x] = IF m[x] = x THEN 0 ELSE rank[m[x]] + 1]
  <2>5. T \in SUBSET Entity /\ Cardinality(T) = n
    <3>1. Cardinality(T) = Cardinality(S) + 1
      BY Zenon, <2>3, <2>4, FS_AddElement
    <3> QED
      BY <2>1, <2>4, <3>1
  <2>6. m[x] \in Entity /\ rank[m[x]] \in Nat
    BY Zenon, <2>2, <2>4 DEF Remaps
  <2>7. higher \in [Entity -> Nat]
    BY <2>6
  <2>8. /\ higher[x] = IF m[x] = x THEN 0 ELSE rank[m[x]] + 1
        /\ \A y \in Entity : y # x => higher[y] = rank[y]
    BY Zenon, <2>2, <2>4
  <2> HIDE DEF higher
  <2>9. RankedOn(T, higher)
    <3>1. ASSUME NEW y \in S
          PROVE  /\ m[y] \in T
                 /\ IF m[y] = y THEN higher[y] = 0 ELSE higher[m[y]] < higher[y]
      BY Zenon, <2>1, <2>2, <2>4, <2>8
    <3>2. m[x] \in T /\ IF m[x] = x THEN higher[x] = 0 ELSE higher[m[x]] < higher[x]
      BY <2>4, <2>6, <2>8
    <3> QED
      BY Zenon, <3>1, <3>2
  <2>10. Part(T)
    BY Zenon, <2>7, <2>9
  <2>11. n \in 0..MaxEntity
    BY EntityAssumption
  <2> HIDE DEF T, Part
  <2> QED
    BY Zenon, <2>5, <2>10, <2>11
<1>4. MaxEntity \in P
  <2> HIDE DEF P
  <2> QED
    BY Zenon, <1>2, <1>3, EntityAssumption, CountUp
<1>5. PICK S \in SUBSET Entity : Cardinality(S) = MaxEntity /\ Part(S)
  <2> HIDE DEF Part
  <2> QED
    BY Zenon, <1>4
<1>6. S = Entity
  BY Zenon, <1>1, <1>5, FS_Subset
<1>7. PICK rank \in [Entity -> Nat] : RankedOn(Entity, rank)
  BY Zenon, <1>5, <1>6
<1> QED
  BY Zenon, <1>7 DEF Ranked, RankOf

-----------------------------------------------------------------------------
(* What the phases do to the roots *)

\* j is m with the root rj pointed at the root ri.
Joins(m, ri, rj, j) == ri # rj /\ m[ri] = ri /\ m[rj] = rj /\ j = [m EXCEPT ![rj] = ri]

\* In j, ri is the root of all that rj was the root of in m.
RootsJoined(m, ri, rj, j) ==
    \A x \in Entity : ResolveRoot(j, x) = IF ResolveRoot(m, x) = rj THEN ri ELSE ResolveRoot(m, x)

\* Pointing one root at another makes it the root of all that the first was
\* the root of.
LEMMA Joined ==
    ASSUME NEW m \in Remaps, Ranked(m), NEW ri \in Entity, NEW rj \in Entity,
           NEW j, Joins(m, ri, rj, j)
    PROVE  j \in Remaps /\ Ranked(j) /\ RootsJoined(m, ri, rj, j)
<1> DEFINE R == [x \in Entity |-> ResolveRoot(m, x)]
           Q == [x \in Entity |-> IF R[x] = rj THEN ri ELSE R[x]]
<1>0. ri # rj /\ m[ri] = ri /\ m[rj] = rj
  BY Zenon DEF Joins
<1>1. j \in Remaps /\ j[rj] = ri /\ \A x \in Entity : x # rj => j[x] = m[x]
  BY Zenon DEF Remaps, Joins
<1>2. R \in [Entity -> Entity] /\ \A x \in Entity : R[m[x]] = R[x] /\ (m[x] = x => R[x] = x)
  <2>1. ASSUME NEW x \in Entity
        PROVE  R[x] \in Entity /\ R[m[x]] = R[x]
    BY Zenon, RootType, RootAlong DEF Remaps
  <2>2. ASSUME NEW x \in Entity, m[x] = x
        PROVE  R[x] = x
    BY Zenon, <2>2, RootOfStill
  <2> QED
    BY Zenon, <2>1, <2>2
<1>3. \A x \in Entity : R[x] = ResolveRoot(m, x)
  BY Zenon
<1> HIDE DEF R
<1>4. PICK rank \in [Entity -> Nat] : RankOf(m, rank)
  BY Zenon DEF Ranked
<1> DEFINE higher == [x \in Entity |-> IF R[x] = rj THEN rank[x] + 1 ELSE rank[x]]
<1>5. Ranked(j)
  <2>1. higher \in [Entity -> Nat]
    BY <1>4
  <2>2. ASSUME NEW x \in Entity
        PROVE  IF j[x] = x THEN higher[x] = 0 ELSE higher[j[x]] < higher[x]
    <3>1. CASE x = rj
      <4>1. rank[ri] = 0 /\ rank[rj] = 0 /\ R[ri] = ri /\ R[rj] = rj
        BY Zenon, <1>0, <1>2, <1>4 DEF RankOf
      <4>2. higher[rj] = 1 /\ higher[ri] = 0
        BY <1>0, <4>1
      <4> QED
        BY SMTT(30), <1>0, <1>1, <3>1, <4>2
    <3>2. CASE x # rj /\ m[x] = x
      BY Zenon, <1>1, <1>2, <1>4, <3>2 DEF RankOf
    <3>3. CASE x # rj /\ m[x] # x
      <4>1. m[x] \in Entity /\ R[m[x]] = R[x] /\ rank[m[x]] < rank[x] /\ j[x] = m[x]
        BY Zenon, <1>1, <1>2, <1>4, <3>3 DEF RankOf, Remaps
      <4>2. rank[m[x]] \in Nat /\ rank[x] \in Nat
        BY Zenon, <1>4, <4>1
      <4> QED
        BY <3>3, <4>1, <4>2
    <3> QED
      BY Zenon, <3>1, <3>2, <3>3
  <2> HIDE DEF higher
  <2>3. RankOf(j, higher)
    BY Zenon, <2>2 DEF RankOf
  <2> QED
    BY Zenon, <2>1, <2>3 DEF Ranked
<1>6. Q \in [Entity -> Entity]
  BY Zenon, <1>2
<1>7. \A x \in Entity : j[x] = x => Q[x] = x
  BY Zenon, <1>0, <1>1, <1>2
<1>8. \A x \in Entity : Q[j[x]] = Q[x]
  BY ZenonT(30), <1>0, <1>1, <1>2 DEF Remaps
<1> HIDE DEF Q
<1>9. \A x \in Entity : ResolveRoot(j, x) = Q[x]
  BY SMTT(30), <1>1, <1>5, <1>6, <1>7, <1>8, RootsAre
<1> QED
  BY Zenon, <1>1, <1>3, <1>5, <1>9 DEF Q, RootsJoined

\* Two assertions of one identity value.
SameIdentity(s, i, j) == s[i].a \in UniqueIdentity /\ s[i].a = s[j].a /\ s[i].v = s[j].v

\* A comparison of Phase B separates nothing, and gives the two assertions it
\* compares one root when they are about one identity value.
LEMMA UnifyRoots ==
    ASSUME NEW m \in Remaps, Ranked(m), NEW s \in Seq(Triple),
           NEW i \in Nat \ {0}, NEW j \in 1..Len(s)
    PROVE  LET u == Unify(m, s, i, j)
           IN  /\ Ranked(u)
               /\ \A x, y \in Entity :
                      ResolveRoot(m, x) = ResolveRoot(m, y) => ResolveRoot(u, x) = ResolveRoot(u, y)
               /\ (i < j /\ SameIdentity(s, i, j)) =>
                      ResolveRoot(u, s[i].e) = ResolveRoot(u, s[j].e)
<1> DEFINE u == Unify(m, s, i, j)
           ri == ResolveRoot(m, s[i].e)
           rj == ResolveRoot(m, s[j].e)
<1>1. CASE i < j /\ SameIdentity(s, i, j) /\ ri # rj
  <2>1. s[i].e \in Entity /\ s[j].e \in Entity
    <3>1. s[i] \in Triple /\ s[j] \in Triple
      BY <1>1
    <3> QED
      BY Zenon, <3>1 DEF Triple
  <2>2. ri \in Entity /\ rj \in Entity /\ ri # rj /\ m[ri] = ri /\ m[rj] = rj
    BY Zenon, <1>1, <2>1, RootType, RootStands
  <2>3. u = [m EXCEPT ![rj] = ri]
    BY Zenon, <1>1 DEF Unify, SameIdentity
  <2>4. Joins(m, ri, rj, u)
    BY <2>2, <2>3 DEF Joins
  <2> HIDE DEF ri, rj, u
  <2>5. Ranked(u) /\ RootsJoined(m, ri, rj, u)
    BY Zenon, <2>2, <2>4, Joined
  <2>6. ResolveRoot(u, s[i].e) = ResolveRoot(u, s[j].e)
    BY Zenon, <2>1, <2>5 DEF ri, rj, RootsJoined
  <2>7. \A x, y \in Entity :
            ResolveRoot(m, x) = ResolveRoot(m, y) => ResolveRoot(u, x) = ResolveRoot(u, y)
    BY <2>5 DEF RootsJoined
  <2> QED
    BY Zenon, <2>5, <2>6, <2>7 DEF u
<1>2. CASE ~(i < j /\ SameIdentity(s, i, j) /\ ri # rj)
  <2>1. u = m
    BY Zenon, <1>2 DEF Unify, SameIdentity
  <2> QED
    BY Zenon, <1>2, <2>1
<1> QED
  BY Zenon, <1>1, <1>2

\* Phase B gives all assertions of one identity value one root.
LEMMA PhaseBUnifies ==
    ASSUME NEW m \in Remaps, Ranked(m), NEW s \in Seq(Triple)
    PROVE  LET u == PhaseB(m, s)
           IN  /\ u \in Remaps /\ Ranked(u)
               /\ \A i, j \in DOMAIN s :
                      SameIdentity(s, i, j) => ResolveRoot(u, s[i].e) = ResolveRoot(u, s[j].e)
<1> DEFINE n == Len(s)
           b == n * n
<1>1. n \in Nat /\ b \in Nat
  OBVIOUS
<1>2. PICK merged \in [0..b -> Remaps] :
          /\ merged[0] = m
          /\ \A p \in 1..b : merged[p] = Unify(merged[p - 1], s, Earlier(n, p), Later(n, p))
          /\ PhaseB(m, s) = merged[b]
  BY Zenon, PhaseBSteps
<1> DEFINE One(p, q) == (Earlier(n, q) < Later(n, q) /\ SameIdentity(s, Earlier(n, q), Later(n, q))) =>
                            ResolveRoot(merged[p], s[Earlier(n, q)].e) = ResolveRoot(merged[p], s[Later(n, q)].e)
           P == {p \in 0..b : Ranked(merged[p]) /\ \A q \in 1..p : One(p, q)}
<1>3. 0 \in P
  BY <1>1, <1>2
<1>4. ASSUME NEW q \in 1..b
      PROVE  /\ Earlier(n, q) \in Nat \ {0} /\ Later(n, q) \in 1..n
             /\ Earlier(n, q) < Later(n, q) => s[Earlier(n, q)].e \in Entity
             /\ s[Later(n, q)].e \in Entity
  <2>1. n \in Nat \ {0}
    BY <1>1
  <2>2. Earlier(n, q) \in Nat \ {0} /\ Later(n, q) \in 1..n
    BY Zenon, <2>1, PairsInRange
  <2> QED
    BY <2>2, SMTT(30), SMTT(60) DEF Triple
<1>5. ASSUME NEW p \in 1..b, p - 1 \in P
      PROVE  p \in P
  <2> HIDE DEF n, b
  <2>1. p - 1 \in 0..b /\ p \in 0..b /\ merged[p - 1] \in Remaps
    BY <1>1, <1>2
  <2>2. merged[p] = Unify(merged[p - 1], s, Earlier(n, p), Later(n, p))
    BY Zenon, <1>2
  <2>3. Earlier(n, p) \in Nat \ {0} /\ Later(n, p) \in 1..n /\ Ranked(merged[p - 1])
    BY <1>4, <1>5
  <2>4. /\ Ranked(merged[p])
        /\ \A x, y \in Entity :
               ResolveRoot(merged[p - 1], x) = ResolveRoot(merged[p - 1], y)
                   => ResolveRoot(merged[p], x) = ResolveRoot(merged[p], y)
        /\ One(p, p)
    BY <2>1, <2>2, <2>3, UnifyRoots DEF n
  <2>5. ASSUME NEW q \in 1..p
        PROVE  One(p, q)
    <3>1. CASE q = p
      BY <2>4, <3>1
    <3>2. CASE q # p
      <4>1. q \in 1..(p - 1) /\ q \in 1..b
        BY <1>1, <3>2
      <4>2. One(p - 1, q)
        BY Zenon, <1>5, <4>1
      <4> QED
        BY Zenon, <1>4, <2>4, <4>1, <4>2
    <3> QED
      BY Zenon, <3>1, <3>2
  <2> HIDE DEF One
  <2> QED
    BY Zenon, <2>1, <2>4, <2>5
<1>6. b \in P
  <2> HIDE DEF P, b
  <2> QED
    BY <1>1, <1>3, <1>5, CountUp
<1>7. Ranked(merged[b]) /\ merged[b] \in Remaps
  BY Zenon, <1>1, <1>2, <1>6
<1>8. ASSUME NEW i \in DOMAIN s, NEW j \in DOMAIN s, i < j, SameIdentity(s, i, j)
      PROVE  ResolveRoot(merged[b], s[i].e) = ResolveRoot(merged[b], s[j].e)
  <2>1. n \in Nat \ {0} /\ i \in 1..n /\ j \in 1..n
    OBVIOUS
  <2>2. PICK q \in 1..b : Earlier(n, q) = i /\ Later(n, q) = j
    BY Zenon, <2>1, PairsCovered
  <2> HIDE DEF n, b
  <2>3. One(b, q)
    BY <1>6, <2>2
  <2> QED
    BY Zenon, <1>8, <2>2, <2>3
<1>9. ASSUME NEW i \in DOMAIN s, NEW j \in DOMAIN s, SameIdentity(s, i, j)
      PROVE  ResolveRoot(merged[b], s[i].e) = ResolveRoot(merged[b], s[j].e)
  <2>1. i < j \/ i = j \/ j < i
    OBVIOUS
  <2>2. SameIdentity(s, j, i)
    BY Zenon, <1>9 DEF SameIdentity
  <2> HIDE DEF b
  <2> QED
    BY Zenon, <1>8, <1>9, <2>1, <2>2
<1> HIDE DEF b
<1> QED
  BY <1>2, <1>7, <1>9

\* Pointing an entity at its root changes no root.
LEMMA FlatRoots ==
    ASSUME NEW m \in Remaps, Ranked(m), NEW x \in Entity, NEW f, f = Flat(m, x)
    PROVE  /\ f \in Remaps /\ Ranked(f) /\ f[x] = ResolveRoot(m, x)
           /\ \A y \in Entity : ResolveRoot(f, y) = ResolveRoot(m, y)
           /\ \A y \in Entity : y # x => f[y] = m[y]
<1> DEFINE R == [y \in Entity |-> ResolveRoot(m, y)]
<1>1. /\ R \in [Entity -> Entity]
      /\ \A y \in Entity : R[y] = ResolveRoot(m, y)
  BY Zenon, RootType
<1>2. \A y \in Entity : /\ m[y] \in Entity /\ R[m[y]] = R[y] /\ m[R[y]] = R[y] /\ R[R[y]] = R[y]
                        /\ m[y] = y => R[y] = y
  BY ZenonT(30), <1>1, RootAlong, RootStands, RootOfStill DEF Remaps
<1> HIDE DEF R
<1>3. CASE R[x] = x
  <2>1. f = m
    BY <1>1, <1>3 DEF Flat
  <2>2. m[x] = x
    BY <1>2, <1>3
  <2> QED
    BY Zenon, <1>1, <1>3, <2>1, <2>2
<1>4. CASE R[x] # x
  <2>1. f = [m EXCEPT ![x] = R[x]]
    BY <1>1, <1>4, Zenon DEF Flat
  <2>2. f \in Remaps /\ f[x] = R[x] /\ \A y \in Entity : y # x => f[y] = m[y]
    BY <1>1, <2>1, Zenon DEF Remaps
  <2>3. m[x] # x
    BY Zenon, <1>2, <1>4
  <2>4. PICK rank \in [Entity -> Nat] : RankOf(m, rank)
    BY DEF Ranked
  <2>5. rank[R[x]] = 0 /\ rank[x] # 0
    BY <1>1, <1>2, <2>3, <2>4 DEF RankOf
  <2>6. RankOf(f, rank)
    BY <1>1, <1>4, <2>2, <2>4, <2>5 DEF RankOf
  <2>7. Ranked(f)
    BY Zenon, <2>4, <2>6 DEF Ranked
  <2>8. \A y \in Entity : f[y] = y => R[y] = y
    BY Zenon, <1>2, <1>4, <2>2
  <2>9. \A y \in Entity : R[f[y]] = R[y]
    BY <1>2, <2>2
  <2>10. \A y \in Entity : ResolveRoot(f, y) = R[y]
    BY Zenon, <1>1, <2>2, <2>7, <2>8, <2>9, RootsAre
  <2> QED
    BY Zenon, <1>1, <2>2, <2>7, <2>10
<1> QED
  BY Zenon, <1>3, <1>4

\* Flattening maps every entity to its root.
LEMMA FlattenRoots ==
    ASSUME NEW m \in Remaps, Ranked(m)
    PROVE  \A y \in Entity : Flatten(m)[y] = ResolveRoot(m, y)
<1>1. MaxEntity \in Nat
  BY Zenon, EntityAssumption
<1>2. PICK flat \in [0..MaxEntity -> Remaps] :
          /\ flat[0] = m
          /\ \A x \in 1..MaxEntity : flat[x] = Flat(flat[x - 1], x)
          /\ Flatten(m) = flat[MaxEntity]
  BY Zenon, FlattenSteps
<1> DEFINE P == {x \in 0..MaxEntity :
                    /\ Ranked(flat[x])
                    /\ \A y \in Entity : ResolveRoot(flat[x], y) = ResolveRoot(m, y)
                    /\ \A y \in 1..x : flat[x][y] = ResolveRoot(m, y)}
<1>3. 0 \in P
  BY <1>1, <1>2
<1>4. ASSUME NEW x \in 1..MaxEntity, x - 1 \in P
      PROVE  x \in P
  <2>1. /\ x - 1 \in 0..MaxEntity /\ x \in 0..MaxEntity /\ x \in Entity
        /\ flat[x - 1] \in Remaps /\ flat[x] = Flat(flat[x - 1], x)
    BY <1>1, <1>2 DEF Entity
  <2>2. /\ Ranked(flat[x - 1])
        /\ \A y \in Entity : ResolveRoot(flat[x - 1], y) = ResolveRoot(m, y)
        /\ \A y \in 1..(x - 1) : flat[x - 1][y] = ResolveRoot(m, y)
    BY Zenon, <1>4
  <2>3. /\ Ranked(flat[x]) /\ flat[x][x] = ResolveRoot(flat[x - 1], x)
        /\ \A y \in Entity : ResolveRoot(flat[x], y) = ResolveRoot(flat[x - 1], y)
        /\ \A y \in Entity : y # x => flat[x][y] = flat[x - 1][y]
    BY <2>1, <2>2, FlatRoots
  <2>4. ASSUME NEW y \in 1..x
        PROVE  flat[x][y] = ResolveRoot(m, y)
    <3>1. y \in Entity /\ (y = x \/ y \in 1..(x - 1))
      BY <1>1 DEF Entity
    <3> QED
      BY Zenon, <2>1, <2>2, <2>3, <3>1
  <2> QED
    BY Zenon, <2>1, <2>2, <2>3, <2>4
<1>5. MaxEntity \in P
  <2> HIDE DEF P
  <2> QED
    BY Zenon, <1>1, <1>3, <1>4, CountUp
<1> QED
  BY Zenon, <1>2, <1>5 DEF Entity

-----------------------------------------------------------------------------
(* What upsert resolution promises *)

\* Unless the owners that Phase A finds form a cycle, the map that resolution
\* returns sends all assertions of one identity value to one entity, however
\* many entities they were written with and however the values connect them.
THEOREM OneEntityPerIdentity ==
    ASSUME NEW L \in SUBSET LogRow, NEW s \in Seq(Triple), Acyclic(PhaseA(L, s)),
           NEW i \in DOMAIN s, NEW j \in DOMAIN s, SameIdentity(s, i, j)
    PROVE  ResolveUpserts(L, s)[s[i].e] = ResolveUpserts(L, s)[s[j].e]
<1>1. PhaseA(L, s) \in Remaps /\ Ranked(PhaseA(L, s))
  BY Zenon, PhaseAType, AcyclicRanked
<1>2. PICK u : u = PhaseB(PhaseA(L, s), s)
  BY Zenon
<1>3. u \in Remaps /\ Ranked(u) /\ ResolveRoot(u, s[i].e) = ResolveRoot(u, s[j].e)
  BY Zenon, <1>1, <1>2, PhaseBUnifies
<1>4. s[i].e \in Entity /\ s[j].e \in Entity
  <2>1. s[i] \in Triple /\ s[j] \in Triple
    OBVIOUS
  <2> QED
    BY Zenon, <2>1 DEF Triple
<1> QED
  BY Zenon, <1>2, <1>3, <1>4, FlattenRoots DEF ResolveUpserts

\* A transaction that asserts no identity value remaps nothing.
LEMMA NothingRemapped ==
    ASSUME NEW L \in SUBSET LogRow, NEW s \in Seq(Triple),
           \A j \in DOMAIN s : s[j].a \notin UniqueIdentity
    PROVE  ResolveUpserts(L, s) = NoRemaps
<1>1. \A x \in Entity : RemappedAt(L, s, x) = {}
  BY Zenon DEF RemappedAt, DbOwner
<1>2. PhaseA(L, s) = NoRemaps
  BY Zenon, <1>1 DEF PhaseA, NoRemaps
<1>3. NoRemaps \in Remaps /\ Ranked(NoRemaps)
  <2>1. [x \in Entity |-> 0] \in [Entity -> Nat] /\ RankOf(NoRemaps, [x \in Entity |-> 0])
    BY Zenon DEF RankOf, NoRemaps
  <2> QED
    BY Zenon, <2>1 DEF Ranked, NoRemaps, Remaps
<1>4. PhaseB(NoRemaps, s) = NoRemaps
  <2> DEFINE n == Len(s)
             b == n * n
  <2>1. n \in Nat /\ b \in Nat
    OBVIOUS
  <2>2. PICK merged \in [0..b -> Remaps] :
            /\ merged[0] = NoRemaps
            /\ \A p \in 1..b : merged[p] = Unify(merged[p - 1], s, Earlier(n, p), Later(n, p))
            /\ PhaseB(NoRemaps, s) = merged[b]
    BY Zenon, <1>3, PhaseBSteps
  <2> DEFINE P == {p \in 0..b : merged[p] = NoRemaps}
  <2>3. 0 \in P
    BY <2>1, <2>2
  <2>4. ASSUME NEW p \in 1..b, p - 1 \in P
        PROVE  p \in P
    <3>1. n \in Nat \ {0} /\ p \in 0..b
      BY <2>1
    <3>2. Later(n, p) \in DOMAIN s
      BY <3>1, PairsInRange
    <3>3. s[Later(n, p)].a \notin UniqueIdentity
      BY Zenon, <3>2
    <3>4. merged[p] = Unify(NoRemaps, s, Earlier(n, p), Later(n, p))
      BY Zenon, <2>2, <2>4
    <3> HIDE DEF n, b
    <3>5. merged[p] = NoRemaps
      BY <3>3, <3>4, Zenon DEF Unify
    <3> QED
      BY Zenon, <3>1, <3>5
  <2>5. b \in P
    <3> HIDE DEF P, b
    <3> QED
      BY Zenon, <2>1, <2>3, <2>4, CountUp
  <2> QED
    BY Zenon, <2>2, <2>5
<1>5. \A y \in Entity : Flatten(NoRemaps)[y] = y
  BY Zenon, <1>3, FlattenRoots, RootOfStill DEF NoRemaps
<1>6. Flatten(NoRemaps) \in Remaps
  BY Zenon, <1>2, <1>4, UpsertsType DEF ResolveUpserts
<1> QED
  BY Zenon, <1>2, <1>4, <1>5, <1>6 DEF ResolveUpserts, NoRemaps, Remaps

-----------------------------------------------------------------------------
(* Upsert resolution *)

\* Upsert takes the one map that upsert resolution computes.
LEMMA UpsertTakes ==
    ASSUME TypeOK, Upsert
    PROVE  \E m \in Remaps :
              /\ m = ResolveUpserts(wlog, adds)
              /\ adds' = [i \in DOMAIN adds |-> Remap(m, adds[i])]
              /\ rets' = {Remap(m, t) : t \in rets}
              /\ tempids' = [t \in TempId |-> IF tempids[t] = 0 THEN 0 ELSE m[tempids[t]]]
              /\ kept' = Kept(m, adds')
<1>1. ResolveUpserts(wlog, adds) \in Remaps
  BY Zenon, UpsertsType DEF TypeOK
<1> QED
  BY Zenon, <1>1 DEF Upsert

\* Upsert resolution gives all assertions of one identity value the same entity,
\* for every log, every list of tempids and ids, and chains of owners of any length.
THEOREM UpsertsUnify == Spec => UpsertsUnified
<1>1. ASSUME TypeOK, [Next]_vars, pc = "expand", pc' = "insert", Acyclic(PhaseA(wlog, adds)),
             NEW i \in DOMAIN adds, NEW j \in DOMAIN adds, SameIdentity(adds, i, j)
      PROVE  adds'[i].e = adds'[j].e
  <2>1. Upsert
    BY Zenon, <1>1, StepCases
    DEF Begin, EndTx, Preparing, DropDuplicate, Inserting, Insert, Commit, RebuildProjection,
        vars, txVars
  <2>2. PICK m \in Remaps :
          /\ m = ResolveUpserts(wlog, adds)
          /\ adds' = [n \in DOMAIN adds |-> Remap(m, adds[n])]
    BY Zenon, <1>1, <2>1, UpsertTakes
  <2>3. m[adds[i].e] = m[adds[j].e]
    BY <1>1, <2>2, OneEntityPerIdentity, ZenonT(30) DEF TypeOK
  <2> QED
    BY Zenon, <2>2, <2>3 DEF Remap
<1>2. TypeOK /\ [Next]_vars =>
        [(pc = "expand" /\ pc' = "insert" /\ Acyclic(PhaseA(wlog, adds))) =>
            \A i, j \in DOMAIN adds :
                (/\ adds[i].a \in UniqueIdentity
                 /\ adds[i].a = adds[j].a /\ adds[i].v = adds[j].v) => adds'[i].e = adds'[j].e]_vars
  BY Zenon, <1>1 DEF SameIdentity
<1> QED
  BY <1>2, TypeCorrect, PTL DEF Spec, UpsertsUnified

-----------------------------------------------------------------------------
(* :db/retractEntity *)

\* The first n operations have been expanded: what the log asserts about an
\* entity one of them retracts is among the pending retractions.
ClearedUpTo(n) ==
    \A i \in DOMAIN ops :
        (i <= n /\ ops[i].f = "retractEntity" /\ ops[i].e.p = "id") =>
            \A s \in wlog : (s.added /\ s.e = ops[i].e.id) => Key(s) \in rets

NoIdentityAsserted == \A j \in DOMAIN adds : adds[j].a \notin UniqueIdentity

\* Pass 2 has cleared the operations behind it; unless an identity value makes
\* upsert resolution remap them, the retractions survive it, and the batch
\* holds every one of them.
ClearInv ==
    /\ pc = "scan" => k = 1
    /\ pc = "expand" => ClearedUpTo(k - 1)
    /\ pc = "insert" =>
          /\ \A t \in rets : Retracted(t) \in rows
          /\ NoIdentityAsserted => ClearedUpTo(Len(ops))

\* Expanding one more operation keeps what the earlier ones put among the
\* retractions.
LEMMA ClearedNext ==
    ASSUME TypeOK, ClearInv, NEW f, Expand(f), NextOp, rets \subseteq rets',
           ops[k].f = "retractEntity" /\ ops[k].e.p = "id" =>
               \A s \in wlog : (s.added /\ s.e = ops[k].e.id) => Key(s) \in rets'
    PROVE  ClearInv'
<1>1. /\ pc = "expand" /\ pc' = "expand" /\ k \in Nat /\ k' = k + 1
      /\ ops' = ops /\ wlog' = wlog
  BY Zenon DEF Expand, Expanding, NextOp, TypeOK
<1>2. ClearedUpTo(k - 1)
  BY <1>1 DEF ClearInv
<1>3. \A i \in DOMAIN ops : i <= k' - 1 => i <= k - 1 \/ i = k
  BY <1>1 DEF TypeOK
<1>4. (ClearedUpTo(k - 1))'
  BY Zenon, <1>1, <1>2, <1>3 DEF ClearedUpTo
<1> QED
  BY Zenon, <1>1, <1>4 DEF ClearInv

\* An entity is in its own component closure.
LEMMA ClosureHolds ==
    ASSUME NEW L, NEW e \in Entity
    PROVE  e \in ComponentClosure(L, e)
BY Zenon DEF ComponentClosure

\* What execute_retract_entity_recursive adds to the retractions covers the
\* entity the operation names.
LEMMA ClearedEntity ==
    ASSUME TypeOK, ExpandRetractEntity, ops[k].e.p = "id",
           NEW s \in wlog, s.added, s.e = ops[k].e.id
    PROVE  Key(s) \in rets'
<1>1. Resolve(ops[k].e) = ops[k].e.id
  BY DEF Resolve
<1>2. s.e \in Entity
  BY Zenon DEF TypeOK, LogRow
<1>3. s.e \in ComponentClosure(wlog, Resolve(ops[k].e))
  BY Zenon, <1>1, <1>2, ClosureHolds
<1> QED
  BY Zenon, <1>3 DEF ExpandRetractEntity

\* Every step keeps the retractions of the expanded operations together, from
\* Pass 2 to the batch.
LEMMA ClearStep ==
    ASSUME TypeOK, ProjInv, ClearInv, [Next]_vars
    PROVE  ClearInv'
<1>1. CASE \E program \in TxOps, speculative \in BOOLEAN : Begin(program, speculative)
  BY Zenon, <1>1 DEF Begin, ClearInv
<1>2. CASE EndTx
  BY Zenon, <1>2 DEF EndTx, ClearInv
<1>3. ASSUME NEW t, Allocate(t), pc \in {"scan", "expand"}
      PROVE  ClearInv'
  BY SMTT(30), <1>3 DEF Allocate, ClearInv, ClearedUpTo
<1>4. CASE EndScan
  <2>1. pc = "scan" /\ pc' = "expand" /\ k = 1 /\ k' = 1 /\ ops' = ops
    BY Zenon, <1>4 DEF EndScan, ClearInv
  <2>2. \A i \in DOMAIN ops : ~(i <= k' - 1)
    BY <2>1, SMTT(30) DEF TypeOK
  <2> QED
    BY Zenon, <2>1, <2>2 DEF ClearInv, ClearedUpTo
<1>5. CASE ExpandAdd
  BY <1>5, ClearedNext, SMTT(30) DEF ExpandAdd, Expand
<1>6. CASE ExpandRetract
  BY Zenon, <1>6, ClearedNext DEF ExpandRetract, Expand
<1>7. CASE ExpandCas
  BY <1>7, ClearedNext DEF ExpandCas, Expand
<1>8. CASE ExpandRetractEntity
  <2>1. rets \subseteq rets' /\ Expand("retractEntity") /\ NextOp
    BY <1>8 DEF ExpandRetractEntity
  <2> QED
    BY Zenon, <1>8, <2>1, ClearedNext, ClearedEntity
<1>9. CASE Upsert
  <2>1. /\ pc = "expand" /\ pc' = "insert" /\ k > Len(ops) /\ k \in Nat
        /\ ops' = ops /\ wlog' = wlog
        /\ rows' = {Retracted(t) : t \in rets'}
        /\ adds \in Seq(Triple) /\ rets \subseteq Triple /\ wlog \in SUBSET LogRow
    BY Zenon, <1>9 DEF Upsert, Expanded, TypeOK
  <2>2. PICK m \in Remaps :
          /\ m = ResolveUpserts(wlog, adds)
          /\ adds' = [i \in DOMAIN adds |-> Remap(m, adds[i])]
          /\ rets' = {Remap(m, t) : t \in rets}
    BY <1>9, UpsertTakes
  <2>3. ASSUME NoIdentityAsserted'
        PROVE  ClearedUpTo(Len(ops))'
    <3>1. \A j \in DOMAIN adds : adds[j].a \notin UniqueIdentity
      BY Zenon, <2>2, <2>3 DEF NoIdentityAsserted, Remap
    <3>2. m = NoRemaps
      BY SMTT(30), <2>1, <2>2, <3>1, NothingRemapped
    <3>3. ASSUME NEW t \in Triple
          PROVE  Remap(NoRemaps, t) = t
      BY DEF Remap, NoRemaps, Triple
    <3>4. rets' = rets
      BY Zenon, <2>1, <2>2, <3>2, <3>3
    <3>5. ClearedUpTo(k - 1)
      BY <2>1 DEF ClearInv
    <3>6. \A i \in DOMAIN ops : i <= k - 1
      BY <2>1, SMTT(30), SMTT(60) DEF TypeOK
    <3> QED
      BY <2>1, <3>4, <3>5, <3>6, SMTT(30) DEF ClearedUpTo
  <2> QED
    BY <2>1, <2>3 DEF ClearInv
<1>10. CASE DropDuplicate
  BY Zenon, <1>10 DEF DropDuplicate, Inserting, NextDatom, ClearInv, ClearedUpTo, NoIdentityAsserted
<1>11. CASE Insert
  <2>1. pc = "insert" /\ pc' = "insert" /\ UNCHANGED <<ops, adds, rets>>
    BY Zenon, <1>11 DEF Insert, Inserting, NextDatom
  <2>2. wlog' \subseteq wlog
    BY <1>11, <2>1, InsertView DEF ProjInv, Active
  <2>3. rows \subseteq rows'
    BY <1>11, Zenon DEF Insert, InsertSkip, InsertOne, InsertMany, InsertNoHistoryOne, InsertNoHistoryMany
  <2> QED
    BY <2>1, <2>2, <2>3 DEF ClearInv, ClearedUpTo, NoIdentityAsserted
<1>12. CASE Commit
  BY Zenon, <1>12, <1>2 DEF Commit
<1>13. CASE RebuildProjection \/ UNCHANGED vars
  BY SMTT(30), <1>13 DEF RebuildProjection, vars, txVars, ClearInv, ClearedUpTo, NoIdentityAsserted
<1>14. CASE ScanTempid
  BY <1>14, <1>3 DEF ScanTempid
<1>15. CASE AllocateTempid
  BY Zenon, <1>15, <1>3 DEF AllocateTempid, Expanding
<1> QED
  BY SMTT(30), SMTT(60), <1>1, <1>2, <1>4, <1>5, <1>6, <1>7, <1>8, <1>9, <1>10, <1>11, <1>12, <1>13, <1>14, <1>15
  DEF Next, Step, Cancel, Fail, ResolvePlacesFails, CasFails, UpsertFails, Reject, BatchFails,
      RollBackSpeculation

\* Before the first call nothing has been expanded.
LEMMA ClearInitially ==
    ASSUME Init
    PROVE  ClearInv
BY SMTT(30) DEF Init, ClearInv

\* Only a commit adds a transaction.
LEMMA OnlyCommitCommits ==
    ASSUME [Next]_vars, Committing
    PROVE  Commit
BY SMTT(30), StepCases
DEF Committing, Begin, Preparing, Upsert, DropDuplicate, Insert, NextDatom, RebuildProjection,
    vars, dbVars

\* A committed :db/retractEntity leaves nothing of the entity live but what the
\* transaction itself asserts, however the log came about: values the entity
\* held, gave up and took again, components, pruned histories.
THEOREM RetractEntityHolds == Spec => RetractEntityClears
<1>1. Init => TypeOK /\ ProjInv /\ UniqueInv /\ ClearInv
  <2>1. ASSUME Init PROVE UniqueInv
    BY <2>1, Zenon DEF Init, UniqueInv, Active, OneOwner
  <2> QED
    BY SMTT(30), <2>1, ProjInitially, TypeInitially, ClearInitially
<1>2. TypeOK /\ ProjInv /\ UniqueInv /\ ClearInv /\ [Next]_vars
        => (TypeOK /\ ProjInv /\ UniqueInv /\ ClearInv)'
  BY Zenon, TypeStep, ProjStep, UniqueStep, ClearStep
<1>3. ASSUME TypeOK, ProjInv, UniqueInv, ClearInv, [Next]_vars,
             Committing, NoIdentityAsserted,
             NEW i \in DOMAIN ops, ops[i].f = "retractEntity", ops[i].e.p = "id",
             NEW c \in cur', c.e = ops[i].e.id
      PROVE  \E j \in kept : adds[j] = Key(c)
  <2>1. /\ pc = "insert"
        /\ cur' = MaintainProjection(wcur, rows, txid)
    BY <1>3, OnlyCommitCommits, SMTT(30), SMTT(60) DEF Commit, Inserted
  <2>2. CASE \E r \in rows : r.added /\ c = CurAt(r, txid)
    <3>1. PICK r \in rows : r.added /\ c = CurAt(r, txid)
      BY <2>2
    <3>2. Key(c) = Key(r)
      BY <3>1 DEF CurAt, Key
    <3> QED
      BY Zenon, <1>3, <2>1, <3>1, <3>2 DEF UniqueInv
  <2>3. CASE c \in wcur /\ \A r \in rows : Key(r) # Key(c)
    <3>1. wcur = Rebuilt(wlog) /\ wlog \in SUBSET LogRow
      BY SMTT(30), <1>3, <2>1 DEF ProjInv, Active, TypeOK
    <3>2. PICK s \in wlog : s.added /\ c = CurAt(s, s.tx)
      BY SMTT(30), <2>3, <3>1, RebuiltMember
    <3>3. Key(s) = Key(c) /\ s.e = c.e
      BY Zenon, <3>2 DEF CurAt, Key
    <3>4. ClearedUpTo(Len(ops)) /\ i <= Len(ops)
      BY <1>3, <2>1, SMTT(30) DEF ClearInv, TypeOK
    <3>5. Key(s) \in rets
      BY <1>3, <3>2, <3>3, <3>4, SMTT(30) DEF ClearedUpTo
    <3>6. Retracted(Key(s)) \in rows
      BY Zenon, <1>3, <2>1, <3>5 DEF ClearInv
    <3>7. Key(Retracted(Key(s))) = Key(c)
      BY Zenon, <3>3 DEF Key, Retracted
    <3> QED
      BY Zenon, <2>3, <3>6, <3>7
  <2> QED
    BY <1>3, <2>1, <2>2, <2>3, SMTT(30) DEF MaintainProjection
<1>4. TypeOK /\ ProjInv /\ UniqueInv /\ ClearInv /\ [Next]_vars =>
        [(Committing /\ \A j \in DOMAIN adds : adds[j].a \notin UniqueIdentity) =>
            \A i \in DOMAIN ops :
                (ops[i].f = "retractEntity" /\ ops[i].e.p = "id") =>
                    \A c \in cur' : c.e = ops[i].e.id => \E j \in kept : adds[j] = Key(c)]_vars
  BY Zenon, <1>3 DEF NoIdentityAsserted
<1> QED
  BY <1>1, <1>2, <1>4, PTL DEF Spec, RetractEntityClears

=============================================================================
