------------------------------- MODULE Upserts -------------------------------
(***************************************************************************)
(* Upsert resolution for :db.unique/identity attributes, the algorithm     *)
(* between Pass 2 and insert_datoms of execute_transaction_inner.  The     *)
(* BTreeMap upsert_remaps is a total function on entities; an entity with  *)
(* no entry is mapped to itself.  The code never inserts a self-entry.     *)
(***************************************************************************)
EXTENDS Datoms, Sequences

Remaps == [Entity -> Entity]

NoRemaps == [x \in Entity |-> x]

\* upsert_remaps.len()
Entries(m) == Cardinality({x \in Entity : m[x] # x})

\* Phase A looks every asserted identity value up in the log; the result is the
\* entity of an earlier assertion of the value, or d.e when there is none.
DbOwner(L, d) ==
    IF d.a \in UniqueIdentity /\ Owners(L, d.a, d.v) # {}
    THEN CHOOSE o \in Owners(L, d.a, d.v) : TRUE
    ELSE d.e

\* The positions of adds at which Phase A remaps entity x.
RemappedAt(L, adds, x) ==
    {i \in DOMAIN adds : adds[i].e = x /\ DbOwner(L, adds[i]) # x}

\* "Conflicting upsert": two identity values of one entity have different owners.
ConflictingUpsert(L, adds) ==
    \E x \in Entity : \E i, j \in RemappedAt(L, adds, x) :
        DbOwner(L, adds[i]) # DbOwner(L, adds[j])

PhaseA(L, adds) ==
    [x \in Entity |->
        IF RemappedAt(L, adds, x) = {} THEN x
        ELSE DbOwner(L, adds[CHOOSE i \in RemappedAt(L, adds, x) : TRUE])]

\* Follow the chain from x for at most len() + 1 hops.
ResolveRoot(m, x) ==
    LET hop[n \in 0..(Entries(m) + 1)] == IF n = 0 THEN x ELSE m[hop[n - 1]]
    IN  hop[Entries(m) + 1]

\* Mutant: Phase B does nothing.
UnifyNothing(m, adds, i, j) == m

\* One comparison of Phase B: the root of the later assertion of an identity
\* value is pointed at the root of the earlier one.
Unify(m, adds, i, j) ==
    LET ri == ResolveRoot(m, adds[i].e)
        rj == ResolveRoot(m, adds[j].e)
    IN  IF /\ i < j
           /\ adds[i].a \in UniqueIdentity
           /\ adds[i].a = adds[j].a
           /\ adds[i].v = adds[j].v
           /\ ri # rj
        THEN [m EXCEPT ![rj] = ri]
        ELSE m

\* Phase B compares all pairs (i, j), i outermost.
PhaseB(m0, adds) ==
    LET n == Len(adds)
        merged[p \in 0..(n * n)] ==
            IF p = 0 THEN m0
            ELSE Unify(merged[p - 1], adds, ((p - 1) \div n) + 1, ((p - 1) % n) + 1)
    IN  merged[n * n]

\* Each entry is pointed at its root, keys in ascending order, in place.
Flatten(m0) ==
    LET flat[x \in 0..MaxEntity] ==
            IF x = 0 THEN m0
            ELSE LET m == flat[x - 1]
                     root == ResolveRoot(m, x)
                 IN  IF root = x THEN m ELSE [m EXCEPT ![x] = root]
    IN  flat[MaxEntity]

\* The whole resolution, from the pending assertions to the final map.
ResolveUpserts(L, adds) == Flatten(PhaseB(PhaseA(L, adds), adds))

\* Apply the map to the entity and, for a reference, to the value.
Remap(m, t) ==
    [e |-> m[t.e],
     a |-> t.a,
     v |-> IF t.v \in Entity THEN m[t.v] ELSE t.v]

\* The positions kept by the deduplication that follows a non-empty map.
Kept(m, adds) ==
    IF m = NoRemaps THEN DOMAIN adds
    ELSE {i \in DOMAIN adds : \A j \in 1..(i - 1) : adds[j] # adds[i]}

\* The map sends no entity, by way of others, back to itself.
Acyclic(m) ==
    \A C \in SUBSET Entity :
        (C # {} /\ \A x \in C : m[x] \in C) => \E x \in C : m[x] = x

=============================================================================
