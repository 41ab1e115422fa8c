----------------------------- MODULE QueryCache -----------------------------
(***************************************************************************)
(* The query cache of mentatd (src/mentatd/src/cache.rs), the database     *)
(* snapshots (db_cache.rs), and the request handlers that use them: query, *)
(* pull, transact and db of execute_operation (server.rs).                 *)
(*                                                                         *)
(* A slot is one request being served; slots run in parallel.  The cache   *)
(* keeps its entries, the dependencies of an entry and the reverse index   *)
(* behind three locks, taken one after the other, so every region that     *)
(* holds a lock is one step.  PostgreSQL answers a request in one step.    *)
(***************************************************************************)
EXTENDS Integers, Sequences, FiniteSets

CONSTANTS
    Slot,       \* requests served at a time
    Entity,     \* entity ids
    Val,        \* the integers users store; no entity id is one of them
    None,       \* an entity without the attribute
    Queries,    \* the queries clients send, among the ones of Result
    Capacity,   \* entries the cache holds
    TTL,        \* ticks a cached result lives
    SnapTTL,    \* ticks a snapshot lives
    Changes,    \* what a transaction sets: pairs of an entity and a value
    MaxTx,      \* bound: transaction ids
    MaxSnap     \* bound: snapshots created

Untracked == 0      \* UNTRACKED_SENTINEL
Now == 0            \* the basis of a query without a snapshot
ASSUME QueryCacheAssumption ==
    /\ Entity # {} /\ Entity \subseteq Nat \ {0} /\ Val \subseteq Nat \ {0} /\ Entity \cap Val = {}
    /\ None \notin Val
    /\ Queries \subseteq {"ids", "names", "ages", "pull"}
    /\ {Capacity, MaxTx} \subseteq Nat \ {0} /\ {TTL, SnapTTL, MaxSnap} \subseteq Nat

VARIABLES
    hist,      \* the committed versions of the database, in commit order
    entries,   \* the LruCache: key -> entry
    older,     \* its order of use: pairs of a key and one used after it
    deps,      \* dependencies: key -> entity ids
    rev,       \* entity_to_keys, as pairs of an entity id and a key
    snaps,     \* the snapshots: db-id -> basis-t and age
    h,         \* the handler of each slot
    issued     \* the basis-t told to the client for each db-id

vars == <<hist, entries, older, deps, rev, snaps, h, issued>>
index == <<entries, older, deps, rev>>

Key == [q : Queries, t : {Now} \cup 1..MaxTx]
State == [Entity -> Val \cup {None}]

(* A version: the current values, the log, and MAX(tx) of the transactions *)
(* table.  A row of the log is an assertion, or a retraction if v is None. *)
(* Bootstrap has id 1.  Connections take ids in blocks of 100 (the CACHE   *)
(* of partition_tx_seq), so transactions commit in any order of their ids. *)
Row == [tx : 2..MaxTx, e : Entity, v : Val \cup {None}]
Version == [now : State, log : SUBSET Row, basis : 1..MaxTx]
Latest == hist[Len(hist)]
Db == Latest.now
Unused == {t \in 2..MaxTx : \A r \in Latest.log : r.tx # t}
Recorded(t, e, v) ==
    Append(hist, [now   |-> [Db EXCEPT ![e] = v],
                  log   |-> Latest.log \cup {[tx |-> t, e |-> e, v |-> v]},
                  basis |-> IF t > Latest.basis THEN t ELSE Latest.basis])

(* The as-of filter of a pattern: the assertions up to t that no newer one *)
(* up to t supersedes; a retraction supersedes nothing.                    *)
UpTo(log, t) == {r \in log : r.v # None /\ r.tx <= t}
Shown(log, t) == {r \in UpTo(log, t) : \A s \in UpTo(log, t) : s.e = r.e => s.tx <= r.tx}
Past(log, t) ==
    [e \in Entity |-> IF \E r \in Shown(log, t) : r.e = e
                      THEN (CHOOSE r \in Shown(log, t) : r.e = e).v ELSE None]
AsOf(t) == IF t = Now THEN Db ELSE Past(Latest.log, t)

(* What PostgreSQL answers: [:find ?e], [:find ?name], [:find ?age] and    *)
(* the pull of one entity.  A name is a string, an age an integer.         *)
Pulled == CHOOSE e \in Entity : TRUE
Present(d) == {e \in Entity : d[e] # None}
Result(q, d) ==
    CASE q = "ids"   -> Present(d)
      [] q = "names" -> {d[e] : e \in Present(d)}
      [] q = "ages"  -> {d[e] : e \in Present(d)}
      [] q = "pull"  -> {d[Pulled]}

(* The integers of a result, and for a pull the entity as well. *)
DepsOf(q, result) ==
    CASE q = "ids"   -> result
      [] q = "names" -> {}
      [] q = "ages"  -> result
      [] q = "pull"  -> {Pulled} \cup (result \ {None})

-----------------------------------------------------------------------------
(* The LruCache.  The marks of an entry are history: its tracking was      *)
(* removed while it was cached (torn), an invalidation passed between the  *)
(* read of its result and its indexing (late), a commit was not heard of   *)
(* (lost).                                                                 *)

CachedKeys == DOMAIN entries
Extend(f, k, v) == [l \in DOMAIN f \cup {k} |-> IF l = k THEN v ELSE f[l]]
Forget(f, keys) == [k \in DOMAIN f \ keys |-> f[k]]
Without(keys) == {x \in older : x[1] \notin keys /\ x[2] \notin keys}
Used(k, others) == {x \in older : x[1] \in others /\ x[2] \in others} \cup {<<l, k>> : l \in others}
Oldest == {k \in CachedKeys : \A l \in CachedKeys : <<l, k>> \notin older}
Evicts(k) == k \notin CachedKeys /\ Cardinality(CachedKeys) = Capacity
Entry(result, marks) == [res |-> result, age |-> 0, marks |-> marks]
PutEntry(k, others, entry) ==
    /\ entries' = [l \in others \cup {k} |-> IF l = k THEN entry ELSE entries[l]]
    /\ older' = Used(k, others)
Mark(keys, add, del) ==
    [k \in CachedKeys |-> IF k \in keys THEN [entries[k] EXCEPT !.marks = (@ \ del) \cup add] ELSE entries[k]]

Tags(dset) == IF dset = {} THEN {Untracked} ELSE dset
Unindex(k, dset) == rev \ {<<e, k>> : e \in Tags(dset)}

(* A handler: where it is, the key and the db-id of its query, the result, *)
(* whether an invalidation passed since it was read; the removal it makes  *)
(* on the way, and where it goes on after it; the entities its transaction *)
(* changed and the keys it invalidates; the basis-t of a new snapshot.     *)
NoKey == [q |-> "none", t |-> Now]
Idle == [pc |-> "idle", key |-> NoKey, id |-> 0, res |-> {}, late |-> FALSE,
         drop |-> NoKey, dset |-> {}, then |-> "none", changed |-> {}, keys |-> {}, t |-> 0]

At(p, pc) == h[p].pc = pc
Begins(p, k, id) == h' = [h EXCEPT ![p] = [Idle EXCEPT !.pc = "lookup", !.key = k, !.id = id]]
Goto(p, pc) == h' = [h EXCEPT ![p].pc = pc]
DropFirst(p, k, next) == h' = [h EXCEPT ![p].pc = "dropDeps", ![p].drop = k, ![p].then = next]
Resume(p) == h' = [h EXCEPT ![p].pc = h[p].then, ![p].drop = NoKey, ![p].dset = {}, ![p].then = "none"]
Answer(p, result) == h' = [h EXCEPT ![p].pc = "done", ![p].res = result, ![p].late = FALSE]
Ends(p) == h' = [h EXCEPT ![p] = Idle]

-----------------------------------------------------------------------------
(* QueryCache::get *)

Hit(p) ==
    /\ At(p, "lookup")
    /\ LET k == h[p].key IN
        /\ k \in CachedKeys
        /\ entries[k].age <= TTL
        /\ older' = Used(k, CachedKeys \ {k})
        /\ Answer(p, entries[k].res)
    /\ UNCHANGED <<hist, entries, deps, rev, snaps, issued>>

Miss(p) ==
    /\ At(p, "lookup")
    /\ h[p].key \notin CachedKeys
    /\ Goto(p, "database")
    /\ UNCHANGED <<hist, index, snaps, issued>>

Expired(p) ==
    /\ At(p, "lookup")
    /\ LET k == h[p].key IN
        /\ k \in CachedKeys
        /\ entries[k].age > TTL
        /\ entries' = Forget(entries, {k})
        /\ older' = Without({k})
        /\ DropFirst(p, k, "database")
    /\ UNCHANGED <<hist, deps, rev, snaps, issued>>

(* remove_deps_for_key: the dependency map, then the reverse index. *)
DropDeps(p) ==
    /\ At(p, "dropDeps")
    /\ LET k == h[p].drop IN
        /\ deps' = Forget(deps, {k})
        /\ IF k \in DOMAIN deps THEN h' = [h EXCEPT ![p].pc = "dropRev", ![p].dset = deps[k]]
                                ELSE Resume(p)
        /\ entries' = Mark({k}, {"torn"}, {})
    /\ UNCHANGED <<hist, older, rev, snaps, issued>>

DropRev(p) ==
    /\ At(p, "dropRev")
    /\ LET k == h[p].drop IN
        /\ rev' = Unindex(k, h[p].dset)
        /\ entries' = Mark({k}, {"torn"}, {})
    /\ Resume(p)
    /\ UNCHANGED <<hist, older, deps, snaps, issued>>

(* The database answers; the result is stored after the answer is read. *)
ReadDatabase(p) ==
    /\ At(p, "database")
    /\ h' = [h EXCEPT ![p].pc = "insert", ![p].res = Result(h[p].key.q, AsOf(h[p].key.t))]
    /\ UNCHANGED <<hist, index, snaps, issued>>

-----------------------------------------------------------------------------
(* QueryCache::insert_with_deps: remove_reverse_index_for_key reads the    *)
(* dependency map and then clears the reverse index; the entry is put and  *)
(* the dependencies of an evicted entry dropped; add_deps_for_key fills    *)
(* the map and then the reverse index.                                     *)

Insert(p) ==
    /\ At(p, "insert")
    /\ LET k == h[p].key IN
        IF k \in DOMAIN deps THEN h' = [h EXCEPT ![p].pc = "unindex", ![p].dset = deps[k]] ELSE Goto(p, "put")
    /\ UNCHANGED <<hist, index, snaps, issued>>

UnindexOld(p) ==
    /\ At(p, "unindex")
    /\ rev' = Unindex(h[p].key, h[p].dset)
    /\ h' = [h EXCEPT ![p].pc = "put", ![p].dset = {}]
    /\ UNCHANGED <<hist, entries, older, deps, snaps, issued>>

LateMark(p) == IF h[p].late THEN {"late"} ELSE {}

Put(p) ==
    /\ At(p, "put")
    /\ LET k == h[p].key
           entry == Entry(h[p].res, LateMark(p))
       IN  IF Evicts(k)
           THEN \E l \in Oldest : PutEntry(k, CachedKeys \ {l}, entry) /\ DropFirst(p, l, "addDeps")
           ELSE PutEntry(k, CachedKeys \ {k}, entry) /\ Goto(p, "addDeps")
    /\ UNCHANGED <<hist, deps, rev, snaps, issued>>

AddDeps(p) ==
    /\ At(p, "addDeps")
    /\ LET k == h[p].key IN deps' = Extend(deps, k, DepsOf(k.q, h[p].res))
    /\ Goto(p, "addRev")
    /\ UNCHANGED <<hist, entries, older, rev, snaps, issued>>

(* An entry with the same dependencies is tracked again. *)
Mended(p) ==
    LET k == h[p].key
    IN  IF k \in CachedKeys /\ DepsOf(k.q, entries[k].res) = DepsOf(k.q, h[p].res) THEN {"torn"} ELSE {}

(* Mutant: an answer that names no entity is not registered for invalidation. *)
AddRevNoSentinel(p) ==
    /\ At(p, "addRev")
    /\ LET k == h[p].key IN
        /\ rev' = rev \cup {<<e, k>> : e \in DepsOf(k.q, h[p].res)}
        /\ entries' = Mark({k}, LateMark(p), Mended(p))
    /\ Answer(p, h[p].res)
    /\ UNCHANGED <<hist, older, deps, snaps, issued>>

AddRev(p) ==
    /\ At(p, "addRev")
    /\ LET k == h[p].key IN
        /\ rev' = rev \cup {<<e, k>> : e \in Tags(DepsOf(k.q, h[p].res))}
        /\ entries' = Mark({k}, LateMark(p), Mended(p))
    /\ Answer(p, h[p].res)
    /\ UNCHANGED <<hist, older, deps, snaps, issued>>

-----------------------------------------------------------------------------
(* Operation::Query and Operation::Pull.  A pull has no snapshot. *)

LiveSnap(id) == id \in DOMAIN snaps /\ snaps[id].age < SnapTTL

StartQuery(p, q) ==
    /\ At(p, "idle")
    /\ Begins(p, [q |-> q, t |-> Now], 0)
    /\ UNCHANGED <<hist, index, snaps, issued>>

(* Mutant: the key of a snapshot query is that of the current database. *)
StartSnapshotQueryUnkeyed(p, q, id) ==
    /\ At(p, "idle") /\ q # "pull"
    /\ LiveSnap(id)
    /\ Begins(p, [q |-> q, t |-> Now], id)
    /\ UNCHANGED <<hist, index, snaps, issued>>

(* The key of a snapshot query ends in @ and the basis-t of get_basis_t. *)
StartSnapshotQuery(p, q, id) ==
    /\ At(p, "idle") /\ q # "pull"
    /\ LiveSnap(id)
    /\ Begins(p, [q |-> q, t |-> snaps[id].t], id)
    /\ UNCHANGED <<hist, index, snaps, issued>>

SnapshotExpired(p, id) ==
    /\ At(p, "idle")
    /\ ~LiveSnap(id)
    /\ snaps' = Forget(snaps, {id})
    /\ Ends(p)
    /\ UNCHANGED <<hist, index, issued>>

(* Operation::Db and Operation::DbSnapshot: MAX(tx), then create_snapshot. *)
ReadBasis(p) ==
    /\ At(p, "idle")
    /\ Len(issued) + Cardinality({s \in Slot : At(s, "snapshot")}) < MaxSnap
    /\ h' = [h EXCEPT ![p] = [Idle EXCEPT !.pc = "snapshot", !.t = Latest.basis]]
    /\ UNCHANGED <<hist, index, snaps, issued>>

CreateSnapshot(p) ==
    /\ At(p, "snapshot")
    /\ issued' = Append(issued, h[p].t)
    /\ snaps' = Extend(snaps, Len(issued) + 1, [t |-> h[p].t, age |-> 0])
    /\ Ends(p)
    /\ UNCHANGED <<hist, index>>

(* The background task of main.rs. *)
CleanupExpired ==
    /\ snaps' = Forget(snaps, {id \in DOMAIN snaps : ~LiveSnap(id)})
    /\ snaps' # snaps
    /\ UNCHANGED <<hist, index, h, issued>>

-----------------------------------------------------------------------------
(* Operation::Transact: the commit, then invalidate_entities for the       *)
(* entities of tx-data.  tx-data always holds the :db/txInstant datom, so  *)
(* the full clear of the cache is not reached.                             *)

Storing(s) == \/ h[s].pc \in {"insert", "unindex", "put", "addDeps", "addRev"}
              \/ h[s].pc \in {"dropDeps", "dropRev"} /\ h[s].then = "addDeps"
Outdate(p, self) ==
    [s \in Slot |-> IF s = p THEN self ELSE IF Storing(s) THEN [h[s] EXCEPT !.late = TRUE] ELSE h[s]]

Commit(p, t, e, v) ==
    /\ At(p, "idle")
    /\ t \in Unused /\ v # Db[e]
    /\ hist' = Recorded(t, e, v)
    /\ h' = [h EXCEPT ![p] = [Idle EXCEPT !.pc = "invRead", !.changed = {e}]]
    /\ UNCHANGED <<index, snaps, issued>>

(* The transaction commits and the connection breaks before the answer. *)
CommitUnheard(p, t, e, v) ==
    /\ At(p, "idle")
    /\ t \in Unused /\ v # Db[e]
    /\ hist' = Recorded(t, e, v)
    /\ entries' = Mark(CachedKeys, {"lost"}, {})
    /\ h' = Outdate(p, Idle)
    /\ UNCHANGED <<older, deps, rev, snaps, issued>>

KeysOf(ids) == {x[2] : x \in {y \in rev : y[1] \in ids}}

ReadKeys(p, keys) ==
    /\ At(p, "invRead")
    /\ h' = Outdate(p, IF keys = {} THEN Idle ELSE [Idle EXCEPT !.pc = "invPop", !.keys = keys])
    /\ UNCHANGED <<hist, index, snaps, issued>>

(* Mutant: a transaction leaves the entries without dependencies alone. *)
InvalidateReadTrackedOnly(p) == ReadKeys(p, KeysOf(h[p].changed))

InvalidateRead(p) == ReadKeys(p, KeysOf(h[p].changed \cup {Untracked}))

InvalidatePop(p) ==
    /\ At(p, "invPop")
    /\ entries' = Forget(entries, h[p].keys)
    /\ older' = Without(h[p].keys)
    /\ Goto(p, "invDeps")
    /\ UNCHANGED <<hist, deps, rev, snaps, issued>>

InvalidateDeps(p) ==
    /\ At(p, "invDeps")
    /\ deps' = Forget(deps, h[p].keys)
    /\ rev' = {x \in rev : ~(/\ x[2] \in h[p].keys \cap DOMAIN deps
                             /\ x[1] \in Tags(deps[x[2]]))}
    /\ entries' = Mark(h[p].keys, {"torn"}, {})
    /\ Ends(p)
    /\ UNCHANGED <<hist, older, snaps, issued>>

-----------------------------------------------------------------------------
Tick ==
    /\ entries' = [k \in CachedKeys |->
                      [entries[k] EXCEPT !.age = IF @ > TTL THEN @ ELSE @ + 1]]
    /\ snaps' = [id \in DOMAIN snaps |->
                    [snaps[id] EXCEPT !.age = IF @ = SnapTTL THEN @ ELSE @ + 1]]
    /\ <<entries', snaps'>> # <<entries, snaps>>
    /\ UNCHANGED <<hist, older, deps, rev, h, issued>>

Release(p) ==
    /\ At(p, "done")
    /\ Ends(p)
    /\ UNCHANGED <<hist, index, snaps, issued>>

Init ==
    /\ hist = <<[now |-> [e \in Entity |-> None], log |-> {}, basis |-> 1]>>
    /\ entries = << >> /\ older = {} /\ deps = << >> /\ rev = {} /\ snaps = << >>
    /\ h = [p \in Slot |-> Idle]
    /\ issued = << >>

Step(p) ==
    \/ Hit(p) \/ Miss(p) \/ Expired(p) \/ DropDeps(p) \/ DropRev(p) \/ ReadDatabase(p)
    \/ Insert(p) \/ UnindexOld(p) \/ Put(p) \/ AddDeps(p) \/ AddRev(p)
    \/ InvalidateRead(p) \/ InvalidatePop(p) \/ InvalidateDeps(p)
    \/ CreateSnapshot(p) \/ Release(p)

Start(p) ==
    \/ \E q \in Queries : StartQuery(p, q)
    \/ \E q \in Queries, id \in DOMAIN issued : StartSnapshotQuery(p, q, id)
    \/ \E id \in DOMAIN issued : SnapshotExpired(p, id)
    \/ ReadBasis(p)
    \/ \E t \in 2..MaxTx, e \in Entity, v \in Val \cup {None} :
          <<e, v>> \in Changes /\ (Commit(p, t, e, v) \/ CommitUnheard(p, t, e, v))

Next == (\E p \in Slot : Start(p) \/ Step(p)) \/ CleanupExpired \/ Tick

Spec == Init /\ [][Next]_vars

-----------------------------------------------------------------------------
Results == SUBSET (Entity \cup Val \cup {None})
AnyKey == Key \cup {NoKey}
CacheEntry == [res : Results, age : 0..TTL + 1, marks : SUBSET {"torn", "late", "lost"}]
Handler ==
    [pc : {"idle", "lookup", "dropDeps", "dropRev", "database", "insert", "unindex", "put", "addDeps",
           "addRev", "done", "snapshot", "invRead", "invPop", "invDeps"},
     key : AnyKey, id : Nat, res : Results, late : BOOLEAN, drop : AnyKey,
     dset : Results, then : {"none", "database", "addDeps"},
     changed : SUBSET Entity, keys : SUBSET AnyKey, t : 0..MaxTx]

TypeOK ==
    /\ hist \in Seq(Version) /\ Len(hist) \in 1..MaxTx
    /\ CachedKeys \subseteq Key /\ \A k \in CachedKeys : entries[k] \in CacheEntry
    /\ Cardinality(CachedKeys) <= Capacity
    /\ older \subseteq CachedKeys \X CachedKeys
    /\ \A k, l \in CachedKeys : k # l => (<<k, l>> \in older <=> <<l, k>> \notin older)
    /\ DOMAIN deps \subseteq Key
    /\ \A k \in DOMAIN deps : deps[k] \subseteq Entity \cup Val
    /\ rev \subseteq ({Untracked} \cup Entity \cup Val) \X Key
    /\ DOMAIN snaps \subseteq DOMAIN issued
    /\ issued \in Seq(1..MaxTx)
    /\ h \in [Slot -> Handler]

(* No request is being served. *)
Quiet == \A p \in Slot : h[p].pc \in {"idle", "done"}
Tracked(k) == \A e \in Tags(DepsOf(k.q, entries[k].res)) : <<e, k>> \in rev
Current(k) == entries[k].res = Result(k.q, Db)

(* A query on a database value answers what the as-of filter shows at the  *)
(* basis-t the client was told with its db-id, on a version of the log     *)
(* since that transaction committed, whatever was committed, cached,       *)
(* invalidated or expired (server.rs: the @t of the cache key and asOf).   *)
(* So two answers on one db-id differ only if a transaction with a lower   *)
(* id committed between them.                                              *)
SnapshotAnswersAsOf ==
    \A p \in Slot : (At(p, "done") /\ h[p].id # 0) =>
        LET t == issued[h[p].id]
        IN  \E n \in 1..Len(hist) : /\ hist[n].basis >= t
                                    /\ h[p].res = Result(h[p].key.q, Past(hist[n].log, t))

(* server.rs, Operation::Db: "subsequent queries using this db value see a *)
(* consistent view, even if new transactions are committed in the          *)
(* meantime".  It does not hold: a lower id may commit late.               *)
SnapshotsConsistent ==
    \A p, s \in Slot : (/\ At(p, "done") /\ At(s, "done") /\ h[p].id = h[s].id /\ h[p].id # 0
                        /\ h[p].key.q = h[s].key.q)
                        => h[p].res = h[s].res

(* When no request runs, a cached entry is reachable from the index        *)
(* through everything it depends on, unless a removal of the same key was  *)
(* between its two locks while the entry was stored.                       *)
TrackedUnlessTorn == Quiet => \A k \in CachedKeys : Tracked(k) \/ "torn" \in entries[k].marks

(* When no request runs, an entry without dependencies (cache.rs: depends  *)
(* on everything), or a pull of the entity it depends on, shows the        *)
(* current database, unless it was stored across an invalidation, lost     *)
(* its tracking to a race, or the answer of a commit was lost.             *)
ConservativeEntriesCurrent ==
    Quiet => \A k \in CachedKeys : (k.t = Now /\ k.q \in {"names", "pull"})
                => Current(k) \/ entries[k].marks # {}

(* cache.rs: "only transactions that touch those entities will invalidate  *)
(* the entry.  Entries inserted without dependencies are invalidated on    *)
(* every transaction": a cached entry can be found by an invalidation.     *)
EntriesStayTracked == Quiet => \A k \in CachedKeys : Tracked(k)

(* server.rs, extract_result_entities: "never misses a true dependency":   *)
(* with no request running and no race behind it, every entry shows the    *)
(* current database.                                                       *)
NeverMissesDependency ==
    Quiet => \A k \in CachedKeys : k.t = Now => Current(k) \/ entries[k].marks # {}
=============================================================================
