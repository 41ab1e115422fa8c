-------------------------- MODULE QueryCacheProofs --------------------------
(***************************************************************************)
(* Proofs about QueryCache for any number of requests served at a time,    *)
(* any entities, values, queries, capacity and lifetimes: what a query on  *)
(* a database value answers, which cached entries an invalidation finds,   *)
(* and which ones show the current database.                               *)
(***************************************************************************)
EXTENDS QueryCache, TLAPS

USE DEF Latest

-----------------------------------------------------------------------------
(* Types, and what a db-id and a basis-t stand for *)

\* A request for a query is being served.
Asking(p) ==
    h[p].pc \in {"lookup", "dropDeps", "dropRev", "database", "insert", "unindex", "put", "addDeps",
                 "addRev", "done"}

Typed ==
    /\ hist \in Seq(Version) /\ Len(hist) \in Nat \ {0}
    /\ h \in [Slot -> Handler]
    /\ \A k \in CachedKeys : k \in AnyKey /\ entries[k] \in CacheEntry
    /\ \A k \in DOMAIN deps : deps[k] \in Results
    /\ \A x \in rev : x[2] \in AnyKey
    /\ issued \in Seq(1..MaxTx) /\ \A i \in 1..Len(issued) : issued[i] \in 1..Latest.basis

Snapshot == [t : Nat, age : Nat]

\* Each handler asks about the basis-t its client was told.
Told ==
    /\ \A p \in Slot : Asking(p) => h[p].key \in Key
    /\ \A p \in Slot : h[p].pc \in {"dropDeps", "dropRev"} => h[p].then \in {"database", "addDeps"}
    /\ \A p \in Slot : IF h[p].id = 0 THEN h[p].key.t = Now
                       ELSE h[p].id \in 1..Len(issued) /\ h[p].key.t = issued[h[p].id]
    /\ \A p \in Slot : At(p, "snapshot") => h[p].t \in 1..Latest.basis
    /\ \A id \in DOMAIN snaps : id \in 1..Len(issued) /\ snaps[id] \in Snapshot /\ snaps[id].t = issued[id]

\* A result is read, and on its way to the client or into the cache.
HasResult(p) ==
    \/ h[p].pc \in {"insert", "unindex", "put", "addDeps", "addRev", "done"}
    \/ h[p].pc \in {"dropDeps", "dropRev"} /\ h[p].then = "addDeps"

\* What the as-of filter shows at t, on a version since t committed.
Answers(q, t, res) ==
    \E n \in 1..Len(hist) : hist[n].basis >= t /\ res = Result(q, Past(hist[n].log, t))

\* Results about the past are what such a version shows.
PastExact ==
    /\ \A p \in Slot : (HasResult(p) /\ h[p].key.t # Now) => Answers(h[p].key.q, h[p].key.t, h[p].res)
    /\ \A k \in CachedKeys : k.t # Now => Answers(k.q, k.t, entries[k].res)

-----------------------------------------------------------------------------
(* What keeps an entry tracked, or current *)

\* Past the Put of its entry, before its registration in the reverse index.
Registering(p) ==
    \/ h[p].pc \in {"addDeps", "addRev"}
    \/ h[p].pc \in {"dropDeps", "dropRev"} /\ h[p].then = "addDeps"

\* p will replace the entry of k, or register its dependencies.
WillTrack(p, k) ==
    /\ h[p].key = k
    /\ \/ At(p, "put")
       \/ Registering(p) /\ DepsOf(k.q, h[p].res) = DepsOf(k.q, entries[k].res)

TrackedOrWill ==
    \A k \in CachedKeys : \/ "torn" \in entries[k].marks
                          \/ Tracked(k)
                          \/ \E p \in Slot : WillTrack(p, k)

Conservative(k) == k.t = Now /\ k.q \in {"names", "pull"}

\* A transaction that can change the answer of q has committed, and has not
\* read the reverse index yet.
Pending(q) == \E p \in Slot : At(p, "invRead") /\ (q = "names" \/ Pulled \in h[p].changed)

Fresh(k, res) == res = Result(k.q, Db) \/ Pending(k.q)

CurrentOrWill ==
    /\ \A p \in Slot : (Storing(p) /\ Conservative(h[p].key)) => h[p].late \/ Fresh(h[p].key, h[p].res)
    /\ \A p \in Slot : (Registering(p) /\ h[p].key \in CachedKeys /\ Conservative(h[p].key)) =>
          \/ h[p].late \/ entries[h[p].key].marks \cap {"late", "lost"} # {}
          \/ Fresh(h[p].key, entries[h[p].key].res)
    /\ \A k \in CachedKeys : Conservative(k) =>
          \/ entries[k].marks # {}
          \/ Fresh(k, entries[k].res)
          \/ \E p \in Slot : At(p, "invPop") /\ k \in h[p].keys
          \/ \E p \in Slot : h[p].key = k /\ h[p].late /\ (At(p, "put") \/ Registering(p))

-----------------------------------------------------------------------------
(* The types are kept *)

\* What PostgreSQL answers, and what is read off it, are entities and values.
LEMMA ResultTypes ==
    ASSUME NEW q \in Queries, NEW d \in State
    PROVE  Result(q, d) \in Results
<1>1. Pulled \in Entity
  BY Zenon, QueryCacheAssumption DEF Pulled
<1>2. Present(d) \subseteq Entity /\ \A e \in Entity : d[e] \in Val \cup {None}
  BY Zenon DEF Present, State
<1>3. q \in {"ids", "names", "ages", "pull"}
  BY Zenon, QueryCacheAssumption
<1> QED
  BY Zenon, <1>1, <1>2, <1>3 DEF Result, Results

LEMMA LatestType ==
    ASSUME Typed
    PROVE  Db \in State /\ Latest.log \in SUBSET Row /\ Latest.basis \in 1..MaxTx
<1>1. Latest \in Version
  BY DEF Typed
<1> QED
  BY <1>1, Zenon DEF Version, Db

\* The as-of filter shows a value, or none, of each entity.
LEMMA PastType ==
    ASSUME NEW log \in SUBSET Row, NEW t
    PROVE  Past(log, t) \in State
<1>1. \A r \in Shown(log, t) : r.v \in Val \cup {None}
  BY Zenon DEF Shown, UpTo, Row
<1>2. ASSUME NEW e \in Entity, \E r \in Shown(log, t) : r.e = e
      PROVE  (CHOOSE r \in Shown(log, t) : r.e = e).v \in Val \cup {None}
  <2>1. PICK r : r = CHOOSE x \in Shown(log, t) : x.e = e
    OBVIOUS
  <2>2. r \in Shown(log, t)
    BY Zenon, <1>2, <2>1
  <2> QED
    BY Zenon, <1>1, <2>1, <2>2
<1> QED
  BY Zenon, <1>2 DEF Past, State

LEMMA DepsTypes ==
    ASSUME NEW q \in Queries, NEW res \in Results
    PROVE  DepsOf(q, res) \in Results
<1>1. Pulled \in Entity
  BY Zenon, QueryCacheAssumption DEF Pulled
<1>2. q \in {"ids", "names", "ages", "pull"}
  BY Zenon, QueryCacheAssumption
<1> QED
  BY Zenon, <1>1, <1>2 DEF DepsOf, Results

-----------------------------------------------------------------------------
(* What the steps do to the handlers *)

\* Only the handler of p changes.
Only(p) == h' \in [Slot -> Handler] /\ \A s \in Slot \ {p} : h'[s] = h[s]

\* The handler of p goes on with its query.
Going(p, pc, res, late, then) ==
    /\ Only(p)
    /\ h'[p].pc = pc /\ h'[p].key = h[p].key /\ h'[p].id = h[p].id
    /\ h'[p].res = res /\ h'[p].late = late /\ h'[p].then = then

LEMMA Becomes ==
    ASSUME h \in [Slot -> Handler], NEW p \in Slot, NEW r \in Handler, h' = [h EXCEPT ![p] = r]
    PROVE  Only(p) /\ h'[p] = r
BY Zenon DEF Only

LEMMA AppendedTo ==
    ASSUME NEW S, NEW q \in Seq(S), NEW x \in S
    PROVE  /\ Append(q, x) \in Seq(S) /\ Len(Append(q, x)) = Len(q) + 1 /\ Len(q) \in Nat
           /\ Append(q, x)[Len(q) + 1] = x /\ \A i \in 1..Len(q) : Append(q, x)[i] = q[i]
OBVIOUS

LEMMA IdleHandler == Idle \in Handler
<1>1. MaxTx \in Nat /\ {} \in Results /\ NoKey \in AnyKey
  BY Zenon, QueryCacheAssumption DEF Results, AnyKey
<1> QED
  BY <1>1 DEF Idle, Handler

LEMMA Goes ==
    ASSUME h \in [Slot -> Handler], NEW p \in Slot
    PROVE  /\ \A s \in {"database", "put", "addDeps", "addRev", "invDeps"} :
                 Goto(p, s) => Going(p, s, h[p].res, h[p].late, h[p].then) /\ h'[p].keys = h[p].keys
           /\ \A k \in AnyKey, next \in {"database", "addDeps"} :
                 DropFirst(p, k, next) => Going(p, "dropDeps", h[p].res, h[p].late, next)
           /\ (h[p].then \in {"database", "addDeps"} /\ Resume(p)) =>
                 Going(p, h[p].then, h[p].res, h[p].late, "none")
           /\ \A res \in Results : Answer(p, res) => Going(p, "done", res, FALSE, h[p].then)
           /\ Ends(p) => Only(p) /\ h'[p] = Idle
<1>1. ASSUME NEW s \in {"database", "put", "addDeps", "addRev", "invDeps"}, Goto(p, s)
      PROVE  Going(p, s, h[p].res, h[p].late, h[p].then) /\ h'[p].keys = h[p].keys
  <2> DEFINE r == [h[p] EXCEPT !.pc = s]
  <2>1. h' = [h EXCEPT ![p] = r]
    BY Zenon, <1>1 DEF Goto
  <2>2. /\ r \in Handler /\ r.pc = s /\ r.key = h[p].key /\ r.id = h[p].id /\ r.res = h[p].res
        /\ r.late = h[p].late /\ r.then = h[p].then /\ r.keys = h[p].keys
    BY DEF Handler
  <2> HIDE DEF r
  <2> QED
    BY <2>1, <2>2, Becomes, Zenon DEF Going
<1>2. ASSUME NEW k \in AnyKey, NEW next \in {"database", "addDeps"}, DropFirst(p, k, next)
      PROVE  Going(p, "dropDeps", h[p].res, h[p].late, next)
  <2> DEFINE r == [h[p] EXCEPT !.pc = "dropDeps", !.drop = k, !.then = next]
  <2>1. h' = [h EXCEPT ![p] = r]
    BY <1>2, Zenon DEF DropFirst
  <2>2. /\ r \in Handler /\ r.pc = "dropDeps" /\ r.key = h[p].key /\ r.id = h[p].id /\ r.res = h[p].res
        /\ r.late = h[p].late /\ r.then = next
    BY ZenonT(90) DEF Handler
  <2> HIDE DEF r
  <2> QED
    BY <2>1, <2>2, Becomes, ZenonT(30) DEF Going
<1>3. ASSUME h[p].then \in {"database", "addDeps"}, Resume(p)
      PROVE  Going(p, h[p].then, h[p].res, h[p].late, "none")
  <2> PICK s \in {"database", "addDeps"} : s = h[p].then
    BY Zenon, <1>3
  <2> PICK k \in AnyKey : k = NoKey
    BY Zenon DEF AnyKey
  <2> PICK d \in Results : d = {}
    BY Zenon DEF Results
  <2> DEFINE r == [h[p] EXCEPT !.pc = s, !.drop = k, !.dset = d, !.then = "none"]
  <2>1. h' = [h EXCEPT ![p] = r]
    BY <1>3, Zenon DEF Resume
  <2>2. /\ r \in Handler /\ r.pc = s /\ r.key = h[p].key /\ r.id = h[p].id /\ r.res = h[p].res
        /\ r.late = h[p].late /\ r.then = "none"
    <3>1. h[p] \in Handler
      BY Zenon
    <3> QED
      BY <3>1, Zenon DEF Handler
  <2> HIDE DEF r
  <2> QED
    BY <2>1, <2>2, Becomes, Zenon DEF Going
<1>4. ASSUME NEW res \in Results, Answer(p, res)
      PROVE  Going(p, "done", res, FALSE, h[p].then)
  <2> DEFINE r == [h[p] EXCEPT !.pc = "done", !.res = res, !.late = FALSE]
  <2>1. h' = [h EXCEPT ![p] = r]
    BY <1>4, Zenon DEF Answer
  <2>2. /\ r \in Handler /\ r.pc = "done" /\ r.key = h[p].key /\ r.id = h[p].id /\ r.res = res
        /\ r.late = FALSE /\ r.then = h[p].then
    BY ZenonT(90) DEF Handler
  <2> HIDE DEF r
  <2> QED
    BY <2>1, <2>2, Becomes, ZenonT(30) DEF Going
<1>5. Ends(p) => Only(p) /\ h'[p] = Idle
  BY IdleHandler, Becomes, Zenon DEF Ends
<1> QED
  BY Zenon, <1>1, <1>2, <1>3, <1>4, <1>5

\* A handler that starts with r, whatever the others do about being late.
Starts(p, r) == h' \in [Slot -> Handler] /\ h'[p] = r

\* The other handlers go on as they were, but late if they store a result.
OthersLate(p) ==
    \A s \in Slot \ {p} :
        /\ h'[s].pc = h[s].pc /\ h'[s].key = h[s].key /\ h'[s].id = h[s].id /\ h'[s].res = h[s].res
        /\ h'[s].then = h[s].then /\ h'[s].changed = h[s].changed /\ h'[s].keys = h[s].keys
        /\ h'[s].t = h[s].t
        /\ h[s].late => h'[s].late
        /\ Storing(s) => h'[s].late

LEMMA Outdates ==
    ASSUME h \in [Slot -> Handler], NEW p \in Slot, NEW r \in Handler, h' = Outdate(p, r)
    PROVE  Starts(p, r) /\ OthersLate(p)
<1> DEFINE l(s) == [h[s] EXCEPT !.late = TRUE]
<1>1. ASSUME NEW s \in Slot
      PROVE  /\ l(s) \in Handler /\ l(s).pc = h[s].pc /\ l(s).key = h[s].key /\ l(s).id = h[s].id
             /\ l(s).res = h[s].res /\ l(s).then = h[s].then /\ l(s).changed = h[s].changed
             /\ l(s).keys = h[s].keys /\ l(s).t = h[s].t /\ l(s).late = TRUE
             /\ h[s] \in Handler /\ h[s].late \in BOOLEAN
  BY Zenon DEF Handler
<1>2. \A s \in Slot : h'[s] = IF s = p THEN r ELSE IF Storing(s) THEN l(s) ELSE h[s]
  BY Zenon DEF Outdate
<1>3. h' = [s \in Slot |-> h'[s]]
  BY Zenon DEF Outdate
<1> HIDE DEF l
<1>4. h' \in [Slot -> Handler] /\ h'[p] = r
  BY ZenonT(90), <1>1, <1>2, <1>3
<1>5. ASSUME NEW s \in Slot \ {p}
      PROVE  /\ h'[s].pc = h[s].pc /\ h'[s].key = h[s].key /\ h'[s].id = h[s].id /\ h'[s].res = h[s].res
             /\ h'[s].then = h[s].then /\ h'[s].changed = h[s].changed /\ h'[s].keys = h[s].keys
             /\ h'[s].t = h[s].t
             /\ h[s].late => h'[s].late
             /\ Storing(s) => h'[s].late
  <2>1. CASE Storing(s)
    BY ZenonT(90), <1>1, <1>2, <2>1
  <2>2. CASE ~Storing(s)
    BY Zenon, <1>1, <1>2, <2>2
  <2> QED
    BY Zenon, <2>1, <2>2
<1> QED
  BY Zenon, <1>4, <1>5 DEF Starts, OthersLate

\* Every step of a handler that serves a query.
LEMMA Moves ==
    ASSUME Typed, Told, NEW p \in Slot
    PROVE  /\ Hit(p) => Going(p, "done", entries[h[p].key].res, FALSE, h[p].then)
           /\ Miss(p) => Going(p, "database", h[p].res, h[p].late, h[p].then)
           /\ Expired(p) => Going(p, "dropDeps", h[p].res, h[p].late, "database")
           /\ DropDeps(p) => \/ Going(p, "dropRev", h[p].res, h[p].late, h[p].then)
                             \/ Going(p, h[p].then, h[p].res, h[p].late, "none")
           /\ DropRev(p) => Going(p, h[p].then, h[p].res, h[p].late, "none")
           /\ ReadDatabase(p) => /\ AsOf(h[p].key.t) \in State
                                 /\ Going(p, "insert", Result(h[p].key.q, AsOf(h[p].key.t)), h[p].late, h[p].then)
           /\ Insert(p) => \E s \in {"unindex", "put"} : Going(p, s, h[p].res, h[p].late, h[p].then)
           /\ UnindexOld(p) => Going(p, "put", h[p].res, h[p].late, h[p].then)
           /\ Put(p) => \/ Going(p, "addDeps", h[p].res, h[p].late, h[p].then)
                        \/ Going(p, "dropDeps", h[p].res, h[p].late, "addDeps")
           /\ AddDeps(p) => Going(p, "addRev", h[p].res, h[p].late, h[p].then)
           /\ AddRev(p) => Going(p, "done", h[p].res, FALSE, h[p].then)
<1> USE Goes DEF At
<1>1. h \in [Slot -> Handler] /\ h[p] \in Handler
  BY Zenon DEF Typed
<1>2. /\ h[p].res \in Results /\ h[p].key \in AnyKey
      /\ h[p].pc \in {"dropDeps", "dropRev"} => h[p].then \in {"database", "addDeps"}
  BY Zenon, <1>1 DEF Handler, Told
<1>3. ASSUME Hit(p) PROVE Going(p, "done", entries[h[p].key].res, FALSE, h[p].then)
  <2>1. entries[h[p].key].res \in Results
    BY Zenon, <1>3 DEF Hit, Typed, CacheEntry
  <2> QED
    BY <1>1, <1>3, <2>1, Zenon DEF Hit
<1>4. Miss(p) => Going(p, "database", h[p].res, h[p].late, h[p].then)
  BY <1>1, Zenon DEF Miss
<1>5. Expired(p) => Going(p, "dropDeps", h[p].res, h[p].late, "database")
  BY <1>1, <1>2, Zenon DEF Expired
<1>6. ASSUME NEW s \in {"dropRev", "unindex"}, NEW k \in DOMAIN deps,
             h' = [h EXCEPT ![p].pc = s, ![p].dset = deps[k]]
      PROVE  Going(p, s, h[p].res, h[p].late, h[p].then)
  <2> PICK d \in Results : d = deps[k]
    BY Zenon DEF Typed
  <2> DEFINE r == [h[p] EXCEPT !.pc = s, !.dset = d]
  <2>1. h' = [h EXCEPT ![p] = r]
    BY Zenon, <1>6
  <2>2. /\ r \in Handler /\ r.pc = s /\ r.key = h[p].key /\ r.id = h[p].id /\ r.res = h[p].res
        /\ r.late = h[p].late /\ r.then = h[p].then
    BY <1>1, Zenon DEF Handler
  <2> HIDE DEF r
  <2> QED
    BY <1>1, <2>1, <2>2, Becomes, Zenon DEF Going
<1>7. ASSUME DropDeps(p)
      PROVE  \/ Going(p, "dropRev", h[p].res, h[p].late, h[p].then)
             \/ Going(p, h[p].then, h[p].res, h[p].late, "none")
  BY <1>1, <1>2, <1>6, <1>7, Zenon DEF DropDeps
<1>8. DropRev(p) => Going(p, h[p].then, h[p].res, h[p].late, "none")
  BY <1>1, <1>2, Zenon DEF DropRev
<1>9. ASSUME ReadDatabase(p)
      PROVE  /\ AsOf(h[p].key.t) \in State
             /\ Going(p, "insert", Result(h[p].key.q, AsOf(h[p].key.t)), h[p].late, h[p].then)
  <2>1. h[p].key \in Key /\ h[p].key.q \in Queries
    BY Zenon, <1>9 DEF ReadDatabase, Told, Asking, Key
  <2>2. AsOf(h[p].key.t) \in State
    BY Zenon, LatestType, PastType DEF AsOf
  <2> PICK res \in Results : res = Result(h[p].key.q, AsOf(h[p].key.t))
    BY Zenon, <2>1, <2>2, ResultTypes
  <2> DEFINE r == [h[p] EXCEPT !.pc = "insert", !.res = res]
  <2>3. h' = [h EXCEPT ![p] = r]
    BY <1>9, Zenon DEF ReadDatabase
  <2>4. /\ r \in Handler /\ r.pc = "insert" /\ r.key = h[p].key /\ r.id = h[p].id /\ r.res = res
        /\ r.late = h[p].late /\ r.then = h[p].then
    BY <1>1, Zenon DEF Handler
  <2> HIDE DEF r
  <2> QED
    BY <1>1, <2>2, <2>3, <2>4, Becomes, Zenon DEF Going
<1>10. Insert(p) => \E s \in {"unindex", "put"} : Going(p, s, h[p].res, h[p].late, h[p].then)
  BY <1>1, <1>6, Zenon DEF Insert
<1>11. ASSUME UnindexOld(p) PROVE Going(p, "put", h[p].res, h[p].late, h[p].then)
  <2> DEFINE r == [h[p] EXCEPT !.pc = "put", !.dset = {}]
  <2>1. h' = [h EXCEPT ![p] = r]
    BY <1>11, Zenon DEF UnindexOld
  <2>2. {} \in Results
    BY Zenon DEF Results
  <2>3. /\ r \in Handler /\ r.pc = "put" /\ r.key = h[p].key /\ r.id = h[p].id /\ r.res = h[p].res
        /\ r.late = h[p].late /\ r.then = h[p].then
    BY <1>1, <2>2, Zenon DEF Handler
  <2> HIDE DEF r
  <2> QED
    BY <1>1, <2>1, <2>3, Becomes, Zenon DEF Going
<1>12. ASSUME Put(p)
       PROVE  \/ Going(p, "addDeps", h[p].res, h[p].late, h[p].then)
              \/ Going(p, "dropDeps", h[p].res, h[p].late, "addDeps")
  <2>1. CachedKeys \subseteq AnyKey
    BY Zenon DEF Typed
  <2>2. \A l \in Oldest : l \in AnyKey
    BY Zenon, <2>1 DEF Oldest
  <2> QED
    BY <1>1, <1>12, <2>2, Zenon DEF Put
<1>13. AddDeps(p) => Going(p, "addRev", h[p].res, h[p].late, h[p].then)
  BY <1>1, Zenon DEF AddDeps
<1>14. AddRev(p) => Going(p, "done", h[p].res, FALSE, h[p].then)
  BY <1>1, <1>2, Zenon DEF AddRev
<1> QED
  BY Zenon, <1>3, <1>4, <1>5, <1>7, <1>8, <1>9, <1>10, <1>11, <1>12, <1>13, <1>14

-----------------------------------------------------------------------------
(* The types are kept *)

\* The tables and the handlers but for the entries, the dependencies and the
\* reverse index.
LEMMA GoingTold ==
    ASSUME Typed, Told, NEW p \in Slot, NEW pc, NEW res, NEW late, NEW then, Going(p, pc, res, late, then),
           Asking(p) \/ pc = "invDeps", pc \in {"dropDeps", "dropRev"} => then \in {"database", "addDeps"}, pc # "snapshot",
           UNCHANGED <<hist, snaps, issued>>
    PROVE  Told'
<1>1. \A s \in Slot \ {p} : h'[s] = h[s]
  BY Zenon DEF Going, Only
<1>2. h'[p].pc = pc /\ h'[p].then = then /\ h'[p].key = h[p].key /\ h'[p].id = h[p].id
  BY Zenon DEF Going
<1>3. h[p].key \in Key \/ pc = "invDeps"
  BY Zenon DEF Told
<1>4. \A s \in Slot : Asking(s)' => h'[s].key \in Key
  BY Zenon, <1>1, <1>2, <1>3 DEF Told, Asking
<1>5. \A s \in Slot : h'[s].pc \in {"dropDeps", "dropRev"} => h'[s].then \in {"database", "addDeps"}
  BY Zenon, <1>1, <1>2 DEF Told
<1>6. \A s \in Slot : IF h'[s].id = 0 THEN h'[s].key.t = Now
                     ELSE h'[s].id \in 1..Len(issued) /\ h'[s].key.t = issued[h'[s].id]
  BY <1>1, <1>2 DEF Told
<1>7. \A s \in Slot : h'[s].pc = "snapshot" => h'[s].t \in 1..Latest.basis
  BY Zenon, <1>1, <1>2 DEF Told, At
<1>8. \A id \in DOMAIN snaps : id \in 1..Len(issued) /\ snaps[id] \in Snapshot /\ snaps[id].t = issued[id]
  BY Zenon DEF Told
<1> QED
  BY Zenon, <1>4, <1>5, <1>6, <1>7, <1>8 DEF Told, At

\* No snapshot changes its basis-t, and none is created.
KeepsSnaps ==
    /\ DOMAIN snaps' \subseteq DOMAIN snaps
    /\ \A id \in DOMAIN snaps' : snaps'[id] \in Snapshot /\ snaps'[id].t = snaps[id].t

LEMMA SameSnaps == Told /\ UNCHANGED snaps => KeepsSnaps
BY Zenon DEF Told, KeepsSnaps

LEMMA EndsTold ==
    ASSUME Typed, Told, NEW p \in Slot, Only(p), h'[p] = Idle, UNCHANGED <<hist, issued>>,
           KeepsSnaps
    PROVE  Told'
<1>1. h'[p].pc = "idle" /\ h'[p].key.t = Now /\ h'[p].id = 0
  BY DEF Idle, NoKey
<1>2. \A s \in Slot \ {p} : h'[s] = h[s]
  BY Zenon DEF Only
<1>4. \A s \in Slot : Asking(s)' => h'[s].key \in Key
  BY Zenon, <1>1, <1>2 DEF Told, Asking
<1>5. \A s \in Slot : h'[s].pc \in {"dropDeps", "dropRev"} => h'[s].then \in {"database", "addDeps"}
  BY Zenon, <1>1, <1>2 DEF Told
<1>6. \A s \in Slot : IF h'[s].id = 0 THEN h'[s].key.t = Now
                     ELSE h'[s].id \in 1..Len(issued) /\ h'[s].key.t = issued[h'[s].id]
  BY <1>1, <1>2 DEF Told
<1>7. \A s \in Slot : h'[s].pc = "snapshot" => h'[s].t \in 1..Latest.basis
  BY Zenon, <1>1, <1>2 DEF Told, At
<1>8. \A id \in DOMAIN snaps' : id \in 1..Len(issued) /\ snaps'[id] \in Snapshot /\ snaps'[id].t = issued[id]
  BY Zenon DEF Told, KeepsSnaps
<1> QED
  BY Zenon, <1>4, <1>5, <1>6, <1>7, <1>8 DEF Told, At

\* The entries of some keys gain and lose marks.
Marked(keys, add, del) ==
    /\ CachedKeys' = CachedKeys
    /\ \A k \in CachedKeys :
          /\ entries'[k] \in CacheEntry /\ entries'[k].res = entries[k].res
          /\ entries'[k].marks = IF k \in keys THEN (entries[k].marks \ del) \cup add ELSE entries[k].marks

LEMMA Marks ==
    ASSUME Typed, NEW keys, NEW add \in SUBSET {"torn", "late", "lost"}, NEW del,
           entries' = Mark(keys, add, del)
    PROVE  Marked(keys, add, del)
<1>1. CachedKeys' = CachedKeys
  BY Zenon DEF Mark, CachedKeys
<1>2. ASSUME NEW k \in CachedKeys
      PROVE  /\ entries'[k] \in CacheEntry /\ entries'[k].res = entries[k].res
             /\ entries'[k].marks = IF k \in keys THEN (entries[k].marks \ del) \cup add ELSE entries[k].marks
  <2> PICK x \in CacheEntry : x = entries[k]
    BY Zenon DEF Typed
  <2> DEFINE y == [x EXCEPT !.marks = (x.marks \ del) \cup add]
  <2>1. entries'[k] = IF k \in keys THEN y ELSE x
    BY Zenon DEF Mark
  <2>2. y \in CacheEntry /\ y.res = x.res /\ y.marks = (x.marks \ del) \cup add
    BY Zenon DEF CacheEntry
  <2> HIDE DEF y
  <2> QED
    BY Zenon, <2>1, <2>2
<1> QED
  BY Zenon, <1>1, <1>2 DEF Marked

\* Putting an entry keeps the others.
LEMMA Puts ==
    ASSUME Typed, NEW k \in AnyKey, NEW others \in SUBSET CachedKeys, NEW entry \in CacheEntry,
           PutEntry(k, others, entry)
    PROVE  /\ CachedKeys' = others \cup {k}
           /\ \A l \in CachedKeys' : /\ l \in AnyKey /\ entries'[l] \in CacheEntry
                                     /\ entries'[l] = IF l = k THEN entry ELSE entries[l]
<1>1. CachedKeys' = others \cup {k}
  BY Zenon DEF PutEntry, CachedKeys
<1>2. \A l \in CachedKeys' : entries'[l] = IF l = k THEN entry ELSE entries[l]
  BY Zenon, <1>1 DEF PutEntry
<1>3. \A l \in others : l \in AnyKey /\ entries[l] \in CacheEntry
  BY Zenon DEF Typed
<1> QED
  BY Zenon, <1>1, <1>2, <1>3

LEMMA Entries ==
    ASSUME Typed, NEW p \in Slot
    PROVE  /\ LateMark(p) \in SUBSET {"torn", "late", "lost"}
           /\ Entry(h[p].res, LateMark(p)) \in CacheEntry
           /\ Entry(h[p].res, LateMark(p)).res = h[p].res /\ Entry(h[p].res, LateMark(p)).marks = LateMark(p)
<1>1. h[p].res \in Results /\ TTL \in Nat
  BY Zenon, QueryCacheAssumption DEF Typed, Handler
<1>2. LateMark(p) \in SUBSET {"torn", "late", "lost"}
  BY Zenon DEF LateMark
<1> QED
  BY <1>1, <1>2 DEF Entry, CacheEntry

\* Put stores the result of p, and leaves the entries it does not evict alone.
LEMMA PutEffect ==
    ASSUME Typed, NEW p \in Slot, Put(p)
    PROVE  /\ h[p].key \in CachedKeys'
           /\ entries'[h[p].key].res = h[p].res /\ entries'[h[p].key].marks = LateMark(p)
           /\ \A k \in CachedKeys' : /\ k \in AnyKey /\ entries'[k] \in CacheEntry
                                     /\ k = h[p].key \/ (k \in CachedKeys /\ entries'[k] = entries[k])
<1>1. PICK key \in AnyKey : key = h[p].key
  BY Zenon DEF Typed, Handler
<1>2. PICK entry \in CacheEntry : /\ entry = Entry(h[p].res, LateMark(p))
                                  /\ entry.res = h[p].res /\ entry.marks = LateMark(p)
  BY Zenon, Entries
<1>3. PICK others \in SUBSET CachedKeys : PutEntry(key, others, entry)
  BY <1>1, <1>2, Zenon DEF Put
<1>4. /\ CachedKeys' = others \cup {key}
      /\ \A l \in CachedKeys' : /\ l \in AnyKey /\ entries'[l] \in CacheEntry
                                /\ entries'[l] = IF l = key THEN entry ELSE entries[l]
  BY Zenon, <1>3, Puts
<1> QED
  BY Zenon, <1>1, <1>2, <1>4

\* The steps that mark entries.
LEMMA MarkEffects ==
    ASSUME Typed, NEW p \in Slot
    PROVE  /\ DropDeps(p) \/ DropRev(p) => Marked({h[p].drop}, {"torn"}, {})
           /\ InvalidateDeps(p) => Marked(h[p].keys, {"torn"}, {})
           /\ AddRev(p) => Marked({h[p].key}, LateMark(p), Mended(p))
           /\ \A t, e, v : CommitUnheard(p, t, e, v) => Marked(CachedKeys, {"lost"}, {})
<1>1. /\ {"torn"} \in SUBSET {"torn", "late", "lost"} /\ {"lost"} \in SUBSET {"torn", "late", "lost"}
      /\ LateMark(p) \in SUBSET {"torn", "late", "lost"}
  BY Zenon, Entries
<1>2. DropDeps(p) \/ DropRev(p) => Marked({h[p].drop}, {"torn"}, {})
  BY Zenon, <1>1, Marks DEF DropDeps, DropRev
<1>3. InvalidateDeps(p) => Marked(h[p].keys, {"torn"}, {})
  BY Zenon, <1>1, Marks DEF InvalidateDeps
<1>4. AddRev(p) => Marked({h[p].key}, LateMark(p), Mended(p))
  BY Zenon, <1>1, Marks DEF AddRev
<1>5. \A t, e, v : CommitUnheard(p, t, e, v) => Marked(CachedKeys, {"lost"}, {})
  BY Zenon, <1>1, Marks DEF CommitUnheard
<1> QED
  BY Zenon, <1>2, <1>3, <1>4, <1>5

\* A handler starts on something that is not a query, or on a query of a basis-t
\* its client was told.
LEMMA StartsTold ==
    ASSUME Typed, Told, NEW p \in Slot, NEW r, Starts(p, r),
           \A s \in Slot \ {p} : /\ h'[s].pc = h[s].pc /\ h'[s].key = h[s].key /\ h'[s].id = h[s].id
                                 /\ h'[s].then = h[s].then /\ h'[s].t = h[s].t,
           r.pc \notin {"dropDeps", "dropRev"}, r.pc \in {"idle", "invRead", "invPop", "snapshot"} \/ r.key \in Key,
           IF r.id = 0 THEN r.key.t = Now ELSE r.id \in 1..Len(issued) /\ r.key.t = issued[r.id],
           r.pc = "snapshot" => r.t \in 1..Latest.basis,
           UNCHANGED issued, Latest'.basis \in Nat, Latest.basis <= Latest'.basis,
           KeepsSnaps
    PROVE  Told'
<1>1. h'[p] = r
  BY Zenon DEF Starts
<1>2. \A s \in Slot : Asking(s)' => h'[s].key \in Key
  BY Zenon, <1>1 DEF Told, Asking
<1>3. \A s \in Slot : h'[s].pc \in {"dropDeps", "dropRev"} => h'[s].then \in {"database", "addDeps"}
  BY Zenon, <1>1 DEF Told
<1>4. \A s \in Slot : IF h'[s].id = 0 THEN h'[s].key.t = Now
                      ELSE h'[s].id \in 1..Len(issued) /\ h'[s].key.t = issued[h'[s].id]
  BY <1>1 DEF Told
<1>5. \A s \in Slot : h'[s].pc = "snapshot" => h'[s].t \in 1..Latest'.basis
  <2>1. Latest.basis \in Nat
    BY LatestType
  <2>2. \A s \in Slot : h'[s].pc = "snapshot" => h'[s].t \in 1..Latest.basis
    BY Zenon, <1>1 DEF Told, At
  <2>3. PICK b, c : b = Latest.basis /\ c = Latest'.basis
    OBVIOUS
  <2> QED
    BY <2>1, <2>2, <2>3
<1>6. \A id \in DOMAIN snaps' : id \in 1..Len(issued) /\ snaps'[id] \in Snapshot /\ snaps'[id].t = issued[id]
  BY Zenon DEF Told, KeepsSnaps
<1> QED
  BY Zenon, <1>2, <1>3, <1>4, <1>5, <1>6 DEF Told, At

\* What an invalidation becomes once it has read the reverse index.
LEMMA ReadsKeys ==
    ASSUME Typed, NEW p \in Slot, InvalidateRead(p)
    PROVE  \E r \in Handler :
              /\ h' = Outdate(p, r) /\ r.pc \in {"idle", "invPop"} /\ r.id = 0 /\ r.key = NoKey /\ r.key.t = Now
              /\ \A k \in KeysOf(h[p].changed \cup {Untracked}) : r.pc = "invPop" /\ k \in r.keys
<1> DEFINE keys == KeysOf(h[p].changed \cup {Untracked})
           r == [Idle EXCEPT !.pc = "invPop", !.keys = keys]
<1>1. keys \in SUBSET AnyKey
  BY ZenonT(30) DEF KeysOf, Typed
<1>2. /\ Idle \in Handler /\ Idle.pc = "idle" /\ Idle.id = 0 /\ Idle.key = NoKey /\ NoKey.t = Now
  BY Zenon, IdleHandler DEF Idle, NoKey
<1>3. h' = Outdate(p, IF keys = {} THEN Idle ELSE r)
  BY Zenon DEF InvalidateRead, ReadKeys
<1> HIDE DEF keys
<1>4. r \in Handler /\ r.pc = "invPop" /\ r.id = 0 /\ r.key = NoKey /\ r.keys = keys
  <2>1. PICK x \in Handler : x = Idle
    BY Zenon, <1>2
  <2>2. \A ks \in SUBSET AnyKey : LET y == [x EXCEPT !.pc = "invPop", !.keys = ks]
                                  IN  y \in Handler /\ y.pc = "invPop" /\ y.id = x.id /\ y.key = x.key /\ y.keys = ks
    BY Zenon DEF Handler
  <2> QED
    BY Zenon, <1>1, <1>2, <2>1, <2>2
<1> HIDE DEF r
<1>5. CASE keys = {}
  BY <1>2, <1>3, <1>5, Zenon DEF keys
<1>6. CASE keys # {}
  BY <1>2, <1>3, <1>4, <1>6, Zenon DEF keys
<1> QED
  BY Zenon, <1>5, <1>6

\* The handlers a request starts with.
LEMMA Begun ==
    ASSUME Typed, NEW p \in Slot, NEW k \in Key, NEW id \in Nat, Begins(p, k, id)
    PROVE  \E r \in Handler : h' = [h EXCEPT ![p] = r] /\ r.pc = "lookup" /\ r.key = k /\ r.id = id
<1>1. PICK x \in Handler : x = Idle
  BY Zenon, IdleHandler
<1>2. k \in AnyKey
  BY Zenon DEF AnyKey
<1> DEFINE r == [x EXCEPT !.pc = "lookup", !.key = k, !.id = id]
<1>3. r \in Handler /\ r.pc = "lookup" /\ r.key = k /\ r.id = id
  BY <1>2, Zenon DEF Handler
<1>4. h' = [h EXCEPT ![p] = r]
  BY Zenon, <1>1 DEF Begins
<1> HIDE DEF r
<1> QED
  BY Zenon, <1>3, <1>4

LEMMA Based ==
    ASSUME Typed, NEW p \in Slot, ReadBasis(p)
    PROVE  \E r \in Handler : h' = [h EXCEPT ![p] = r] /\ r.pc = "snapshot" /\ r.id = 0 /\ r.key.t = Now /\ r.t = Latest.basis
<1>1. PICK x \in Handler : x = Idle
  BY Zenon, IdleHandler
<1>2. x.id = 0 /\ x.key.t = Now
  BY Zenon, <1>1 DEF Idle, NoKey
<1>3. PICK t \in 0..MaxTx : t = Latest.basis
  BY QueryCacheAssumption, LatestType
<1> DEFINE r == [x EXCEPT !.pc = "snapshot", !.t = t]
<1>4. r \in Handler /\ r.pc = "snapshot" /\ r.id = x.id /\ r.key = x.key /\ r.t = t
  BY Zenon DEF Handler
<1>5. h' = [h EXCEPT ![p] = r]
  BY Zenon, <1>1, <1>3 DEF ReadBasis
<1> HIDE DEF r
<1> QED
  BY Zenon, <1>2, <1>3, <1>4, <1>5

LEMMA Committed ==
    ASSUME Typed, NEW p \in Slot, NEW t, NEW e \in Entity, NEW v, Commit(p, t, e, v)
    PROVE  \E r \in Handler : /\ h' = [h EXCEPT ![p] = r] /\ r.pc = "invRead" /\ r.id = 0 /\ r.key = NoKey
                              /\ r.key.t = Now /\ r.changed = {e}
<1>1. PICK x \in Handler : x = Idle
  BY Zenon, IdleHandler
<1>2. x.id = 0 /\ x.key = NoKey /\ NoKey.t = Now
  BY Zenon, <1>1 DEF Idle, NoKey
<1>3. PICK es \in SUBSET Entity : es = {e}
  BY Zenon
<1> DEFINE r == [x EXCEPT !.pc = "invRead", !.changed = es]
<1>4. r \in Handler /\ r.pc = "invRead" /\ r.id = x.id /\ r.key = x.key /\ r.changed = es
  BY Zenon DEF Handler
<1>5. h' = [h EXCEPT ![p] = r]
  BY Zenon, <1>1, <1>3 DEF Commit
<1> HIDE DEF r
<1> QED
  BY Zenon, <1>2, <1>3, <1>4, <1>5

\* A commit appends a version of the database, and no basis-t goes back.
LEMMA Grows ==
    ASSUME Typed, NEW t \in 2..MaxTx, NEW e \in Entity, NEW v \in Val \cup {None}, hist' = Recorded(t, e, v)
    PROVE  /\ hist' \in Seq(Version) /\ Len(hist') = Len(hist) + 1 /\ Len(hist) \in Nat
           /\ \A i \in 1..Len(hist) : hist'[i] = hist[i]
           /\ Db \in State /\ Db' = [Db EXCEPT ![e] = v] /\ Db' \in State
           /\ Latest'.basis \in 1..MaxTx /\ Latest.basis <= Latest'.basis
<1>1. hist \in Seq(Version) /\ Len(hist) \in Nat \ {0} /\ MaxTx \in Nat
  BY QueryCacheAssumption DEF Typed
<1>2. Db \in State /\ Latest.log \in SUBSET Row /\ Latest.basis \in 1..MaxTx
  BY LatestType
<1>3. PICK d \in State : d = [Db EXCEPT ![e] = v]
  BY <1>2, Zenon DEF State
<1>4. PICK l \in SUBSET Row : l = Latest.log \cup {[tx |-> t, e |-> e, v |-> v]}
  <2>1. PICK r \in Row : r = [tx |-> t, e |-> e, v |-> v]
    BY Zenon DEF Row
  <2> QED
    BY <1>2, <2>1, Zenon
<1>5. PICK b \in 1..MaxTx : b = IF t > Latest.basis THEN t ELSE Latest.basis
  BY <1>1, <1>2
<1>6. Latest.basis <= b
  BY <1>1, <1>2, <1>5
<1>7. PICK x \in Version : x = [now |-> d, log |-> l, basis |-> b]
  BY Zenon DEF Version
<1>8. x.now = d /\ x.basis = b
  BY Zenon, <1>7
<1>9. hist' = Append(hist, x)
  BY Zenon, <1>3, <1>4, <1>5, <1>7 DEF Recorded
<1>10. /\ hist' \in Seq(Version) /\ Len(hist') = Len(hist) + 1 /\ hist'[Len(hist) + 1] = x
       /\ \A i \in 1..Len(hist) : hist'[i] = hist[i]
  BY <1>1, <1>9, AppendedTo
<1>11. Latest' = x
  BY <1>10
<1> QED
  BY <1>1, <1>2, <1>3, <1>5, <1>6, <1>8, <1>10, <1>11, Zenon DEF Db

\* Time ages the entries.
LEMMA Ticks ==
    ASSUME Typed, Tick
    PROVE  /\ CachedKeys' = CachedKeys
           /\ \A k \in CachedKeys : /\ entries'[k] \in CacheEntry /\ entries'[k].res = entries[k].res
                                    /\ entries'[k].marks = entries[k].marks
<1>1. CachedKeys' = CachedKeys
  BY Zenon DEF Tick, CachedKeys
<1>2. ASSUME NEW k \in CachedKeys
      PROVE  /\ entries'[k] \in CacheEntry /\ entries'[k].res = entries[k].res
             /\ entries'[k].marks = entries[k].marks
  <2> PICK x \in CacheEntry : x = entries[k]
    BY Zenon DEF Typed
  <2>1. PICK a \in 0..TTL + 1 : a = IF x.age > TTL THEN x.age ELSE x.age + 1
    BY QueryCacheAssumption DEF CacheEntry
  <2> DEFINE y == [x EXCEPT !.age = a]
  <2>2. entries'[k] = y
    BY Zenon, <2>1 DEF Tick
  <2>3. y \in CacheEntry /\ y.res = x.res /\ y.marks = x.marks
    BY Zenon DEF CacheEntry
  <2> HIDE DEF y
  <2> QED
    BY Zenon, <2>2, <2>3
<1> QED
  BY Zenon, <1>1, <1>2

LEMMA SnapshotKey ==
    ASSUME Typed, Told, NEW p, NEW q \in Queries, NEW id, StartSnapshotQuery(p, q, id)
    PROVE  /\ id \in 1..Len(issued) /\ id \in Nat \ {0} /\ snaps[id].t = issued[id]
           /\ \E k \in Key : k = [q |-> q, t |-> snaps[id].t]
<1>1. id \in DOMAIN snaps
  BY Zenon DEF StartSnapshotQuery, LiveSnap
<1>2. id \in 1..Len(issued) /\ snaps[id].t = issued[id]
  BY Zenon, <1>1 DEF Told
<1>3. issued \in Seq(1..MaxTx)
  BY Zenon DEF Typed
<1>4. id \in Nat \ {0}
  BY <1>2, <1>3
<1>5. issued[id] \in 1..MaxTx
  <2>1. issued[id] \in 1..Latest.basis /\ Latest.basis \in 1..MaxTx /\ MaxTx \in Nat
    BY Zenon, <1>2, QueryCacheAssumption, LatestType DEF Typed
  <2> QED
    BY <2>1
<1> QED
  BY <1>2, <1>4, <1>5, Zenon DEF Key

\* Every step keeps the types, and what a db-id and a basis-t stand for.
LEMMA TypedStep ==
    ASSUME Typed, Told, [Next]_vars
    PROVE  Typed' /\ Told'
<1> USE DEF index
<1>1. h \in [Slot -> Handler] /\ \A p \in Slot : h[p] \in Handler /\ h[p].key \in AnyKey /\ h[p].res \in Results
  BY Zenon DEF Typed, Handler
<1>2. ASSUME NEW p \in Slot, Hit(p) PROVE Typed' /\ Told'
  <2>1. Going(p, "done", entries[h[p].key].res, FALSE, h[p].then)
    BY Zenon, <1>2, Moves
  <2>2. Typed'
    BY Zenon, <1>2, <2>1 DEF Hit, Going, Only, Typed, CachedKeys
  <2>3. Asking(p) /\ UNCHANGED <<hist, snaps, issued>>
    BY Zenon, <1>2 DEF Hit, At, Asking
  <2> QED
    BY Zenon, <2>1, <2>2, <2>3, GoingTold
<1>3. ASSUME NEW p \in Slot, Miss(p) PROVE Typed' /\ Told'
  <2>1. Going(p, "database", h[p].res, h[p].late, h[p].then)
    BY Zenon, <1>3, Moves
  <2>2. Typed'
    BY Zenon, <1>3, <2>1 DEF Miss, Going, Only, Typed, CachedKeys
  <2>3. Asking(p) /\ UNCHANGED <<hist, snaps, issued>>
    BY Zenon, <1>3 DEF Miss, At, Asking
  <2> QED
    BY Zenon, <2>1, <2>2, <2>3, GoingTold
<1>4. ASSUME NEW p \in Slot, Expired(p) PROVE Typed' /\ Told'
  <2>1. Going(p, "dropDeps", h[p].res, h[p].late, "database")
    BY Zenon, <1>4, Moves
  <2>2. Typed'
    BY Zenon, <1>4, <2>1 DEF Expired, Going, Only, Typed, CachedKeys, Forget
  <2>3. Asking(p) /\ UNCHANGED <<hist, snaps, issued>>
    BY Zenon, <1>4 DEF Expired, At, Asking
  <2> QED
    BY Zenon, <2>1, <2>2, <2>3, GoingTold
<1>5. ASSUME NEW p \in Slot, ReadDatabase(p) PROVE Typed' /\ Told'
  <2>1. Going(p, "insert", Result(h[p].key.q, AsOf(h[p].key.t)), h[p].late, h[p].then)
    BY Zenon, <1>5, Moves
  <2>2. Typed'
    BY Zenon, <1>5, <2>1 DEF ReadDatabase, Going, Only, Typed, CachedKeys
  <2>3. Asking(p) /\ UNCHANGED <<hist, snaps, issued>>
    BY Zenon, <1>5 DEF ReadDatabase, At, Asking
  <2> QED
    BY Zenon, <2>1, <2>2, <2>3, GoingTold
<1>6. ASSUME NEW p \in Slot, UnindexOld(p) PROVE Typed' /\ Told'
  <2>1. Going(p, "put", h[p].res, h[p].late, h[p].then)
    BY Zenon, <1>6, Moves
  <2>2. Typed'
    BY Zenon, <1>6, <2>1 DEF UnindexOld, Going, Only, Typed, CachedKeys, Unindex
  <2>3. Asking(p) /\ UNCHANGED <<hist, snaps, issued>>
    BY Zenon, <1>6 DEF UnindexOld, At, Asking
  <2> QED
    BY Zenon, <2>1, <2>2, <2>3, GoingTold
<1>7. ASSUME NEW p \in Slot, DropDeps(p) PROVE Typed' /\ Told'
  <2>1. h[p].then \in {"database", "addDeps"} /\ Asking(p) /\ UNCHANGED <<hist, snaps, issued>>
    BY Zenon, <1>7 DEF DropDeps, At, Asking, Told
  <2>2. \/ Going(p, "dropRev", h[p].res, h[p].late, h[p].then)
        \/ Going(p, h[p].then, h[p].res, h[p].late, "none")
    BY Zenon, <1>7, Moves
  <2>3. CachedKeys' = CachedKeys /\ \A k \in CachedKeys : entries'[k] \in CacheEntry
    BY <1>7, MarkEffects, Zenon DEF Marked
  <2>4. Typed'
    BY <1>7, <2>2, <2>3, Zenon DEF DropDeps, Going, Only, Typed, Forget
  <2> QED
    BY Zenon, <2>1, <2>2, <2>4, GoingTold
<1>8. ASSUME NEW p \in Slot, DropRev(p) PROVE Typed' /\ Told'
  <2>1. h[p].then \in {"database", "addDeps"} /\ Asking(p) /\ UNCHANGED <<hist, snaps, issued>>
    BY <1>8, Zenon DEF DropRev, At, Asking, Told
  <2>2. Going(p, h[p].then, h[p].res, h[p].late, "none")
    BY Zenon, <1>8, Moves
  <2>3. CachedKeys' = CachedKeys /\ \A k \in CachedKeys : entries'[k] \in CacheEntry
    BY <1>8, MarkEffects, Zenon DEF Marked
  <2>4. Typed'
    BY <1>8, <2>2, <2>3, Zenon DEF DropRev, Going, Only, Typed, Unindex
  <2> QED
    BY Zenon, <2>1, <2>2, <2>4, GoingTold
<1>9. ASSUME NEW p \in Slot, Insert(p) PROVE Typed' /\ Told'
  <2>1. Asking(p) /\ UNCHANGED <<hist, snaps, issued, entries, deps, rev>>
    BY Zenon, <1>9 DEF Insert, At, Asking
  <2>2. PICK s \in {"unindex", "put"} : Going(p, s, h[p].res, h[p].late, h[p].then)
    BY Zenon, <1>9, Moves
  <2>3. Typed'
    BY Zenon, <2>1, <2>2 DEF Going, Only, Typed, CachedKeys
  <2> QED
    BY Zenon, <2>1, <2>2, <2>3, GoingTold
<1>10. ASSUME NEW p \in Slot, Put(p) PROVE Typed' /\ Told'
  <2>1. Asking(p) /\ UNCHANGED <<hist, snaps, issued, deps, rev>>
    BY <1>10, Zenon DEF Put, At, Asking
  <2>2. \/ Going(p, "addDeps", h[p].res, h[p].late, h[p].then)
        \/ Going(p, "dropDeps", h[p].res, h[p].late, "addDeps")
    BY Zenon, <1>10, Moves
  <2>3. \A k \in CachedKeys' : k \in AnyKey /\ entries'[k] \in CacheEntry
    BY Zenon, <1>10, PutEffect
  <2>4. Typed'
    BY Zenon, <2>1, <2>2, <2>3 DEF Going, Only, Typed
  <2> QED
    BY Zenon, <2>1, <2>2, <2>4, GoingTold
<1>11. ASSUME NEW p \in Slot, AddDeps(p) PROVE Typed' /\ Told'
  <2>1. Asking(p) /\ UNCHANGED <<hist, snaps, issued, entries, rev>>
    BY Zenon, <1>11 DEF AddDeps, At, Asking
  <2>2. Going(p, "addRev", h[p].res, h[p].late, h[p].then)
    BY Zenon, <1>11, Moves
  <2>3. DepsOf(h[p].key.q, h[p].res) \in Results
    BY Zenon, <1>1, <2>1, DepsTypes DEF Told, Key
  <2>4. \A k \in DOMAIN deps' : deps'[k] \in Results
    BY Zenon, <1>11, <2>3 DEF AddDeps, Typed, Extend
  <2>5. Typed'
    BY Zenon, <2>1, <2>2, <2>4 DEF Going, Only, Typed, CachedKeys
  <2> QED
    BY Zenon, <2>1, <2>2, <2>5, GoingTold
<1>12. ASSUME NEW p \in Slot, AddRev(p) PROVE Typed' /\ Told'
  <2>1. Asking(p) /\ UNCHANGED <<hist, snaps, issued, deps>>
    BY Zenon, <1>12 DEF AddRev, At, Asking
  <2>2. Going(p, "done", h[p].res, FALSE, h[p].then)
    BY Zenon, <1>12, Moves
  <2>3. CachedKeys' = CachedKeys /\ \A k \in CachedKeys : entries'[k] \in CacheEntry
    BY <1>12, MarkEffects, ZenonT(30) DEF Marked
  <2>4. \A x \in rev' : x[2] \in AnyKey
    <3>1. h[p].key \in AnyKey /\ \A x \in rev : x[2] \in AnyKey
      BY Zenon, <1>1, <1>12 DEF Typed
    <3>2. \A x \in rev' : x \in rev \/ x[2] = h[p].key
      BY <1>12 DEF AddRev
    <3> QED
      BY Zenon, <3>1, <3>2
  <2>5. Typed'
    BY <2>1, <2>2, <2>3, <2>4, ZenonT(30) DEF Going, Only, Typed
  <2> QED
    BY ZenonT(30), <2>1, <2>2, <2>5, GoingTold
<1>13. ASSUME NEW p \in Slot, InvalidateRead(p) PROVE Typed' /\ Told'
  <2>1. PICK r \in Handler : /\ h' = Outdate(p, r)
                             /\ r.pc \in {"idle", "invPop"} /\ r.id = 0 /\ r.key.t = Now
    BY Zenon, <1>1, <1>13, ReadsKeys
  <2>2. Starts(p, r) /\ OthersLate(p)
    BY Zenon, <1>1, <2>1, Outdates
  <2>3. UNCHANGED <<hist, snaps, issued, entries, deps, rev>>
    BY Zenon, <1>13 DEF InvalidateRead, ReadKeys
  <2>4. Typed'
    BY Zenon, <2>2, <2>3 DEF Starts, Typed, CachedKeys
  <2>5. /\ \A s \in Slot \ {p} : /\ h'[s].pc = h[s].pc /\ h'[s].key = h[s].key /\ h'[s].id = h[s].id
                                 /\ h'[s].then = h[s].then /\ h'[s].t = h[s].t
        /\ Latest.basis \in Nat
    BY <2>2, LatestType DEF OthersLate
  <2> QED
    BY <2>1, <2>2, <2>3, <2>4, <2>5, SameSnaps, StartsTold
<1>14. ASSUME NEW p \in Slot, InvalidatePop(p) PROVE Typed' /\ Told'
  <2>1. Going(p, "invDeps", h[p].res, h[p].late, h[p].then)
    BY <1>1, <1>14, Goes, Zenon DEF InvalidatePop
  <2>2. Typed'
    BY Zenon, <1>14, <2>1 DEF InvalidatePop, Going, Only, Typed, CachedKeys, Forget
  <2>3. UNCHANGED <<hist, snaps, issued>>
    BY Zenon, <1>14 DEF InvalidatePop
  <2> QED
    BY Zenon, <2>1, <2>2, <2>3, GoingTold
<1>15. ASSUME NEW p \in Slot, InvalidateDeps(p) PROVE Typed' /\ Told'
  <2>1. Only(p) /\ h'[p] = Idle
    BY <1>1, <1>15, Goes, Zenon DEF InvalidateDeps
  <2>2. CachedKeys' = CachedKeys /\ \A k \in CachedKeys : entries'[k] \in CacheEntry
    BY <1>15, MarkEffects, Zenon DEF Marked
  <2>3. UNCHANGED <<hist, snaps, issued>>
    BY Zenon, <1>15 DEF InvalidateDeps
  <2>4. Typed'
    BY Zenon, <1>15, <2>1, <2>2 DEF InvalidateDeps, Only, Typed, Forget
  <2> QED
    BY Zenon, <2>1, <2>3, <2>4, SameSnaps, EndsTold
<1>16. ASSUME NEW p \in Slot, Release(p) PROVE Typed' /\ Told'
  <2>1. Only(p) /\ h'[p] = Idle /\ UNCHANGED <<hist, snaps, issued, entries, deps, rev>>
    BY <1>1, <1>16, Goes, ZenonT(30) DEF Release
  <2>2. Typed'
    BY Zenon, <2>1 DEF Only, Typed, CachedKeys
  <2> QED
    BY Zenon, <2>1, <2>2, SameSnaps, EndsTold
<1>17. ASSUME NEW p \in Slot, NEW id, SnapshotExpired(p, id) PROVE Typed' /\ Told'
  <2>1. Only(p) /\ h'[p] = Idle /\ UNCHANGED <<hist, issued, entries, deps, rev>>
    BY <1>1, <1>17, Goes, ZenonT(30) DEF SnapshotExpired
  <2>2. Typed'
    BY Zenon, <2>1 DEF Only, Typed, CachedKeys
  <2>3. KeepsSnaps
    BY <1>17, Zenon DEF SnapshotExpired, Forget, KeepsSnaps, Told
  <2> QED
    BY Zenon, <2>1, <2>2, <2>3, SameSnaps, EndsTold
<1>18. ASSUME NEW p \in Slot, CreateSnapshot(p) PROVE Typed' /\ Told'
  <2>1. Only(p) /\ h'[p] = Idle /\ UNCHANGED <<hist, entries, deps, rev>> /\ h[p].t \in 1..Latest.basis
    BY <1>1, <1>18, Goes, ZenonT(30) DEF CreateSnapshot, Told
  <2>2. /\ issued' \in Seq(1..MaxTx) /\ Len(issued') = Len(issued) + 1 /\ Len(issued) \in Nat
        /\ issued'[Len(issued) + 1] = h[p].t /\ \A i \in 1..Len(issued) : issued'[i] = issued[i]
    <3>1. Latest.basis \in 1..MaxTx /\ issued \in Seq(1..MaxTx)
      BY Zenon, LatestType DEF Typed
    <3>2. h[p].t \in 1..MaxTx
      BY <2>1, <3>1, QueryCacheAssumption
    <3>3. issued' = Append(issued, h[p].t)
      BY <1>18, Zenon DEF CreateSnapshot
    <3> QED
      BY <3>1, <3>2, <3>3, AppendedTo
  <2>3. Typed'
    <3>1. \A i \in 1..Len(issued') : issued'[i] \in 1..Latest.basis
      <4>1. \A i \in 1..Len(issued) : issued[i] \in 1..Latest.basis
        BY Zenon DEF Typed
      <4> QED
        BY <2>1, <2>2, <4>1
    <3> QED
      BY <2>1, <2>2, <3>1, ZenonT(30) DEF Only, Typed, CachedKeys
  <2>4. /\ DOMAIN snaps' = DOMAIN snaps \cup {Len(issued) + 1}
        /\ \A i \in DOMAIN snaps' : snaps'[i] = IF i = Len(issued) + 1 THEN [t |-> h[p].t, age |-> 0] ELSE snaps[i]
    BY <1>18, Zenon DEF CreateSnapshot, Extend
  <2>5. \A i \in DOMAIN snaps' : i \in 1..Len(issued') /\ snaps'[i] \in Snapshot /\ snaps'[i].t = issued'[i]
    <3>1. \A i \in DOMAIN snaps : i \in 1..Len(issued) /\ snaps[i] \in Snapshot /\ snaps[i].t = issued[i]
      BY Zenon DEF Told
    <3>2. [t |-> h[p].t, age |-> 0] \in Snapshot
      BY <2>1 DEF Snapshot
    <3> QED
      BY <2>2, <2>4, <3>1, <3>2
  <2>6. h'[p].pc = "idle" /\ h'[p].id = 0 /\ h'[p].key.t = Now
    BY <2>1 DEF Idle, NoKey
  <2>7. \A s \in Slot : Asking(s)' => h'[s].key \in Key
    BY Zenon, <2>1, <2>6 DEF Only, Told, Asking
  <2>8. \A s \in Slot : h'[s].pc \in {"dropDeps", "dropRev"} => h'[s].then \in {"database", "addDeps"}
    BY Zenon, <2>1, <2>6 DEF Only, Told
  <2>9. \A s \in Slot : IF h'[s].id = 0 THEN h'[s].key.t = Now
                        ELSE h'[s].id \in 1..Len(issued') /\ h'[s].key.t = issued'[h'[s].id]
    <3>1. \A s \in Slot \ {p} : IF h'[s].id = 0 THEN h'[s].key.t = Now
                               ELSE h'[s].id \in 1..Len(issued) /\ h'[s].key.t = issued[h'[s].id]
      BY Zenon, <2>1 DEF Only, Told
    <3> QED
      BY <2>2, <2>6, <3>1
  <2>10. \A s \in Slot : h'[s].pc = "snapshot" => h'[s].t \in 1..Latest.basis
    BY Zenon, <2>1, <2>6 DEF Only, Told, At
  <2> QED
    BY Zenon, <2>1, <2>3, <2>5, <2>7, <2>8, <2>9, <2>10 DEF Told, At
<1>19. ASSUME NEW p \in Slot, NEW k \in Key, NEW id \in Nat, Begins(p, k, id), UNCHANGED <<hist, index, snaps, issued>>,
              IF id = 0 THEN k.t = Now ELSE id \in 1..Len(issued) /\ k.t = issued[id]
       PROVE  Typed' /\ Told'
  <2>1. PICK r \in Handler : h' = [h EXCEPT ![p] = r] /\ r.pc = "lookup" /\ r.key = k /\ r.id = id
    BY <1>19, Begun
  <2>2. Only(p) /\ Starts(p, r) /\ Latest.basis \in Nat
    BY <1>1, <2>1, Becomes, LatestType DEF Only, Starts
  <2>3. Typed'
    BY Zenon, <1>19, <2>2 DEF Only, Typed, CachedKeys
  <2> QED
    BY <1>19, <2>1, <2>2, <2>3, SameSnaps, StartsTold DEF Only
<1>20. ASSUME NEW p \in Slot, NEW q \in Queries, StartQuery(p, q) PROVE Typed' /\ Told'
  <2>1. PICK k \in Key : k = [q |-> q, t |-> Now]
    BY Zenon DEF Key
  <2> QED
    BY Zenon, <1>19, <1>20, <2>1 DEF StartQuery
<1>21. ASSUME NEW p \in Slot, NEW q \in Queries, NEW id, StartSnapshotQuery(p, q, id)
       PROVE  Typed' /\ Told'
  <2>1. id \in 1..Len(issued) /\ id \in Nat \ {0} /\ snaps[id].t = issued[id]
    BY Zenon, <1>21, SnapshotKey
  <2>2. PICK k \in Key : k = [q |-> q, t |-> snaps[id].t]
    BY Zenon, <1>21, SnapshotKey
  <2>3. Begins(p, k, id) /\ k.t = issued[id]
    BY Zenon, <1>21, <2>1, <2>2 DEF StartSnapshotQuery
  <2> QED
    BY Zenon, <1>19, <1>21, <2>1, <2>3 DEF StartSnapshotQuery
<1>22. ASSUME NEW p \in Slot, ReadBasis(p) PROVE Typed' /\ Told'
  <2>1. PICK r \in Handler : h' = [h EXCEPT ![p] = r] /\ r.pc = "snapshot" /\ r.id = 0 /\ r.key.t = Now /\ r.t = Latest.basis
    BY Zenon, <1>22, Based
  <2>2. Only(p) /\ Starts(p, r) /\ Latest.basis \in 1..Latest.basis /\ UNCHANGED <<hist, index, snaps, issued>>
    <3>1. Only(p) /\ h'[p] = r
      BY <1>1, <2>1, Becomes, Zenon
    <3>2. Latest.basis \in 1..MaxTx
      BY Zenon, LatestType
    <3>3. Latest.basis \in 1..Latest.basis
      BY SMTT(30), <3>2, QueryCacheAssumption
    <3> QED
      BY <1>22, <3>1, <3>3, Zenon DEF Only, Starts, ReadBasis
  <2>3. Typed'
    BY Zenon, <2>2 DEF Only, Typed, CachedKeys
  <2> QED
    BY <2>1, <2>2, <2>3, SameSnaps, StartsTold DEF Only
<1>23. ASSUME NEW p \in Slot, NEW t \in 2..MaxTx, NEW e \in Entity, NEW v \in Val \cup {None}, Commit(p, t, e, v) PROVE Typed' /\ Told'
  <2>1. PICK r \in Handler : h' = [h EXCEPT ![p] = r] /\ r.pc = "invRead" /\ r.id = 0 /\ r.key.t = Now
    BY Zenon, <1>23, Committed
  <2>2. Only(p) /\ Starts(p, r) /\ UNCHANGED <<index, snaps, issued>>
    BY Zenon, <1>1, <1>23, <2>1, Becomes DEF Only, Starts, Commit
  <2>3. /\ hist' \in Seq(Version) /\ Len(hist') = Len(hist) + 1 /\ Len(hist) \in Nat
        /\ Latest.basis \in 1..MaxTx /\ Latest'.basis \in 1..MaxTx /\ Latest.basis <= Latest'.basis
    BY <1>23, Grows, LatestType, ZenonT(30) DEF Commit
  <2>4. Typed'
    BY <2>2, <2>3 DEF Only, Typed, CachedKeys
  <2> QED
    BY <2>1, <2>2, <2>3, <2>4, SameSnaps, StartsTold DEF Only
<1>24. ASSUME NEW p \in Slot, NEW t \in 2..MaxTx, NEW e \in Entity, NEW v \in Val \cup {None}, CommitUnheard(p, t, e, v) PROVE Typed' /\ Told'
  <2>1. Starts(p, Idle) /\ OthersLate(p)
    BY Zenon, <1>1, <1>24, IdleHandler, Outdates DEF CommitUnheard
  <2>2. Idle.pc = "idle" /\ Idle.id = 0 /\ Idle.key.t = Now
    BY Zenon DEF Idle, NoKey
  <2>3. /\ hist' \in Seq(Version) /\ Len(hist') = Len(hist) + 1 /\ Len(hist) \in Nat
        /\ Latest.basis \in 1..MaxTx /\ Latest'.basis \in 1..MaxTx /\ Latest.basis <= Latest'.basis
    BY <1>24, Grows, LatestType, ZenonT(30) DEF CommitUnheard
  <2>4. CachedKeys' = CachedKeys /\ \A k \in CachedKeys : entries'[k] \in CacheEntry
    BY <1>24, MarkEffects, ZenonT(30) DEF Marked
  <2>5. Typed'
    BY <1>24, <2>1, <2>3, <2>4 DEF CommitUnheard, Starts, Typed
  <2>6. /\ \A s \in Slot \ {p} : /\ h'[s].pc = h[s].pc /\ h'[s].key = h[s].key /\ h'[s].id = h[s].id
                                 /\ h'[s].then = h[s].then /\ h'[s].t = h[s].t
        /\ UNCHANGED <<snaps, issued>>
    BY <1>24, <2>1, ZenonT(30) DEF OthersLate, CommitUnheard
  <2> QED
    BY <2>1, <2>2, <2>3, <2>5, <2>6, SameSnaps, StartsTold
<1>25. CASE CleanupExpired
  <2>1. UNCHANGED <<hist, index, h, issued>>
    BY Zenon, <1>25 DEF CleanupExpired
  <2>2. KeepsSnaps
    BY Zenon, <1>25 DEF CleanupExpired, Forget, KeepsSnaps, Told
  <2> QED
    BY <2>1, <2>2, Zenon DEF Typed, Told, CachedKeys, Asking, At, KeepsSnaps
<1>26. CASE Tick
  <2>1. UNCHANGED <<hist, deps, rev, h, issued>>
    BY Zenon, <1>26 DEF Tick
  <2>2. KeepsSnaps
    <3>1. DOMAIN snaps' = DOMAIN snaps
      BY Zenon, <1>26 DEF Tick
    <3>2. ASSUME NEW i \in DOMAIN snaps PROVE snaps'[i] \in Snapshot /\ snaps'[i].t = snaps[i].t
      <4>1. PICK x \in Snapshot : x = snaps[i]
        BY Zenon DEF Told
      <4>2. PICK a \in Nat : a = IF x.age = SnapTTL THEN x.age ELSE x.age + 1
        BY DEF Snapshot
      <4>3. snaps'[i] = [x EXCEPT !.age = a]
        BY Zenon, <1>26, <4>1, <4>2 DEF Tick
      <4> QED
        BY Zenon, <4>1, <4>3 DEF Snapshot
    <3> QED
      BY Zenon, <3>1, <3>2 DEF KeepsSnaps
  <2>3. CachedKeys' = CachedKeys /\ \A k \in CachedKeys : entries'[k] \in CacheEntry
    BY Zenon, <1>26, Ticks
  <2> QED
    BY Zenon, <2>1, <2>2, <2>3 DEF Typed, Told, Asking, At, KeepsSnaps
<1>27. CASE UNCHANGED vars
  BY <1>27, Zenon DEF vars, Typed, Told, CachedKeys, Asking, At
<1> QED
  BY ZenonT(30), <1>2, <1>3, <1>4, <1>5, <1>6, <1>7, <1>8, <1>9, <1>10, <1>11, <1>12, <1>13, <1>14, <1>15, <1>16, <1>17,
     <1>18, <1>20, <1>21, <1>22, <1>23, <1>24, <1>25, <1>26, <1>27 DEF Next, Start, Step

-----------------------------------------------------------------------------
(* What most steps leave alone *)

\* Between reading what it will store and having registered it.
Writing(p) == At(p, "put") \/ Registering(p)

\* No handler reads a new result from the database, puts an entry or finishes
\* registering one; no entry appears, changes its result or loses a mark.
Keeps ==
    /\ \A s \in Slot : Storing(s)' =>
          Storing(s) /\ h'[s].key = h[s].key /\ h'[s].res = h[s].res /\ (h[s].late => h'[s].late)
    /\ \A s \in Slot : Registering(s)' => Registering(s)
    /\ \A s \in Slot : (At(s, "put") => At(s, "put")') /\ (Registering(s) => Registering(s)')
    /\ \A s \in Slot : At(s, "done")' =>
          /\ h'[s].key = h[s].key
          /\ \/ HasResult(s) /\ h'[s].res = h[s].res
             \/ h[s].key \in CachedKeys /\ h'[s].res = entries[h[s].key].res
    /\ \A k \in CachedKeys' : /\ k \in CachedKeys /\ entries'[k].res = entries[k].res
                              /\ entries[k].marks \subseteq entries'[k].marks

\* The part of Keeps about the entries.
KeepsEntries ==
    \A k \in CachedKeys' : /\ k \in CachedKeys /\ entries'[k].res = entries[k].res
                           /\ entries[k].marks \subseteq entries'[k].marks

\* A handler that neither stores nor answers before and after the step.
LEMMA AsideKeeps ==
    ASSUME NEW p \in Slot, KeepsEntries,
           \A s \in Slot \ {p} : /\ h'[s].pc = h[s].pc /\ h'[s].key = h[s].key /\ h'[s].res = h[s].res
                                 /\ h'[s].then = h[s].then /\ (h[s].late => h'[s].late),
           h[p].pc \in {"idle", "done", "snapshot", "invRead", "invPop", "invDeps"},
           h'[p].pc \in {"idle", "lookup", "snapshot", "invRead", "invPop", "invDeps"}
    PROVE  Keeps
<1>1. ASSUME NEW s \in Slot
      PROVE  /\ Storing(s)' =>
                  Storing(s) /\ h'[s].key = h[s].key /\ h'[s].res = h[s].res /\ (h[s].late => h'[s].late)
             /\ Registering(s)' => Registering(s)
             /\ (At(s, "put") => At(s, "put")') /\ (Registering(s) => Registering(s)')
             /\ At(s, "done")' => h'[s].key = h[s].key /\ HasResult(s) /\ h'[s].res = h[s].res
  <2>1. CASE s = p
    BY Zenon, <2>1 DEF Storing, Registering, At
  <2>2. CASE s # p
    BY <2>2, Zenon DEF Storing, Registering, At, HasResult
  <2> QED
    BY Zenon, <2>1, <2>2
<1> QED
  BY <1>1, ZenonT(30) DEF Keeps, KeepsEntries

\* A handler that answers from the cache, or goes on storing, and does not read
\* or put or finish.
LEMMA GoingKeeps ==
    ASSUME NEW p \in Slot, KeepsEntries, NEW pc, NEW res, NEW late, NEW then, Going(p, pc, res, late, then),
           pc = "done" \/ late = h[p].late,
           \/ ~Storing(p) /\ pc = "done" /\ h[p].key \in CachedKeys /\ res = entries[h[p].key].res
           \/ h[p].pc \in {"insert", "unindex"} /\ pc \in {"unindex", "put"} /\ res = h[p].res
           \/ Registering(p) /\ pc = "addRev" /\ res = h[p].res
    PROVE  Keeps
<1>1. ASSUME NEW s \in Slot
      PROVE  /\ Storing(s)' =>
                  Storing(s) /\ h'[s].key = h[s].key /\ h'[s].res = h[s].res /\ (h[s].late => h'[s].late)
             /\ Registering(s)' => Registering(s)
             /\ (At(s, "put") => At(s, "put")') /\ (Registering(s) => Registering(s)')
             /\ At(s, "done")' =>
                  /\ h'[s].key = h[s].key
                  /\ \/ HasResult(s) /\ h'[s].res = h[s].res
                     \/ h[s].key \in CachedKeys /\ h'[s].res = entries[h[s].key].res
  <2>1. CASE s = p
    BY <2>1, Zenon DEF Storing, Registering, At, Going
  <2>2. CASE s # p
    BY <2>2, Zenon DEF Storing, Registering, At, HasResult, Going, Only
  <2> QED
    BY Zenon, <2>1, <2>2
<1> QED
  BY <1>1, Zenon DEF Keeps, KeepsEntries

\* A handler on its way from the cache to the database.
LEMMA LookupKeeps ==
    ASSUME NEW p \in Slot, KeepsEntries, h[p].pc = "lookup", NEW then,
           \E pc \in {"database", "dropDeps"} : Going(p, pc, h[p].res, h[p].late, then) /\ (pc = "dropDeps" => then = "database")
    PROVE  Keeps
<1>1. ASSUME NEW s \in Slot
      PROVE  /\ Storing(s)' =>
                  Storing(s) /\ h'[s].key = h[s].key /\ h'[s].res = h[s].res /\ (h[s].late => h'[s].late)
             /\ Registering(s)' => Registering(s)
             /\ (At(s, "put") => At(s, "put")') /\ (Registering(s) => Registering(s)')
             /\ At(s, "done")' => h'[s].key = h[s].key /\ HasResult(s) /\ h'[s].res = h[s].res
  <2>1. CASE s = p
    BY Zenon, <2>1 DEF Storing, Registering, At, Going
  <2>2. CASE s # p
    BY <2>2, Zenon DEF Storing, Registering, At, HasResult, Going, Only
  <2> QED
    BY Zenon, <2>1, <2>2
<1> QED
  BY <1>1, ZenonT(30) DEF Keeps, KeepsEntries

\* A removal goes on, and to where it was called from.
LEMMA DropKeeps ==
    ASSUME NEW p \in Slot, KeepsEntries, h[p].pc \in {"dropDeps", "dropRev"}, h[p].then \in {"database", "addDeps"},
           \/ Going(p, "dropRev", h[p].res, h[p].late, h[p].then)
           \/ Going(p, h[p].then, h[p].res, h[p].late, "none")
    PROVE  Keeps
<1>1. ASSUME NEW s \in Slot
      PROVE  /\ Storing(s)' =>
                  Storing(s) /\ h'[s].key = h[s].key /\ h'[s].res = h[s].res /\ (h[s].late => h'[s].late)
             /\ Registering(s)' => Registering(s)
             /\ (At(s, "put") => At(s, "put")') /\ (Registering(s) => Registering(s)')
             /\ At(s, "done")' => h'[s].key = h[s].key /\ HasResult(s) /\ h'[s].res = h[s].res
  <2>1. CASE s = p
    BY Zenon, <2>1 DEF Storing, Registering, At, Going
  <2>2. CASE s # p
    BY Zenon, <2>2 DEF Storing, Registering, At, HasResult, Going, Only
  <2> QED
    BY Zenon, <2>1, <2>2
<1> QED
  BY <1>1, ZenonT(30) DEF Keeps, KeepsEntries

LEMMA SameEntries ==
    ASSUME Typed, UNCHANGED entries
    PROVE  KeepsEntries
BY Zenon DEF KeepsEntries, CachedKeys

LEMMA ForgetEntries ==
    ASSUME Typed, NEW keys, entries' = Forget(entries, keys)
    PROVE  KeepsEntries
BY Zenon DEF KeepsEntries, CachedKeys, Forget

LEMMA MarkEntries ==
    ASSUME Typed, NEW keys, NEW add, Marked(keys, add, {})
    PROVE  KeepsEntries
BY Zenon DEF Marked, KeepsEntries

\* Every step but a read of the database, a put and the end of a registration.
LEMMA KeepsStep ==
    ASSUME Typed, Told, [Next]_vars
    PROVE  Keeps \/ \E p \in Slot : ReadDatabase(p) \/ Put(p) \/ AddRev(p)
<1> USE DEF index
<1>1. h \in [Slot -> Handler] /\ {"torn"} \in SUBSET {"torn", "late", "lost"} /\ {"lost"} \in SUBSET {"torn", "late", "lost"}
  BY Zenon DEF Typed
<1>2. ASSUME NEW p \in Slot, Hit(p) PROVE Keeps
  <2>1. Going(p, "done", entries[h[p].key].res, FALSE, h[p].then) /\ ~Storing(p) /\ h[p].key \in CachedKeys
    BY <1>2, Moves, Zenon DEF Hit, At, Storing
  <2>2. KeepsEntries
    BY Zenon, <1>2, SameEntries DEF Hit
  <2> QED
    BY ZenonT(30), <2>1, <2>2, GoingKeeps
<1>3. ASSUME NEW p \in Slot, Miss(p) PROVE Keeps
  <2>1. Going(p, "database", h[p].res, h[p].late, h[p].then) /\ h[p].pc = "lookup"
    BY <1>3, Moves, Zenon DEF Miss, At
  <2>2. KeepsEntries
    BY Zenon, <1>3, SameEntries DEF Miss
  <2> QED
    BY Zenon, <2>1, <2>2, LookupKeeps
<1>4. ASSUME NEW p \in Slot, Expired(p) PROVE Keeps
  <2>1. Going(p, "dropDeps", h[p].res, h[p].late, "database") /\ h[p].pc = "lookup"
    BY <1>4, Moves, ZenonT(30) DEF Expired, At
  <2>2. KeepsEntries
    BY <1>4, ForgetEntries, ZenonT(30) DEF Expired
  <2> QED
    BY ZenonT(30), <2>1, <2>2, LookupKeeps
<1>5. ASSUME NEW p \in Slot, DropDeps(p) PROVE Keeps
  <2>1. h[p].pc = "dropDeps" /\ h[p].then \in {"database", "addDeps"}
    BY <1>5, Zenon DEF DropDeps, At, Told
  <2>2. \/ Going(p, "dropRev", h[p].res, h[p].late, h[p].then)
        \/ Going(p, h[p].then, h[p].res, h[p].late, "none")
    BY Zenon, <1>5, Moves
  <2>3. KeepsEntries
    BY Zenon, <1>5, MarkEffects, MarkEntries
  <2> QED
    BY Zenon, <2>1, <2>2, <2>3, DropKeeps
<1>6. ASSUME NEW p \in Slot, DropRev(p) PROVE Keeps
  <2>1. h[p].pc = "dropRev" /\ h[p].then \in {"database", "addDeps"}
    BY <1>6, Zenon DEF DropRev, At, Told
  <2>2. Going(p, h[p].then, h[p].res, h[p].late, "none")
    BY Zenon, <1>6, Moves
  <2>3. KeepsEntries
    BY ZenonT(30), <1>6, MarkEffects, MarkEntries
  <2> QED
    BY Zenon, <2>1, <2>2, <2>3, DropKeeps
<1>7. ASSUME NEW p \in Slot, Insert(p) PROVE Keeps
  <2>1. h[p].pc = "insert" /\ \E s \in {"unindex", "put"} : Going(p, s, h[p].res, h[p].late, h[p].then)
    BY <1>7, Moves, Zenon DEF Insert, At
  <2>2. KeepsEntries
    BY Zenon, <1>7, SameEntries DEF Insert
  <2> QED
    BY Zenon, <2>1, <2>2, GoingKeeps
<1>8. ASSUME NEW p \in Slot, UnindexOld(p) PROVE Keeps
  <2>1. h[p].pc = "unindex" /\ Going(p, "put", h[p].res, h[p].late, h[p].then)
    BY <1>8, Moves, Zenon DEF UnindexOld, At
  <2>2. KeepsEntries
    BY Zenon, <1>8, SameEntries DEF UnindexOld
  <2> QED
    BY Zenon, <2>1, <2>2, GoingKeeps
<1>9. ASSUME NEW p \in Slot, AddDeps(p) PROVE Keeps
  <2>1. Registering(p) /\ Going(p, "addRev", h[p].res, h[p].late, h[p].then)
    BY <1>9, Moves, Zenon DEF AddDeps, At, Registering
  <2>2. KeepsEntries
    BY <1>9, SameEntries, Zenon DEF AddDeps
  <2> QED
    BY Zenon, <2>1, <2>2, GoingKeeps
<1>10. ASSUME NEW p \in Slot, InvalidateRead(p) PROVE Keeps
  <2>1. PICK r \in Handler : h' = Outdate(p, r) /\ r.pc \in {"idle", "invPop"}
    BY Zenon, <1>10, ReadsKeys
  <2>2. Starts(p, r) /\ OthersLate(p) /\ h[p].pc = "invRead"
    BY Zenon, <1>1, <1>10, <2>1, Outdates DEF InvalidateRead, ReadKeys, At
  <2>3. KeepsEntries
    BY Zenon, <1>10, SameEntries DEF InvalidateRead, ReadKeys
  <2> QED
    BY <2>1, <2>2, <2>3, AsideKeeps DEF Starts, OthersLate
<1>11. ASSUME NEW p \in Slot, InvalidatePop(p) PROVE Keeps
  <2>1. Going(p, "invDeps", h[p].res, h[p].late, h[p].then) /\ h[p].pc = "invPop"
    BY <1>1, <1>11, Goes, Zenon DEF InvalidatePop, At
  <2>2. KeepsEntries
    BY <1>11, ForgetEntries, Zenon DEF InvalidatePop
  <2> QED
    BY Zenon, <2>1, <2>2, AsideKeeps DEF Going, Only
<1>12. ASSUME NEW p \in Slot, InvalidateDeps(p) PROVE Keeps
  <2>1. Only(p) /\ h'[p] = Idle /\ h[p].pc = "invDeps"
    BY <1>1, <1>12, Goes, ZenonT(30) DEF InvalidateDeps, At
  <2>2. KeepsEntries
    BY Zenon, <1>12, MarkEffects, MarkEntries
  <2> QED
    BY <2>1, <2>2, AsideKeeps DEF Only, Idle
<1>13. ASSUME NEW p \in Slot, h[p].pc \in {"idle", "done", "snapshot"}, Only(p), UNCHANGED entries,
              h'[p].pc \in {"idle", "lookup", "snapshot", "invRead"}
       PROVE  Keeps
  BY <1>13, SameEntries, AsideKeeps, ZenonT(30) DEF Only
<1>14. ASSUME NEW p \in Slot, CreateSnapshot(p) \/ Release(p) \/ \E id \in DOMAIN issued : SnapshotExpired(p, id)
       PROVE  Keeps
  <2>1. Only(p) /\ h'[p] = Idle /\ h[p].pc \in {"idle", "done", "snapshot"} /\ UNCHANGED entries
    BY <1>1, <1>14, Goes, Zenon DEF CreateSnapshot, Release, SnapshotExpired, At
  <2> QED
    BY <1>13, <2>1 DEF Idle
<1>15. ASSUME NEW p \in Slot, NEW q \in Queries, StartQuery(p, q) PROVE Keeps
  <2>1. PICK k \in Key : k = [q |-> q, t |-> Now]
    BY Zenon DEF Key
  <2>2. Begins(p, k, 0) /\ h[p].pc = "idle" /\ UNCHANGED entries
    BY Zenon, <1>15, <2>1 DEF StartQuery, At
  <2> QED
    BY <1>1, <1>13, <2>2, Begun, Becomes
<1>16. ASSUME NEW p \in Slot, NEW q \in Queries, NEW id, StartSnapshotQuery(p, q, id) PROVE Keeps
  <2>1. PICK k \in Key : k = [q |-> q, t |-> snaps[id].t] /\ id \in Nat
    BY Zenon, <1>16, SnapshotKey
  <2>2. Begins(p, k, id) /\ h[p].pc = "idle" /\ UNCHANGED entries
    BY Zenon, <1>16, <2>1 DEF StartSnapshotQuery, At
  <2> QED
    BY <1>1, <1>13, <2>1, <2>2, Begun, Becomes
<1>17. ASSUME NEW p \in Slot, ReadBasis(p) PROVE Keeps
  <2>1. h[p].pc = "idle" /\ UNCHANGED entries
    BY Zenon, <1>17 DEF ReadBasis, At
  <2> QED
    BY Zenon, <1>1, <1>13, <1>17, <2>1, Based, Becomes
<1>18. ASSUME NEW p \in Slot, NEW t \in 2..MaxTx, NEW e \in Entity, NEW v \in Val \cup {None}, Commit(p, t, e, v) PROVE Keeps
  <2>1. h[p].pc = "idle" /\ UNCHANGED entries
    BY <1>18, ZenonT(30) DEF Commit, At
  <2> QED
    BY Zenon, <1>1, <1>13, <1>18, <2>1, Committed, Becomes
<1>19. ASSUME NEW p \in Slot, NEW t \in 2..MaxTx, NEW e \in Entity, NEW v \in Val \cup {None}, CommitUnheard(p, t, e, v) PROVE Keeps
  <2>1. Starts(p, Idle) /\ OthersLate(p) /\ h[p].pc = "idle"
    BY <1>1, <1>19, IdleHandler, Outdates, Zenon DEF CommitUnheard, At
  <2>2. KeepsEntries
    BY ZenonT(30), <1>19, MarkEffects, MarkEntries
  <2> QED
    BY <2>1, <2>2, AsideKeeps DEF Starts, OthersLate, Idle
<1>20. CASE CleanupExpired \/ Tick \/ UNCHANGED vars
  <2>1. UNCHANGED h
    BY <1>20, ZenonT(30) DEF CleanupExpired, Tick, vars
  <2>2. KeepsEntries
    BY Zenon, <1>20, SameEntries, Ticks DEF CleanupExpired, vars, KeepsEntries
  <2> QED
    BY Zenon, <2>1, <2>2 DEF Keeps, KeepsEntries, Storing, Registering, At, HasResult
<1> QED
  BY Zenon, <1>2, <1>3, <1>4, <1>5, <1>6, <1>7, <1>8, <1>9, <1>10, <1>11, <1>12, <1>14, <1>15, <1>16, <1>17,
     <1>18, <1>19, <1>20 DEF Next, Start, Step

-----------------------------------------------------------------------------
(* A query on a database value *)

\* Only a transaction commits a state.
LEMMA HistSame ==
    ASSUME [Next]_vars
    PROVE  \/ UNCHANGED hist
           \/ \E p \in Slot, t \in 2..MaxTx, e \in Entity, v \in Val \cup {None} : Commit(p, t, e, v) \/ CommitUnheard(p, t, e, v)
BY ZenonT(30) DEF Next, Start, Step, vars, Hit, Miss, Expired, DropDeps, DropRev, ReadDatabase, Insert, UnindexOld, Put, AddDeps,
         AddRev, InvalidateRead, ReadKeys, InvalidatePop, InvalidateDeps, CreateSnapshot, Release, StartQuery,
         StartSnapshotQuery, SnapshotExpired, ReadBasis, CleanupExpired, Tick

\* No committed state is forgotten or replaced.
LEMMA HistStep ==
    ASSUME Typed, [Next]_vars
    PROVE  /\ Len(hist) \in Nat /\ Len(hist') \in Nat /\ Len(hist) <= Len(hist')
           /\ \A i \in 1..Len(hist) : hist'[i] = hist[i]
<1>1. Len(hist) \in Nat
  BY DEF Typed
<1>2. ASSUME NEW p \in Slot, NEW t \in 2..MaxTx, NEW e \in Entity, NEW v \in Val \cup {None}, Commit(p, t, e, v) \/ CommitUnheard(p, t, e, v)
      PROVE  /\ Len(hist') \in Nat /\ Len(hist) <= Len(hist')
             /\ \A i \in 1..Len(hist) : hist'[i] = hist[i]
  <2>1. hist' = Recorded(t, e, v)
    BY Zenon, <1>2 DEF Commit, CommitUnheard
  <2> QED
    BY <1>1, <2>1, Grows
<1>3. CASE UNCHANGED hist
  BY <1>1, <1>3
<1> QED
  BY Zenon, <1>1, <1>2, <1>3, HistSame

\* Every step keeps results about a past state what they were.
LEMMA PastExactStep ==
    ASSUME Typed, Told, PastExact, [Next]_vars
    PROVE  PastExact'
<1> DEFINE Shows(k, res) == k.t # Now => Answers(k.q, k.t, res)
<1>1. /\ \A s \in Slot : HasResult(s) => Shows(h[s].key, h[s].res)
      /\ \A k \in CachedKeys : Shows(k, entries[k].res)
  BY Zenon DEF PastExact
<1>2. ASSUME NEW k, NEW res, Shows(k, res)
      PROVE  k.t # Now => Answers(k.q, k.t, res)'
  <2>1. SUFFICES ASSUME k.t # Now PROVE Answers(k.q, k.t, res)'
    OBVIOUS
  <2>2. PICK n \in 1..Len(hist) : hist[n].basis >= k.t /\ res = Result(k.q, Past(hist[n].log, k.t))
    BY Zenon, <1>2, <2>1 DEF Answers
  <2>3. n \in 1..Len(hist') /\ hist'[n] = hist[n]
    BY HistStep
  <2> QED
    BY Zenon, <2>2, <2>3 DEF Answers
<1>3. SUFFICES /\ \A s \in Slot : HasResult(s)' => Shows(h'[s].key, h'[s].res)
               /\ \A k \in CachedKeys' : Shows(k, entries'[k].res)
  BY <1>2, Zenon DEF PastExact
<1> HIDE DEF Shows
<1>4. CASE Keeps
  <2>1. \A s \in Slot : HasResult(s)' => Storing(s)' \/ At(s, "done")'
    BY Zenon DEF HasResult, Storing, At
  <2>2. \A s \in Slot : Storing(s) => HasResult(s)
    BY Zenon DEF HasResult, Storing
  <2> QED
    BY <1>1, <1>4, <2>1, <2>2, Zenon DEF Keeps
<1>5. ASSUME NEW p \in Slot, ReadDatabase(p)
      PROVE  /\ \A s \in Slot : HasResult(s)' => Shows(h'[s].key, h'[s].res)
             /\ \A k \in CachedKeys' : Shows(k, entries'[k].res)
  <2>1. Going(p, "insert", Result(h[p].key.q, AsOf(h[p].key.t)), h[p].late, h[p].then) /\ UNCHANGED entries
    BY <1>5, Moves, ZenonT(30) DEF ReadDatabase, index
  <2>2. h[p].key.t # Now => h[p].key.t \in 1..Latest.basis
    BY Zenon, <1>5 DEF Told, Typed
  <2>3. Latest.basis \in Nat /\ Len(hist) \in 1..Len(hist)
    BY LatestType DEF Typed
  <2>4. h[p].key.t # Now => Latest.basis >= h[p].key.t
    BY <2>2, <2>3
  <2>5. Shows(h[p].key, Result(h[p].key.q, AsOf(h[p].key.t)))
    BY Zenon, <2>3, <2>4 DEF Shows, Answers, AsOf
  <2> QED
    BY Zenon, <1>1, <2>1, <2>5 DEF Going, Only, HasResult, CachedKeys
<1>6. ASSUME NEW p \in Slot, Put(p)
      PROVE  /\ \A s \in Slot : HasResult(s)' => Shows(h'[s].key, h'[s].res)
             /\ \A k \in CachedKeys' : Shows(k, entries'[k].res)
  <2>1. /\ HasResult(p) /\ h[p].key \in AnyKey
        /\ \/ Going(p, "addDeps", h[p].res, h[p].late, h[p].then)
           \/ Going(p, "dropDeps", h[p].res, h[p].late, "addDeps")
    BY <1>6, Moves, ZenonT(30) DEF Put, At, HasResult, Typed, Handler
  <2>2. /\ entries'[h[p].key].res = h[p].res
        /\ \A k \in CachedKeys' : k = h[p].key \/ (k \in CachedKeys /\ entries'[k] = entries[k])
    BY Zenon, <1>6, PutEffect
  <2>3. \A k \in CachedKeys' : Shows(k, entries'[k].res)
    BY Zenon, <1>1, <2>1, <2>2
  <2>4. \A s \in Slot : HasResult(s)' => Shows(h'[s].key, h'[s].res)
    BY <1>1, <2>1, Zenon DEF Going, Only, HasResult
  <2> QED
    BY Zenon, <2>3, <2>4
<1>7. ASSUME NEW p \in Slot, AddRev(p)
      PROVE  /\ \A s \in Slot : HasResult(s)' => Shows(h'[s].key, h'[s].res)
             /\ \A k \in CachedKeys' : Shows(k, entries'[k].res)
  <2>1. HasResult(p) /\ Going(p, "done", h[p].res, FALSE, h[p].then)
    BY <1>7, Moves, ZenonT(30) DEF AddRev, At, HasResult
  <2>2. CachedKeys' = CachedKeys /\ \A k \in CachedKeys : entries'[k].res = entries[k].res
    BY <1>7, MarkEffects, ZenonT(30) DEF Marked
  <2> QED
    BY <1>1, <2>1, <2>2, Zenon DEF Going, Only, HasResult
<1> QED
  BY Zenon, <1>4, <1>5, <1>6, <1>7, KeepsStep

LEMMA CacheInit ==
    ASSUME Init
    PROVE  Typed /\ Told /\ PastExact /\ TrackedOrWill /\ CurrentOrWill
<1>1. CachedKeys = {} /\ DOMAIN deps = {} /\ DOMAIN snaps = {}
  BY SMTT(30) DEF Init, CachedKeys
<1>2. h \in [Slot -> Handler] /\ \A p \in Slot : h[p].pc = "idle" /\ h[p].id = 0 /\ h[p].key.t = Now
  BY Zenon, IdleHandler DEF Init, Idle, NoKey
<1>3. hist \in Seq(Version) /\ Len(hist) = 1
  <2> PICK d \in State : d = [e \in Entity |-> None]
    BY Zenon DEF State
  <2> PICK b \in 1..MaxTx : b = 1
    BY QueryCacheAssumption
  <2>1. PICK x \in Version : x = [now |-> d, log |-> {}, basis |-> b]
    BY Zenon DEF Version
  <2>2. hist = <<x>>
    BY Zenon, <2>1 DEF Init
  <2> QED
    BY <2>2
<1>4. issued \in Seq(1..MaxTx) /\ Len(issued) = 0 /\ rev = {}
  BY DEF Init
<1>5. Typed
  BY <1>1, <1>2, <1>3, <1>4 DEF Typed
<1>6. Told
  BY Zenon, <1>1, <1>2 DEF Told, Asking, At
<1> QED
  BY <1>1, <1>2, <1>5, <1>6, Zenon DEF PastExact, TrackedOrWill, CurrentOrWill, HasResult, Storing, Registering

-----------------------------------------------------------------------------
(* Tracking *)

\* The index keeps naming k, or k is torn, or a handler will put k again.
RevKept(k) ==
    \/ "torn" \in entries'[k].marks
    \/ \E s \in Slot : At(s, "put")' /\ h'[s].key = k
    \/ \A e : <<e, k>> \in rev => <<e, k>> \in rev'

LEMMA TrackKept ==
    ASSUME Typed, TrackedOrWill, Keeps, \A k \in CachedKeys' : RevKept(k)
    PROVE  TrackedOrWill'
<1>1. SUFFICES ASSUME NEW k \in CachedKeys'
               PROVE  \/ "torn" \in entries'[k].marks
                      \/ Tracked(k)'
                      \/ \E s \in Slot : WillTrack(s, k)'
  BY ZenonT(30) DEF TrackedOrWill
<1>2. k \in CachedKeys /\ entries'[k].res = entries[k].res /\ entries[k].marks \subseteq entries'[k].marks
  BY Zenon DEF Keeps
<1>3. CASE "torn" \in entries[k].marks
  BY Zenon, <1>2, <1>3
<1>4. ASSUME Tracked(k), \A e : <<e, k>> \in rev => <<e, k>> \in rev'
      PROVE  Tracked(k)'
  BY <1>2, <1>4, Zenon DEF Tracked, Tags
<1>5. ASSUME NEW s \in Slot, WillTrack(s, k)
      PROVE  WillTrack(s, k)'
  <2>1. CASE At(s, "put")
    <3>1. At(s, "put")' /\ Storing(s)'
      BY <2>1, Zenon DEF Keeps, Storing, At
    <3> QED
      BY <1>5, <3>1, Zenon DEF Keeps, WillTrack
  <2>2. CASE Registering(s) /\ DepsOf(k.q, h[s].res) = DepsOf(k.q, entries[k].res)
    <3>1. Registering(s)' /\ Storing(s)'
      BY <2>2, ZenonT(30) DEF Keeps, Storing, Registering
    <3>2. h'[s].key = h[s].key /\ h'[s].res = h[s].res
      BY <3>1, ZenonT(30) DEF Keeps
    <3> QED
      BY <1>2, <1>5, <2>2, <3>1, <3>2, Zenon DEF WillTrack
  <2> QED
    BY <1>5, <2>1, <2>2, Zenon DEF WillTrack
<1>6. ASSUME NEW s \in Slot, At(s, "put")', h'[s].key = k
      PROVE  WillTrack(s, k)'
  BY Zenon, <1>6 DEF WillTrack
<1>7. CASE Tracked(k)
  BY Zenon, <1>4, <1>6, <1>7 DEF RevKept
<1> QED
  BY Zenon, <1>2, <1>3, <1>5, <1>7 DEF TrackedOrWill

\* Every step leaves an entry tracked, torn, or about to be tracked.
LEMMA TrackedStep ==
    ASSUME Typed, Told, TrackedOrWill, [Next]_vars
    PROVE  TrackedOrWill'
<1>1. ASSUME Keeps, UNCHANGED rev PROVE TrackedOrWill'
  BY Zenon, <1>1, TrackKept DEF RevKept
<1>2. ASSUME NEW p \in Slot, UnindexOld(p), Keeps PROVE TrackedOrWill'
  <2>1. At(p, "put")' /\ h'[p].key = h[p].key
    BY <1>2, Moves, Zenon DEF Going, At
  <2>2. \A k : k # h[p].key => \A e : <<e, k>> \in rev => <<e, k>> \in rev'
    BY <1>2, Zenon DEF UnindexOld, Unindex
  <2>3. \A k \in CachedKeys' : RevKept(k)
    BY <2>1, <2>2, Zenon DEF RevKept
  <2> QED
    BY Zenon, <1>2, <2>3, TrackKept
<1>3. ASSUME NEW p \in Slot, DropRev(p), Keeps PROVE TrackedOrWill'
  <2>1. CachedKeys' = CachedKeys /\ \A k \in CachedKeys : k = h[p].drop => "torn" \in entries'[k].marks
    BY <1>3, MarkEffects, ZenonT(90) DEF Marked
  <2>2. \A k : k # h[p].drop => \A e : <<e, k>> \in rev => <<e, k>> \in rev'
    BY Zenon, <1>3 DEF DropRev, Unindex
  <2>3. \A k \in CachedKeys' : RevKept(k)
    BY Zenon, <2>1, <2>2 DEF RevKept
  <2> QED
    BY Zenon, <1>3, <2>3, TrackKept
<1>4. ASSUME NEW p \in Slot, InvalidateDeps(p), Keeps PROVE TrackedOrWill'
  <2>1. CachedKeys' = CachedKeys /\ \A k \in CachedKeys : k \in h[p].keys => "torn" \in entries'[k].marks
    BY <1>4, MarkEffects, ZenonT(30) DEF Marked
  <2>2. \A k : k \notin h[p].keys => \A e : <<e, k>> \in rev => <<e, k>> \in rev'
    BY Zenon, <1>4 DEF InvalidateDeps
  <2>3. \A k \in CachedKeys' : RevKept(k)
    BY Zenon, <2>1, <2>2 DEF RevKept
  <2> QED
    BY Zenon, <1>4, <2>3, TrackKept
<1>5. ASSUME NEW p \in Slot, ReadDatabase(p) PROVE TrackedOrWill'
  <2>1. Only(p) /\ ~At(p, "put") /\ ~Registering(p) /\ UNCHANGED <<entries, rev>>
    BY <1>5, Moves, Zenon DEF ReadDatabase, index, Going, At, Registering
  <2>2. ASSUME NEW k, NEW s \in Slot, WillTrack(s, k) PROVE WillTrack(s, k)'
    BY Zenon, <2>1, <2>2 DEF WillTrack, Only, At, Registering
  <2> QED
    BY <2>1, <2>2, Zenon DEF TrackedOrWill, Tracked, CachedKeys
<1>6. ASSUME NEW p \in Slot, Put(p) PROVE TrackedOrWill'
  <2>1. /\ At(p, "put") /\ UNCHANGED rev
        /\ \/ Going(p, "addDeps", h[p].res, h[p].late, h[p].then)
           \/ Going(p, "dropDeps", h[p].res, h[p].late, "addDeps")
    BY <1>6, Moves, Zenon DEF Put
  <2>2. Registering(p)' /\ h'[p].key = h[p].key /\ h'[p].res = h[p].res /\ Only(p)
    BY Zenon, <2>1 DEF Going, Registering
  <2>3. SUFFICES ASSUME NEW k \in CachedKeys'
                 PROVE  \/ "torn" \in entries'[k].marks
                        \/ Tracked(k)'
                        \/ \E s \in Slot : WillTrack(s, k)'
    BY Zenon DEF TrackedOrWill
  <2>4. CASE k = h[p].key
    <3>1. WillTrack(p, k)'
      BY <1>6, <2>2, <2>4, PutEffect, ZenonT(30) DEF WillTrack
    <3> QED
      BY ZenonT(30), <3>1
  <2>5. CASE k # h[p].key
    <3>1. k \in CachedKeys /\ entries'[k] = entries[k]
      BY Zenon, <1>6, <2>5, PutEffect
    <3>2. ASSUME NEW s \in Slot, WillTrack(s, k) PROVE WillTrack(s, k)'
      BY <2>2, <2>5, <3>1, <3>2, Zenon DEF WillTrack, Only, At, Registering
    <3> QED
      BY Zenon, <2>1, <3>1, <3>2 DEF TrackedOrWill, Tracked
  <2> QED
    BY Zenon, <2>4, <2>5
<1>7. ASSUME NEW p \in Slot, AddRev(p) PROVE TrackedOrWill'
  <2>1. At(p, "addRev") /\ Going(p, "done", h[p].res, FALSE, h[p].then)
    BY <1>7, Moves, ZenonT(30) DEF AddRev
  <2>2. /\ CachedKeys' = CachedKeys
        /\ \A k \in CachedKeys :
              /\ entries'[k].res = entries[k].res
              /\ entries'[k].marks = IF k = h[p].key THEN (entries[k].marks \ Mended(p)) \cup LateMark(p)
                                                     ELSE entries[k].marks
    BY <1>7, MarkEffects, ZenonT(90) DEF Marked
  <2>3. rev' = rev \cup {<<e, h[p].key>> : e \in Tags(DepsOf(h[p].key.q, h[p].res))}
    BY <1>7, ZenonT(30) DEF AddRev
  <2>4. SUFFICES ASSUME NEW k \in CachedKeys
                 PROVE  \/ "torn" \in entries'[k].marks
                        \/ Tracked(k)'
                        \/ \E s \in Slot : WillTrack(s, k)'
    BY Zenon, <2>2 DEF TrackedOrWill
  <2>5. CASE k = h[p].key /\ DepsOf(k.q, entries[k].res) = DepsOf(k.q, h[p].res)
    <3>1. Tracked(k)'
      BY <2>2, <2>3, <2>5, ZenonT(30) DEF Tracked
    <3> QED
      BY Zenon, <3>1
  <2>6. CASE ~(k = h[p].key /\ DepsOf(k.q, entries[k].res) = DepsOf(k.q, h[p].res))
    <3>1. "torn" \in entries[k].marks => "torn" \in entries'[k].marks
      BY <2>2, <2>6, Zenon DEF Mended
    <3>2. Tracked(k) => Tracked(k)'
      BY <2>2, <2>3, Zenon DEF Tracked
    <3>3. ASSUME NEW s \in Slot, WillTrack(s, k) PROVE WillTrack(s, k)'
      <4>1. s # p
        BY Zenon, <2>1, <2>6, <3>3 DEF WillTrack, At
      <4> QED
        BY <2>1, <2>2, <3>3, <4>1, ZenonT(30) DEF WillTrack, Going, Only, At, Registering
    <3> QED
      BY Zenon, <3>1, <3>2, <3>3 DEF TrackedOrWill
  <2> QED
    BY Zenon, <2>5, <2>6
<1>8. \/ UNCHANGED rev
      \/ \E p \in Slot : UnindexOld(p) \/ DropRev(p) \/ InvalidateDeps(p) \/ AddRev(p)
  BY ZenonT(30) DEF Next, Start, Step, vars, index, Hit, Miss, Expired, DropDeps, ReadDatabase, Insert, Put, AddDeps,
         InvalidateRead, ReadKeys, InvalidatePop, CreateSnapshot, Release, StartQuery,
         StartSnapshotQuery, SnapshotExpired, ReadBasis, Commit, CommitUnheard, CleanupExpired, Tick
<1> QED
  BY Zenon, <1>1, <1>2, <1>3, <1>4, <1>5, <1>6, <1>7, <1>8, KeepsStep

-----------------------------------------------------------------------------
(* Entries without dependencies, and pulls *)

\* The three disjunctions of CurrentOrWill, for one handler and for one key.
StoresFresh(p) == Conservative(h[p].key) => h[p].late \/ Fresh(h[p].key, h[p].res)
EntryFresh(p) ==
    (h[p].key \in CachedKeys /\ Conservative(h[p].key)) =>
        \/ h[p].late \/ entries[h[p].key].marks \cap {"late", "lost"} # {}
        \/ Fresh(h[p].key, entries[h[p].key].res)
KeyFresh(k) ==
    Conservative(k) =>
        \/ entries[k].marks # {}
        \/ Fresh(k, entries[k].res)
        \/ \E p \in Slot : At(p, "invPop") /\ k \in h[p].keys
        \/ \E p \in Slot : h[p].key = k /\ h[p].late /\ Writing(p)

LEMMA CurrentParts ==
    CurrentOrWill <=> /\ \A p \in Slot : Storing(p) => StoresFresh(p)
                      /\ \A p \in Slot : Registering(p) => EntryFresh(p)
                      /\ \A k \in CachedKeys : KeyFresh(k)
BY Zenon DEF CurrentOrWill, StoresFresh, EntryFresh, KeyFresh, Writing

\* A step that leaves current what is current, or announces an invalidation.
FreshKept == \A k, res : Conservative(k) /\ Fresh(k, res) => Fresh(k, res)'

LEMMA StoresKept ==
    ASSUME NEW s \in Slot, FreshKept, StoresFresh(s),
           h'[s].key = h[s].key, h'[s].res = h[s].res, h[s].late => h'[s].late
    PROVE  StoresFresh(s)'
<1>1. PICK k, res : k = h[s].key /\ res = h[s].res
  BY Zenon
<1>2. Conservative(k) /\ Fresh(k, res) => Fresh(k, res)'
  BY Zenon DEF FreshKept
<1> QED
  BY Zenon, <1>1, <1>2 DEF StoresFresh, Conservative, Fresh

LEMMA EntryKept ==
    ASSUME NEW s \in Slot, FreshKept, EntryFresh(s), h'[s].key = h[s].key, h[s].late => h'[s].late,
           h[s].key \in CachedKeys' =>
              /\ h[s].key \in CachedKeys /\ entries'[h[s].key].res = entries[h[s].key].res
              /\ entries[h[s].key].marks \cap {"late", "lost"} \subseteq entries'[h[s].key].marks
    PROVE  EntryFresh(s)'
<1>1. PICK k, res : k = h[s].key /\ res = entries[k].res
  BY Zenon
<1>2. Conservative(k) /\ Fresh(k, res) => Fresh(k, res)'
  BY Zenon DEF FreshKept
<1>3. k \in CachedKeys' => /\ k \in CachedKeys /\ entries'[k].res = res
                           /\ entries[k].marks \cap {"late", "lost"} \subseteq entries'[k].marks
  BY Zenon, <1>1
<1>4. SUFFICES ASSUME k \in CachedKeys', Conservative(k)
               PROVE  \/ h'[s].late \/ entries'[k].marks \cap {"late", "lost"} # {}
                      \/ Fresh(k, res)'
  BY <1>1, <1>3, Zenon DEF EntryFresh, Conservative, Fresh
<1>5. \/ h[s].late \/ entries[k].marks \cap {"late", "lost"} # {}
      \/ Fresh(k, res)
  BY <1>1, <1>3, <1>4, ZenonT(30) DEF EntryFresh
<1> QED
  BY ZenonT(30), <1>2, <1>3, <1>4, <1>5

LEMMA KeyKept ==
    ASSUME NEW k \in CachedKeys, FreshKept, KeyFresh(k), entries'[k].res = entries[k].res,
           entries[k].marks # {} => entries'[k].marks # {},
           \A s \in Slot : At(s, "invPop") /\ k \in h[s].keys => At(s, "invPop")' /\ k \in h'[s].keys,
           \A s \in Slot : (h[s].key = k /\ h[s].late /\ Writing(s)) =>
              entries'[k].marks # {} \/ (h'[s].key = k /\ h'[s].late /\ Writing(s)')
    PROVE  KeyFresh(k)'
<1>1. PICK res : res = entries[k].res
  BY Zenon
<1>2. Conservative(k) /\ Fresh(k, res) => Fresh(k, res)'
  BY Zenon DEF FreshKept
<1>3. SUFFICES ASSUME Conservative(k)
               PROVE  \/ entries'[k].marks # {}
                      \/ Fresh(k, res)'
                      \/ \E p \in Slot : At(p, "invPop")' /\ k \in h'[p].keys
                      \/ \E p \in Slot : h'[p].key = k /\ h'[p].late /\ Writing(p)'
  BY <1>1, Zenon DEF KeyFresh, Conservative, Fresh
<1>4. \/ entries[k].marks # {}
      \/ Fresh(k, res)
      \/ \E p \in Slot : At(p, "invPop") /\ k \in h[p].keys
      \/ \E p \in Slot : h[p].key = k /\ h[p].late /\ Writing(p)
  BY <1>1, <1>3, ZenonT(30) DEF KeyFresh
<1> QED
  BY Zenon, <1>2, <1>3, <1>4

LEMMA CurrentFrom ==
    ASSUME \A p \in Slot : Storing(p)' => StoresFresh(p)',
           \A p \in Slot : Registering(p)' => EntryFresh(p)',
           \A k \in CachedKeys' : KeyFresh(k)'
    PROVE  CurrentOrWill'
BY Zenon DEF CurrentOrWill, StoresFresh, EntryFresh, KeyFresh, Writing

\* A step that keeps handlers and entries, what is current, and every pop of a
\* key that is still cached.
LEMMA CurrentKept ==
    ASSUME Typed, CurrentOrWill, Keeps, FreshKept,
           \A s \in Slot : At(s, "invPop") =>
              (At(s, "invPop")' /\ h'[s].keys = h[s].keys) \/ h[s].keys \cap CachedKeys' = {}
    PROVE  CurrentOrWill'
<1>1. ASSUME NEW s \in Slot, Storing(s)' PROVE StoresFresh(s)'
  <2>1. Storing(s) /\ h'[s].key = h[s].key /\ h'[s].res = h[s].res /\ (h[s].late => h'[s].late)
    BY <1>1, Zenon DEF Keeps
  <2>2. StoresFresh(s)
    BY Zenon, <2>1, CurrentParts
  <2> QED
    BY ZenonT(30), <2>1, <2>2, StoresKept
<1>2. ASSUME NEW s \in Slot, Registering(s)' PROVE EntryFresh(s)'
  <2>1. Registering(s) /\ h'[s].key = h[s].key /\ (h[s].late => h'[s].late)
    BY <1>2, ZenonT(30) DEF Keeps, Registering, Storing
  <2>2. EntryFresh(s)
    BY ZenonT(30), <2>1, CurrentParts
  <2>3. h[s].key \in CachedKeys' =>
           /\ h[s].key \in CachedKeys /\ entries'[h[s].key].res = entries[h[s].key].res
           /\ entries[h[s].key].marks \cap {"late", "lost"} \subseteq entries'[h[s].key].marks
    BY Zenon DEF Keeps
  <2> QED
    BY Zenon, <2>1, <2>2, <2>3, EntryKept
<1>3. ASSUME NEW k \in CachedKeys' PROVE KeyFresh(k)'
  <2>1. k \in CachedKeys /\ entries'[k].res = entries[k].res /\ entries[k].marks \subseteq entries'[k].marks
    BY ZenonT(30) DEF Keeps
  <2>2. KeyFresh(k) /\ (entries[k].marks # {} => entries'[k].marks # {})
    BY Zenon, <2>1, CurrentParts
  <2>3. \A s \in Slot : At(s, "invPop") /\ k \in h[s].keys => At(s, "invPop")' /\ k \in h'[s].keys
    BY Zenon, <1>3
  <2>4. ASSUME NEW s \in Slot, h[s].key = k, h[s].late, Writing(s)
        PROVE  h'[s].key = k /\ h'[s].late /\ Writing(s)'
    <3>1. Writing(s)' /\ Storing(s)'
      BY Zenon, <2>4 DEF Writing, Keeps, Storing, Registering, At
    <3> QED
      BY <2>4, <3>1, ZenonT(30) DEF Keeps
  <2> QED
    BY ZenonT(30), <2>1, <2>2, <2>3, <2>4, KeyKept
<1> QED
  BY Zenon, <1>1, <1>2, <1>3, CurrentFrom

\* The database has not changed, and no handler leaves "invRead".
LEMMA SameFresh ==
    ASSUME UNCHANGED hist,
           \A s \in Slot : At(s, "invRead") => At(s, "invRead")' /\ h'[s].changed = h[s].changed
    PROVE  FreshKept
<1>1. Db' = Db
  BY Zenon DEF Db
<1>2. ASSUME NEW q, Pending(q) PROVE Pending(q)'
  BY Zenon, <1>2 DEF Pending
<1> QED
  BY <1>1, <1>2, Zenon DEF Fresh, FreshKept

\* The transaction changes no name and no pulled entity without announcing it.
LEMMA CommitFresh ==
    ASSUME Typed, NEW p \in Slot, NEW t \in 2..MaxTx, NEW e \in Entity, NEW v \in Val \cup {None}, Commit(p, t, e, v)
    PROVE  FreshKept
<1>1. SUFFICES ASSUME NEW k, NEW res, Conservative(k), Fresh(k, res) PROVE Fresh(k, res)'
  BY Zenon DEF FreshKept
<1>2. PICK r \in Handler : h' = [h EXCEPT ![p] = r] /\ r.pc = "invRead" /\ r.changed = {e}
  BY Zenon, Committed
<1>3. At(p, "invRead")' /\ h'[p].changed = {e} /\ h[p].pc = "idle" /\ \A s \in Slot \ {p} : h'[s] = h[s]
  BY <1>2, ZenonT(30) DEF Typed, At, Commit
<1>4. CASE k.q = "names" \/ e = Pulled
  BY Zenon, <1>3, <1>4 DEF Fresh, Pending
<1>5. CASE k.q = "pull" /\ e # Pulled
  <2>1. Db \in State /\ Db' = [Db EXCEPT ![e] = v] /\ Pulled \in Entity
    BY Grows, QueryCacheAssumption, Zenon DEF Commit, Pulled
  <2>2. Result(k.q, Db)' = Result(k.q, Db)
    BY Zenon, <1>5, <2>1 DEF Result, State
  <2>3. Pending(k.q) => Pending(k.q)'
    BY <1>3, Zenon DEF Pending, At
  <2> QED
    BY Zenon, <1>1, <2>2, <2>3 DEF Fresh
<1> QED
  BY Zenon, <1>1, <1>4, <1>5 DEF Conservative

\* Only an invalidation leaves "invRead" and "invPop".
LEMMA Announced ==
    ASSUME Typed, Told, [Next]_vars
    PROVE  \/ \A s \in Slot : h[s].pc \in {"invRead", "invPop"} => h'[s] = h[s]
           \/ \E p \in Slot : InvalidateRead(p) \/ InvalidatePop(p)
           \/ \E p \in Slot, t \in 2..MaxTx, e \in Entity, v \in Val \cup {None} : CommitUnheard(p, t, e, v)
<1>1. ASSUME NEW p \in Slot, \A s \in Slot \ {p} : h'[s] = h[s], h[p].pc \notin {"invRead", "invPop"}
      PROVE  \A s \in Slot : h[s].pc \in {"invRead", "invPop"} => h'[s] = h[s]
  BY Zenon, <1>1
<1>2. ASSUME NEW p \in Slot,
             \/ Hit(p) \/ Miss(p) \/ Expired(p) \/ DropDeps(p) \/ DropRev(p) \/ ReadDatabase(p)
             \/ Insert(p) \/ UnindexOld(p) \/ Put(p) \/ AddDeps(p) \/ AddRev(p)
      PROVE  (\A s \in Slot \ {p} : h'[s] = h[s]) /\ h[p].pc \notin {"invRead", "invPop"}
  <2>1. Only(p)
    BY <1>2, Moves, Zenon DEF Going
  <2> QED
    BY <1>2, <2>1, Zenon DEF Only, At, Hit, Miss, Expired, DropDeps, DropRev, ReadDatabase, Insert, UnindexOld, Put,
        AddDeps, AddRev
<1>3. ASSUME NEW p \in Slot, NEW r, h' = [h EXCEPT ![p] = r]
      PROVE  \A s \in Slot \ {p} : h'[s] = h[s]
  BY <1>3, Zenon DEF Typed
<1>4. ASSUME NEW p \in Slot,
             InvalidateDeps(p) \/ CreateSnapshot(p) \/ Release(p) \/ \E id \in DOMAIN issued : SnapshotExpired(p, id)
      PROVE  (\A s \in Slot \ {p} : h'[s] = h[s]) /\ h[p].pc \notin {"invRead", "invPop"}
  BY <1>3, <1>4, Zenon DEF InvalidateDeps, CreateSnapshot, Release, SnapshotExpired, Ends, At
<1>5. ASSUME NEW p \in Slot,
             \/ \E q \in Queries : StartQuery(p, q)
             \/ \E q \in Queries, id \in DOMAIN issued : StartSnapshotQuery(p, q, id)
             \/ ReadBasis(p)
             \/ \E t \in 2..MaxTx, e \in Entity, v \in Val \cup {None} : Commit(p, t, e, v)
      PROVE  (\A s \in Slot \ {p} : h'[s] = h[s]) /\ h[p].pc \notin {"invRead", "invPop"}
  BY <1>3, <1>5, Zenon DEF StartQuery, StartSnapshotQuery, ReadBasis, Commit, Begins, At
<1>6. CASE CleanupExpired \/ Tick \/ UNCHANGED vars
  BY <1>6, ZenonT(30) DEF CleanupExpired, Tick, vars
<1> QED
  BY <1>1, <1>2, <1>4, <1>5, <1>6, ZenonT(30) DEF Next, Start, Step

\* Every step leaves such an entry current, marked, or about to be removed.
LEMMA CurrentStep ==
    ASSUME Typed, Told, TrackedOrWill, CurrentOrWill, [Next]_vars
    PROVE  CurrentOrWill'
<1>1. /\ \A p \in Slot : Storing(p) => StoresFresh(p)
      /\ \A p \in Slot : Registering(p) => EntryFresh(p)
      /\ \A k \in CachedKeys : KeyFresh(k)
  BY Zenon, CurrentParts
<1>2. ASSUME NEW p \in Slot, InvalidateRead(p) PROVE CurrentOrWill'
  <2>1. PICK r \in Handler :
           /\ h' = Outdate(p, r) /\ r.pc \in {"idle", "invPop"}
           /\ \A k \in KeysOf(h[p].changed \cup {Untracked}) : r.pc = "invPop" /\ k \in r.keys
    BY Zenon, <1>2, ReadsKeys
  <2>2. Starts(p, r) /\ OthersLate(p) /\ h[p].pc = "invRead" /\ UNCHANGED <<hist, entries, rev>>
    BY <1>2, <2>1, Outdates, ZenonT(30) DEF InvalidateRead, ReadKeys, At, Typed, index
  <2>3. \A s \in Slot : Storing(s)' => h'[s].late
    BY <2>1, <2>2 DEF Starts, OthersLate, Storing
  <2>4. \A s \in Slot : /\ Storing(s)' => StoresFresh(s)'
                        /\ Registering(s)' => EntryFresh(s)'
    BY <2>3, Zenon DEF StoresFresh, EntryFresh, Registering, Storing
  <2>5. ASSUME NEW s \in Slot, Writing(s)
        PROVE  Writing(s)' /\ h'[s].key = h[s].key /\ h'[s].late
    <3>1. s # p /\ Storing(s)
      BY Zenon, <2>2, <2>5 DEF Writing, Registering, Storing, At
    <3> QED
      BY <2>2, <2>5, <3>1, ZenonT(30) DEF OthersLate, Writing, Registering, At
  <2>6. ASSUME NEW k \in CachedKeys PROVE KeyFresh(k)'
    <3>1. CASE k \in KeysOf(h[p].changed \cup {Untracked})
      <4>1. At(p, "invPop")' /\ k \in h'[p].keys
        BY <2>1, <2>2, <3>1, Zenon DEF Starts, At
      <4> QED
        BY Zenon, <4>1 DEF KeyFresh
    <3>2. CASE \E s \in Slot : h[s].key = k /\ Writing(s)
      BY Zenon, <2>5, <3>2 DEF KeyFresh
    <3>3. CASE "torn" \in entries[k].marks
      BY <2>2, <3>3, Zenon DEF KeyFresh
    <3>4. CASE /\ k \notin KeysOf(h[p].changed \cup {Untracked}) /\ "torn" \notin entries[k].marks
               /\ ~\E s \in Slot : h[s].key = k /\ Writing(s)
      <4>1. SUFFICES ASSUME Conservative(k)
                     PROVE  \/ entries[k].marks # {} \/ Fresh(k, entries[k].res)'
                            \/ \E s \in Slot : At(s, "invPop")' /\ k \in h'[s].keys
        BY <2>2, ZenonT(30) DEF KeyFresh, Conservative
      <4>2. Tracked(k)
        BY Zenon, <3>4 DEF TrackedOrWill, WillTrack, Writing
      <4>3. \A e \in h[p].changed \cup {Untracked} : <<e, k>> \notin rev
        BY <3>4 DEF KeysOf
      <4>4. k.q # "names" /\ Pulled \notin h[p].changed
        <5>1. k.q = "names" => Untracked \in Tags(DepsOf(k.q, entries[k].res))
          BY Zenon DEF Tags, DepsOf
        <5>2. k.q = "pull" => Pulled \in Tags(DepsOf(k.q, entries[k].res))
          BY Zenon DEF Tags, DepsOf
        <5> QED
          BY <4>1, <4>2, <4>3, <5>1, <5>2, Zenon DEF Tracked, Conservative
      <4>5. Pending(k.q) => Pending(k.q)'
        BY Zenon, <2>2, <4>4 DEF Pending, OthersLate, At
      <4>6. \/ entries[k].marks # {} \/ Fresh(k, entries[k].res)
            \/ \E s \in Slot : At(s, "invPop") /\ k \in h[s].keys
        BY <1>1, <3>4, <4>1, Zenon DEF KeyFresh
      <4>7. ASSUME Fresh(k, entries[k].res) PROVE Fresh(k, entries[k].res)'
        BY <2>2, <4>5, <4>7, ZenonT(30) DEF Fresh, Db
      <4>8. ASSUME NEW s \in Slot, At(s, "invPop"), k \in h[s].keys
            PROVE  At(s, "invPop")' /\ k \in h'[s].keys
        BY Zenon, <2>2, <4>8 DEF OthersLate, At
      <4> QED
        BY Zenon, <4>6, <4>7, <4>8
    <3> QED
      BY Zenon, <3>1, <3>2, <3>3, <3>4
  <2> QED
    BY <2>2, <2>4, <2>6, CurrentFrom, ZenonT(30) DEF CachedKeys
<1>3. ASSUME NEW p \in Slot, NEW t \in 2..MaxTx, NEW e \in Entity, NEW v \in Val \cup {None}, CommitUnheard(p, t, e, v) PROVE CurrentOrWill'
  <2>1. Starts(p, Idle) /\ OthersLate(p)
    BY <1>3, IdleHandler, Outdates, ZenonT(30) DEF CommitUnheard, Typed
  <2>2. ASSUME NEW s \in Slot, Storing(s)' PROVE h'[s].late
    <3>1. s # p
      BY <2>1, <2>2 DEF Starts, Storing, Idle
    <3>2. Storing(s)
      BY <2>1, <2>2, <3>1, Zenon DEF OthersLate, Storing
    <3> QED
      BY Zenon, <2>1, <3>1, <3>2 DEF OthersLate
  <2>3. \A s \in Slot : /\ Storing(s)' => StoresFresh(s)'
                        /\ Registering(s)' => EntryFresh(s)'
    BY <2>2, ZenonT(30) DEF StoresFresh, EntryFresh, Registering, Storing
  <2>4. CachedKeys' = CachedKeys /\ \A k \in CachedKeys : "lost" \in entries'[k].marks
    <3>1. Marked(CachedKeys, {"lost"}, {})
      BY <1>3, MarkEffects, Zenon
    <3> QED
      BY Zenon, <3>1 DEF Marked
  <2>5. \A k \in CachedKeys' : KeyFresh(k)'
    BY Zenon, <2>4 DEF KeyFresh
  <2> QED
    BY Zenon, <2>3, <2>5, CurrentFrom
<1>4. ASSUME NEW p \in Slot, InvalidatePop(p), Keeps PROVE CurrentOrWill'
  <2>1. Going(p, "invDeps", h[p].res, h[p].late, h[p].then) /\ UNCHANGED hist /\ h[p].pc = "invPop"
    BY <1>4, Goes, ZenonT(30) DEF InvalidatePop, At, Typed
  <2>2. h[p].keys \cap CachedKeys' = {}
    BY <1>4, Zenon DEF InvalidatePop, Forget, CachedKeys
  <2>3. FreshKept
    BY <2>1, SameFresh, Zenon DEF Going, Only, At
  <2>4. \A s \in Slot \ {p} : h'[s] = h[s]
    BY <2>1, ZenonT(30) DEF Going, Only
  <2> QED
    BY <1>4, <2>2, <2>3, <2>4, CurrentKept, ZenonT(30) DEF At
<1>5. ASSUME NEW p \in Slot, NEW t \in 2..MaxTx, NEW e \in Entity, NEW v \in Val \cup {None}, Commit(p, t, e, v), Keeps PROVE CurrentOrWill'
  <2>1. h[p].pc = "idle" /\ \A s \in Slot \ {p} : h'[s] = h[s]
    BY Zenon, <1>5 DEF Commit, At, Typed
  <2> QED
    BY Zenon, <1>5, <2>1, CommitFresh, CurrentKept DEF At
<1>6. ASSUME Keeps, UNCHANGED hist, \A s \in Slot : h[s].pc \in {"invRead", "invPop"} => h'[s] = h[s]
      PROVE  CurrentOrWill'
  <2>1. FreshKept
    BY Zenon, <1>6, SameFresh DEF At
  <2> QED
    BY Zenon, <1>6, <2>1, CurrentKept DEF At
<1>7. ASSUME NEW p \in Slot, Only(p), UNCHANGED hist, h[p].pc \notin {"invRead", "invPop"}
      PROVE  /\ FreshKept
             /\ \A s \in Slot : At(s, "invPop") => At(s, "invPop")' /\ h'[s].keys = h[s].keys
  <2>1. \A s \in Slot : h[s].pc \in {"invRead", "invPop"} => h'[s] = h[s]
    BY <1>7, Zenon DEF Only
  <2> QED
    BY Zenon, <1>7, <2>1, SameFresh DEF At
<1>8. ASSUME NEW p \in Slot, ReadDatabase(p) PROVE CurrentOrWill'
  <2>1. /\ Going(p, "insert", Result(h[p].key.q, AsOf(h[p].key.t)), h[p].late, h[p].then)
        /\ h[p].pc = "database" /\ UNCHANGED <<hist, entries>>
    BY <1>8, Moves, ZenonT(30) DEF ReadDatabase, At, index
  <2>2. Only(p) /\ h'[p].key = h[p].key /\ h'[p].pc = "insert" /\ \A s \in Slot \ {p} : h'[s] = h[s]
    BY <2>1, ZenonT(30) DEF Going, Only
  <2>3. StoresFresh(p)'
    <3>1. Conservative(h[p].key) => h'[p].res = Result(h[p].key.q, Db)
      BY <2>1, ZenonT(30) DEF Going, Conservative, AsOf
    <3> QED
      BY Zenon, <2>1, <2>2, <3>1 DEF StoresFresh, Conservative, Fresh, Db
  <2>4. ASSUME NEW s \in Slot, Storing(s)' PROVE StoresFresh(s)'
    BY <1>1, <1>7, <2>1, <2>2, <2>3, <2>4, StoresKept, ZenonT(30) DEF Storing
  <2>5. ASSUME NEW s \in Slot, Registering(s)' PROVE EntryFresh(s)'
    <3>1. s # p /\ h'[s] = h[s] /\ EntryFresh(s)
      BY <1>1, <2>2, <2>5, ZenonT(30) DEF Registering
    <3> QED
      BY <1>7, <2>1, <2>2, <3>1, EntryKept, ZenonT(30) DEF CachedKeys
  <2>6. ASSUME NEW k \in CachedKeys PROVE KeyFresh(k)'
    <3>1. \A s \in Slot : Writing(s) => h'[s] = h[s] /\ Writing(s)'
      BY <2>1, <2>2, Zenon DEF Writing, Registering, At
    <3> QED
      BY Zenon, <1>1, <1>7, <2>1, <2>2, <3>1, KeyKept
  <2> QED
    BY Zenon, <2>1, <2>4, <2>5, <2>6, CurrentFrom DEF CachedKeys
<1>9. ASSUME NEW p \in Slot, Put(p) PROVE CurrentOrWill'
  <2>1. /\ h[p].pc = "put" /\ UNCHANGED hist
        /\ \/ Going(p, "addDeps", h[p].res, h[p].late, h[p].then)
           \/ Going(p, "dropDeps", h[p].res, h[p].late, "addDeps")
    BY <1>9, Moves, ZenonT(30) DEF Put, At
  <2>2. /\ Only(p) /\ h'[p].key = h[p].key /\ h'[p].res = h[p].res /\ h'[p].late = h[p].late /\ Registering(p)'
        /\ \A s \in Slot \ {p} : h'[s] = h[s]
    BY <2>1, Zenon DEF Going, Only, Registering
  <2>3. FreshKept /\ StoresFresh(p)
    BY <1>1, <1>7, <2>1, <2>2, Zenon DEF Storing
  <2>4. PICK key, res : key = h[p].key /\ res = h[p].res
    BY Zenon
  <2>5. /\ key \in CachedKeys' /\ entries'[key].res = res /\ entries'[key].marks = LateMark(p)
        /\ \A k \in CachedKeys' : k = key \/ (k \in CachedKeys /\ entries'[k] = entries[k])
    BY ZenonT(30), <1>9, <2>4, PutEffect
  <2>6. Conservative(key) => "late" \in entries'[key].marks \/ Fresh(key, res)'
    <3>1. Conservative(key) => h[p].late \/ Fresh(key, res)
      BY Zenon, <2>3, <2>4 DEF StoresFresh
    <3>2. h[p].late => "late" \in LateMark(p)
      BY Zenon DEF LateMark
    <3>3. Conservative(key) /\ Fresh(key, res) => Fresh(key, res)'
      BY Zenon, <2>3 DEF FreshKept
    <3> QED
      BY Zenon, <2>5, <3>1, <3>2, <3>3
  <2>7. ASSUME NEW s \in Slot, Storing(s)' PROVE StoresFresh(s)'
    <3>1. StoresFresh(s) /\ h'[s].key = h[s].key /\ h'[s].res = h[s].res /\ h'[s].late = h[s].late
      BY Zenon, <1>1, <2>2, <2>3, <2>7 DEF Storing
    <3> QED
      BY ZenonT(30), <2>3, <3>1, StoresKept
  <2>8. ASSUME NEW s \in Slot, Registering(s)' PROVE EntryFresh(s)'
    <3>1. CASE h[s].key = key
      BY <2>2, <2>4, <2>5, <2>6, <3>1, ZenonT(30) DEF EntryFresh, Conservative, Fresh
    <3>2. CASE h[s].key # key
      <4>1. h'[s] = h[s] /\ EntryFresh(s)
        BY Zenon, <1>1, <2>2, <2>4, <2>8, <3>2 DEF Registering
      <4> QED
        BY ZenonT(30), <2>3, <2>5, <3>2, <4>1, EntryKept
    <3> QED
      BY ZenonT(30), <3>1, <3>2
  <2>9. ASSUME NEW k \in CachedKeys' PROVE KeyFresh(k)'
    <3>1. CASE k = key
      BY <2>5, <2>6, <3>1, Zenon DEF KeyFresh, Conservative, Fresh
    <3>2. CASE k # key
      <4>1. k \in CachedKeys /\ entries'[k] = entries[k] /\ KeyFresh(k)
        BY Zenon, <1>1, <2>5, <2>9, <3>2
      <4>2. \A s \in Slot : h[s].key = k => h'[s] = h[s] /\ (Writing(s) => Writing(s)')
        BY <2>2, <2>4, <3>2, Zenon DEF Writing, Registering, At
      <4> QED
        BY ZenonT(30), <1>7, <2>1, <2>2, <2>3, <4>1, <4>2, KeyKept
    <3> QED
      BY Zenon, <3>1, <3>2
  <2> QED
    BY Zenon, <2>7, <2>8, <2>9, CurrentFrom
<1>10. ASSUME NEW p \in Slot, AddRev(p) PROVE CurrentOrWill'
  <2>1. h[p].pc = "addRev" /\ UNCHANGED hist /\ Going(p, "done", h[p].res, FALSE, h[p].then)
    BY <1>10, Moves, ZenonT(30) DEF AddRev, At
  <2>2. Only(p) /\ h'[p].pc = "done" /\ \A s \in Slot \ {p} : h'[s] = h[s]
    BY <2>1, Zenon DEF Going, Only
  <2>3. FreshKept /\ EntryFresh(p)
    BY <1>1, <1>7, <2>1, <2>2, ZenonT(30) DEF Registering
  <2>4. CachedKeys' = CachedKeys /\ \A k \in CachedKeys : entries'[k].res = entries[k].res
    BY <1>10, MarkEffects, ZenonT(30) DEF Marked
  <2>5. \A k \in CachedKeys : k # h[p].key => entries'[k].marks = entries[k].marks
    BY <1>10, MarkEffects, ZenonT(30) DEF Marked
  <2>6. h[p].key \in CachedKeys =>
           /\ entries[h[p].key].marks \cap {"late", "lost"} \subseteq entries'[h[p].key].marks
           /\ h[p].late => "late" \in entries'[h[p].key].marks
    BY <1>10, MarkEffects, ZenonT(90) DEF Marked, Mended, LateMark
  <2>7. ASSUME NEW s \in Slot, Storing(s)' PROVE StoresFresh(s)'
    <3>1. s # p /\ h'[s] = h[s] /\ StoresFresh(s)
      BY <1>1, <2>2, <2>7, ZenonT(30) DEF Storing
    <3> QED
      BY Zenon, <2>3, <3>1, StoresKept
  <2>8. ASSUME NEW s \in Slot, Registering(s)' PROVE EntryFresh(s)'
    <3>1. s # p /\ h'[s] = h[s] /\ EntryFresh(s)
      BY Zenon, <1>1, <2>2, <2>8 DEF Registering
    <3>2. h[s].key \in CachedKeys => entries[h[s].key].marks \cap {"late", "lost"} \subseteq entries'[h[s].key].marks
      BY Zenon, <2>5, <2>6
    <3> QED
      BY Zenon, <2>3, <2>4, <3>1, <3>2, EntryKept
  <2>9. ASSUME NEW k \in CachedKeys PROVE KeyFresh(k)'
    <3>1. CASE k = h[p].key
      <4>1. PICK res : res = entries[k].res
        BY ZenonT(30)
      <4>2. Conservative(k) => h[p].late \/ entries[k].marks \cap {"late", "lost"} # {} \/ Fresh(k, res)
        BY Zenon, <2>3, <3>1, <4>1 DEF EntryFresh
      <4>3. Conservative(k) /\ Fresh(k, res) => Fresh(k, res)'
        BY Zenon, <2>3 DEF FreshKept
      <4>4. Conservative(k) => entries'[k].marks # {} \/ Fresh(k, res)'
        BY Zenon, <2>6, <3>1, <4>2, <4>3
      <4> QED
        BY Zenon, <2>4, <4>1, <4>4 DEF KeyFresh, Conservative, Fresh
    <3>2. CASE k # h[p].key
      <4>1. \A s \in Slot : h[s].key = k => h'[s] = h[s] /\ (Writing(s) => Writing(s)')
        BY <2>2, <3>2, Zenon DEF Writing, Registering, At
      <4>2. entries'[k].res = entries[k].res /\ entries'[k].marks = entries[k].marks /\ KeyFresh(k)
        BY Zenon, <1>1, <2>4, <2>5, <3>2
      <4> QED
        BY ZenonT(30), <1>7, <2>1, <2>2, <2>3, <4>1, <4>2, KeyKept
    <3> QED
      BY Zenon, <3>1, <3>2
  <2> QED
    BY Zenon, <2>4, <2>7, <2>8, <2>9, CurrentFrom
<1> QED
  BY <1>2, <1>3, <1>4, <1>5, <1>6, <1>8, <1>9, <1>10, KeepsStep, HistSame, Announced

-----------------------------------------------------------------------------
(* The theorems *)

CacheInv == Typed /\ Told /\ PastExact /\ TrackedOrWill /\ CurrentOrWill

LEMMA CacheInvariant == Spec => []CacheInv
<1>1. Init => CacheInv
  BY Zenon, CacheInit DEF CacheInv
<1>2. CacheInv /\ [Next]_vars => CacheInv'
  BY Zenon, TypedStep, PastExactStep, TrackedStep, CurrentStep DEF CacheInv
<1> QED
  BY <1>1, <1>2, PTL DEF Spec

\* A query on a database value answers what the as-of filter shows at the basis-t
\* its client was told, on a version of the log since that transaction committed,
\* whatever is committed, in any order of the ids, cached, invalidated or expired
\* meanwhile, and whichever requests run at the same time (server.rs: the @t of
\* the cache key and asOf).
THEOREM SnapshotQueries == Spec => []SnapshotAnswersAsOf
<1>1. CacheInv => SnapshotAnswersAsOf
  <2>1. SUFFICES ASSUME CacheInv, NEW p \in Slot, At(p, "done"), h[p].id # 0
                 PROVE  Answers(h[p].key.q, issued[h[p].id], h[p].res)
    BY Zenon DEF SnapshotAnswersAsOf, Answers
  <2>2. h[p].key.t = issued[h[p].id] /\ h[p].id \in 1..Len(issued)
    BY Zenon, <2>1 DEF CacheInv, Told
  <2>3. issued[h[p].id] \in 1..Latest.basis /\ Latest.basis \in Nat
    BY <2>1, <2>2, LatestType DEF CacheInv, Typed
  <2>4. h[p].key.t # Now
    BY <2>2, <2>3 DEF Now
  <2> QED
    BY Zenon, <2>1, <2>2, <2>4 DEF CacheInv, PastExact, HasResult, At
<1> QED
  BY <1>1, CacheInvariant, PTL

\* All answers to a query on one database value agree as long as no transaction
\* with a lower id commits late: versions of the log with the same assertions up
\* to t show the same (server.rs, Operation::Db: "a consistent view").
LEMMA ConsistentView ==
    ASSUME NEW t, NEW m \in 1..Len(hist), NEW n \in 1..Len(hist), UpTo(hist[m].log, t) = UpTo(hist[n].log, t)
    PROVE  Past(hist[m].log, t) = Past(hist[n].log, t)
BY Zenon DEF Past, Shown

\* When no request runs, an invalidation finds a cached entry through everything
\* it depends on, unless a removal of its key was between its two locks while the
\* entry was stored (cache.rs: insert_with_deps and remove_deps_for_key).
THEOREM EntriesTracked == Spec => []TrackedUnlessTorn
<1>1. CacheInv => TrackedUnlessTorn
  <2>1. ASSUME Quiet, NEW p \in Slot, NEW k PROVE ~WillTrack(p, k)
    BY Zenon, <2>1 DEF Quiet, WillTrack, At, Registering
  <2> QED
    BY Zenon, <2>1 DEF CacheInv, TrackedOrWill, TrackedUnlessTorn
<1> QED
  BY <1>1, CacheInvariant, PTL

\* When no request runs, an entry that depends on everything, and a pull of the
\* entity it depends on, show the current database, unless the entry was stored
\* across an invalidation, lost its tracking to a race, or a commit was not heard
\* of (cache.rs: invalidate_entities and the untracked sentinel).
THEOREM ConservativeEntries == Spec => []ConservativeEntriesCurrent
<1>1. CacheInv => ConservativeEntriesCurrent
  <2>1. ASSUME Quiet PROVE \A p \in Slot : ~Writing(p) /\ h[p].pc \notin {"invRead", "invPop"}
    BY <2>1, ZenonT(30) DEF Quiet, Writing, At, Registering
  <2>2. ASSUME CacheInv, Quiet, NEW k \in CachedKeys, k.t = Now, k.q \in {"names", "pull"}
        PROVE  Current(k) \/ entries[k].marks # {}
    <3>1. KeyFresh(k) /\ Conservative(k)
      BY Zenon, <2>2, CurrentParts DEF CacheInv, Conservative
    <3>2. ~Pending(k.q)
      BY Zenon, <2>1, <2>2 DEF Pending, At
    <3> QED
      BY Zenon, <2>1, <2>2, <3>1, <3>2 DEF KeyFresh, Fresh, Current, At
  <2> QED
    BY Zenon, <2>2 DEF ConservativeEntriesCurrent
<1> QED
  BY <1>1, CacheInvariant, PTL

=============================================================================
