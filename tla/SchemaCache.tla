---------------------------- MODULE SchemaCache ----------------------------
(***************************************************************************)
(* The per-connection cache of schema attributes and idents                *)
(* (src/pg_mentat/src/cache.rs) and the part of mentat_transact that       *)
(* installs attributes, for the default store.                             *)
(*                                                                         *)
(* A connection (backend) keeps the cache between statements.  Every       *)
(* lookup compares the cached generation with the row of                   *)
(* mentat.cache_generation and reloads when that row is ahead.  A          *)
(* transaction compares once, and then works with what it has.             *)
(*                                                                         *)
(* Reads of a statement that has not written use one snapshot, so a query  *)
(* outside a transaction is one step.  Once the transaction has an id,     *)
(* every read takes its own snapshot, so the three reads of a load are     *)
(* three steps.                                                            *)
(***************************************************************************)
EXTENDS Integers, FiniteSets

CONSTANTS
    Backend,    \* connections
    Ident,      \* keywords that name attributes and enum values
    Type,       \* what an attribute definition says (valueType and flags)
    NoIdent,    \* a definition that asserts no :db/ident
    NoType,     \* a definition that asserts no :db/valueType
    Jobs,       \* the transactions clients send
    MaxEntid,   \* bound: ids handed out by partition_user_seq
    MaxGen      \* bound: value of the generation row

Entid == 1..MaxEntid

(* A definition: the SchemaBuilder of one entity, a new one (0) or entity  *)
(* e.  The record without ident and type is a transaction of plain data.   *)
Job == [e : Entid \cup {0}, ident : Ident \cup {NoIdent}, type : Type \cup {NoType}, dry : BOOLEAN]

ASSUME SchemaCacheAssumption ==
    /\ Jobs \subseteq Job
    /\ NoIdent \notin Ident /\ NoType \notin Type
    /\ MaxEntid \in Nat /\ MaxGen \in Nat \ {0}

VARIABLES
    db,      \* committed tables: idents, schema, the :db/ident datoms, and gen
    mine,    \* rows each connection has written and not committed
    saved,   \* those rows when a speculative transaction began
    seq,     \* the last id of partition_user_seq
    cache,   \* the SchemaCache of each connection
    bypass,  \* TX_GEN_BYPASS
    pc,      \* what each connection is doing
    then,    \* where it goes on after a load
    job,     \* the definition its transaction asserts
    filled,  \* who filled the cache: a query or a transaction (history)
    hist     \* what a load sees at each committed generation (history)

vars == <<db, mine, saved, seq, cache, bypass, pc, then, job, filled, hist>>

(* The rows or entries of g under those of f: an upsert, or a map filled   *)
(* by inserts.                                                             *)
Over(f, g) == [x \in DOMAIN f \cup DOMAIN g |-> IF x \in DOMAIN f THEN f[x] ELSE g[x]]
Extend(f, k, v) == [x \in DOMAIN f \cup {k} |-> IF x = k THEN v ELSE f[x]]

Empty == [x \in {} |-> x]
NoRows == [idents |-> Empty, schema |-> Empty, owner |-> Empty, bumps |-> 0]
EmptyCache == [warmed |-> FALSE, gen |-> 0, attrs |-> Empty, idents |-> Empty, entids |-> Empty]
PlainData == [e |-> 0, ident |-> NoIdent, type |-> NoType, dry |-> FALSE]

(* What connection b reads: the committed rows under its own.              *)
View(b) ==
    [idents |-> Over(mine[b].idents, db.idents),
     schema |-> Over(mine[b].schema, db.schema),
     owner  |-> Over(mine[b].owner, db.owner),
     gen    |-> db.gen + mine[b].bumps]

-----------------------------------------------------------------------------
(* The load: attributes and their names, other names, generation.          *)

NamesOf(schema) == [i \in {schema[e].ident : e \in DOMAIN schema} |->
                        CHOOSE e \in DOMAIN schema : schema[e].ident = i]
Reverse(names) == [e \in {names[i] : i \in DOMAIN names} |-> CHOOSE i \in DOMAIN names : names[i] = e]

LoadSchema(c, v) ==
    [c EXCEPT !.attrs = Over([e \in DOMAIN v.schema |-> v.schema[e].type], c.attrs),
              !.idents = Over(NamesOf(v.schema), c.idents),
              !.entids = Over([e \in DOMAIN v.schema |-> v.schema[e].ident], c.entids)]

LoadIdents(c, v) ==
    [c EXCEPT !.idents = Over(c.idents, v.idents), !.entids = Over(c.entids, Reverse(v.idents))]

LoadGeneration(c, v) == [c EXCEPT !.gen = v.gen, !.warmed = TRUE]

Warm(c, v) == IF c.warmed THEN c ELSE LoadGeneration(LoadIdents(LoadSchema(c, v), v), v)

(* Mutant: the maps are kept and only the flag is reset.                   *)
InvalidateFlagOnly(c) == [c EXCEPT !.warmed = FALSE]

Invalidate(c) == [EmptyCache EXCEPT !.gen = c.gen]

Stale(c, v) == v.gen > c.gen

EnsureFresh(c, v) == Warm(IF c.warmed /\ Stale(c, v) THEN Invalidate(c) ELSE c, v)

Init ==
    /\ db = [idents |-> Empty, schema |-> Empty, owner |-> Empty, gen |-> 1]
    /\ mine = [b \in Backend |-> NoRows]
    /\ saved = [b \in Backend |-> NoRows]
    /\ seq = 0
    /\ cache = [b \in Backend |-> EmptyCache]
    /\ bypass = [b \in Backend |-> FALSE]
    /\ pc = [b \in Backend |-> "idle"]
    /\ then = [b \in Backend |-> "open"]
    /\ job = [b \in Backend |-> PlainData]
    /\ filled = [b \in Backend |-> "none"]
    /\ hist = [g \in {1} |-> Warm(EmptyCache, db)]

-----------------------------------------------------------------------------
(* A query outside a transaction: all its lookups read one snapshot.       *)

Loaded(b) == cache'[b].warmed /\ (~cache[b].warmed \/ cache'[b] # cache[b])

(* The maps a load starts from are empty, unless an earlier load was cut.  *)
Clean(c) == c.warmed \/ (c.attrs = Empty /\ c.idents = Empty /\ c.entids = Empty)

Query(b) ==
    /\ pc[b] = "idle"
    /\ cache' = [cache EXCEPT ![b] = EnsureFresh(@, db)]
    /\ filled' = [filled EXCEPT ![b] = IF ~Loaded(b) THEN @ ELSE IF Clean(cache[b]) THEN "query" ELSE "mixed"]
    /\ UNCHANGED <<db, mine, saved, seq, bypass, pc, then, job, hist>>

(* The connection closes; the next one in its place starts cold.           *)
Disconnect(b) ==
    /\ pc[b] = "idle" /\ cache[b] # EmptyCache
    /\ cache' = [cache EXCEPT ![b] = EmptyCache]
    /\ filled' = [filled EXCEPT ![b] = "none"]
    /\ UNCHANGED <<db, mine, saved, seq, bypass, pc, then, job, hist>>

-----------------------------------------------------------------------------
(* Statements of a transaction: mentat_transact, mentat_with when the job  *)
(* is dry, and queries after them.                                         *)

Lookup(b, next) ==
    /\ pc' = [pc EXCEPT ![b] = IF cache[b].warmed THEN "check" ELSE "loadschema"]
    /\ then' = [then EXCEPT ![b] = next]

(* The tempid of a new entity takes an id from the sequence at once.       *)
Transact(b, j) ==
    /\ pc[b] \in {"idle", "open"}
    /\ IF j.e = 0 /\ j.ident # NoIdent
         THEN seq < MaxEntid /\ seq' = seq + 1 /\ job' = [job EXCEPT ![b] = [j EXCEPT !.e = seq + 1]]
         ELSE seq' = seq /\ job' = [job EXCEPT ![b] = j]
    /\ saved' = [saved EXCEPT ![b] = mine[b]]
    /\ Lookup(b, "install")
    /\ UNCHANGED <<db, mine, cache, bypass, filled, hist>>

QueryInTransaction(b) ==
    /\ pc[b] = "open"
    /\ Lookup(b, "open")
    /\ UNCHANGED <<db, mine, saved, seq, cache, bypass, job, filled, hist>>

(* A transaction arms the bypass once it has compared or loaded.           *)
Proceed(b) ==
    /\ pc' = [pc EXCEPT ![b] = then[b]]
    /\ bypass' = [bypass EXCEPT ![b] = then[b] # "open"]

CheckGeneration(b) ==
    /\ pc[b] = "check"
    /\ IF Stale(cache[b], View(b))
         THEN /\ cache' = [cache EXCEPT ![b] = Invalidate(@)]
              /\ pc' = [pc EXCEPT ![b] = "loadschema"] /\ UNCHANGED bypass
         ELSE Proceed(b) /\ UNCHANGED cache
    /\ UNCHANGED <<db, mine, saved, seq, then, job, filled, hist>>

LoadStep(b, from, c) ==
    /\ pc[b] = from
    /\ cache' = [cache EXCEPT ![b] = c]
    /\ filled' = [filled EXCEPT ![b] = "tx"]
    /\ UNCHANGED <<db, mine, saved, seq, then, job, hist>>

ReadSchema(b) ==
    /\ LoadStep(b, "loadschema", LoadSchema(cache[b], View(b)))
    /\ pc' = [pc EXCEPT ![b] = "loadidents"] /\ UNCHANGED bypass

ReadIdents(b) ==
    /\ LoadStep(b, "loadidents", LoadIdents(cache[b], View(b)))
    /\ pc' = [pc EXCEPT ![b] = "loadgen"] /\ UNCHANGED bypass

ReadGeneration(b) ==
    LoadStep(b, "loadgen", LoadGeneration(cache[b], View(b))) /\ Proceed(b)

(* Rows another open transaction holds: its idents, entids and attributes. *)
HeldByOther(b, j) ==
    \E c \in Backend \ {b} :
        \/ j.ident \in DOMAIN mine[c].idents
        \/ j.e \in DOMAIN mine[c].schema
        \/ \E i \in DOMAIN mine[c].idents : mine[c].idents[i] = j.e

IsDefinition(j) == j.type # NoType

(* The unique constraints the two upserts do not name: one name per entid  *)
(* in idents, one attribute per name in schema.                            *)
BreaksUnique(v, j) ==
    \/ \E i \in DOMAIN v.idents \ {j.ident} : v.idents[i] = j.e
    \/ IsDefinition(j) /\ \E e \in DOMAIN v.schema \ {j.e} : v.schema[e].ident = j.ident

InstallFails(b) ==
    \/ job[b].ident = NoIdent /\ IsDefinition(job[b])
    \/ job[b].ident # NoIdent /\ BreaksUnique(View(b), job[b])

(* The two upserts.                                                        *)
InstallRows(rows, j) ==
    IF j.ident = NoIdent THEN rows
    ELSE [rows EXCEPT
            !.idents = Extend(@, j.ident, j.e),
            !.schema = IF IsDefinition(j) THEN Extend(@, j.e, [ident |-> j.ident, type |-> j.type]) ELSE @]

(* The rows are written, the cache is emptied, and the first lookup of     *)
(* pass 2 loads it again.                                                  *)
Install(b) ==
    /\ pc[b] = "install" /\ ~HeldByOther(b, job[b]) /\ ~InstallFails(b)
    /\ mine' = [mine EXCEPT ![b] = InstallRows(@, job[b])]
    /\ cache' = [cache EXCEPT ![b] = Invalidate(@)]
    /\ pc' = [pc EXCEPT ![b] = "loadschema"]
    /\ then' = [then EXCEPT ![b] = "pass2"]
    /\ UNCHANGED <<db, saved, seq, bypass, job, filled, hist>>

TouchesSchema(j) == j.ident # NoIdent \/ IsDefinition(j)

(* Pass 2: the :db/ident datom goes to the entity that has the name.       *)
WriteDatoms(rows, owner, j) ==
    IF j.ident = NoIdent \/ j.ident \in DOMAIN owner THEN rows
    ELSE [rows EXCEPT !.owner = Extend(@, j.ident, j.e)]

(* Mutant: the generation is not bumped.                                   *)
BumpNothing(rows, j) == rows

BumpGeneration(rows, j) == IF TouchesSchema(j) THEN [rows EXCEPT !.bumps = @ + 1] ELSE rows

(* A transaction that defined something empties the cache again and bumps  *)
(* the generation, whose row it then holds.                                *)
EndTransact(b) ==
    LET j == job[b] IN
    /\ pc[b] = "pass2"
    /\ TouchesSchema(j) => View(b).gen < MaxGen /\ \A c \in Backend \ {b} : mine[c].bumps = 0
    /\ mine' = [mine EXCEPT ![b] = IF j.dry THEN saved[b]
                                   ELSE BumpGeneration(WriteDatoms(@, View(b).owner, j), j)]
    /\ cache' = [cache EXCEPT ![b] = IF TouchesSchema(j) \/ j.dry THEN Invalidate(@) ELSE @]
    /\ bypass' = [bypass EXCEPT ![b] = FALSE]
    /\ pc' = [pc EXCEPT ![b] = "open"]
    /\ saved' = [saved EXCEPT ![b] = NoRows]
    /\ job' = [job EXCEPT ![b] = PlainData]
    /\ UNCHANGED <<db, seq, then, filled, hist>>

EndTx(b) ==
    /\ mine' = [mine EXCEPT ![b] = NoRows]
    /\ saved' = [saved EXCEPT ![b] = NoRows]
    /\ job' = [job EXCEPT ![b] = PlainData]
    /\ bypass' = [bypass EXCEPT ![b] = FALSE]
    /\ pc' = [pc EXCEPT ![b] = "idle"]
    /\ then' = [then EXCEPT ![b] = "open"]
    /\ UNCHANGED <<seq, filled>>

Commit(b) ==
    /\ pc[b] = "open"
    /\ db' = View(b)
    /\ hist' = Extend(hist, View(b).gen, Warm(EmptyCache, View(b)))
    /\ EndTx(b)
    /\ UNCHANGED cache

(* An error that pass 2 returns empties the cache of a transaction that    *)
(* defined something; then PostgreSQL rolls back.                          *)
Pass2Fails(b) ==
    /\ pc[b] = "pass2"
    /\ cache' = [cache EXCEPT ![b] = IF TouchesSchema(job[b]) THEN Invalidate(@) ELSE @]
    /\ EndTx(b)
    /\ UNCHANGED <<db, hist>>

(* The client rolls back, or a statement is cancelled or fails in          *)
(* PostgreSQL: the rows go, the cache of the connection stays.             *)
Rollback(b) ==
    /\ pc[b] # "idle"
    /\ EndTx(b)
    /\ UNCHANGED <<db, cache, hist>>

Next ==
    \E b \in Backend :
        \/ Query(b) \/ Disconnect(b) \/ QueryInTransaction(b)
        \/ \E j \in Jobs : Transact(b, j)
        \/ CheckGeneration(b) \/ ReadSchema(b) \/ ReadIdents(b) \/ ReadGeneration(b)
        \/ Install(b) \/ EndTransact(b) \/ Pass2Fails(b)
        \/ Commit(b) \/ Rollback(b)

Spec == Init /\ [][Next]_vars

-----------------------------------------------------------------------------
(* Properties.                                                             *)

(* Types of the state.                                                     *)
TypeOK ==
    /\ db.gen \in 1..MaxGen /\ seq \in 0..MaxEntid
    /\ DOMAIN db.idents \subseteq Ident /\ DOMAIN db.owner \subseteq Ident
    /\ DOMAIN db.schema \subseteq Entid
    /\ \A b \in Backend :
         /\ pc[b] \in {"idle", "open", "check", "loadschema", "loadidents", "loadgen", "install", "pass2"}
         /\ job[b] \in Job
         /\ bypass[b] => pc[b] \in {"install", "loadschema", "loadidents", "loadgen", "pass2"}
         /\ DOMAIN cache[b].attrs \subseteq Entid

(* Every committed change of the schema tables comes with a higher         *)
(* generation (bump_store_generation in execute_transaction_body), in      *)
(* whatever order the transactions of several connections end: a           *)
(* connection that compares afterwards notices.                            *)
ChangesRaiseGeneration ==
    [][<<db'.schema, db'.idents>> # <<db.schema, db.idents>> => db'.gen > db.gen]_vars

(* A cache that a query filled holds exactly what the tables held at the   *)
(* generation it recorded (warm in a statement with one snapshot).         *)
QueryLoadsOneGeneration ==
    \A b \in Backend : filled[b] = "query" /\ cache[b].warmed =>
        cache[b] = [hist[cache[b].gen] EXCEPT !.gen = cache[b].gen]

(* Not a property of the code: after a query, the cache holds the          *)
(* committed schema.                                                       *)
QuerySeesCommitted ==
    [][\A b \in Backend : Query(b) =>
          cache'[b] = [Warm(EmptyCache, db) EXCEPT !.gen = cache'[b].gen]]_vars

(* Not a property of the code: a name leads to the entity whose :db/ident  *)
(* it is.                                                                  *)
NamesLeadToOwner == \A i \in DOMAIN db.owner : db.idents[i] = db.owner[i]

=============================================================================
