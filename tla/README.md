# TLA+ verification of pg_mentat

pg_mentat keeps a Datomic-style store of datoms in PostgreSQL.  An extension
(`src/pg_mentat`) runs transactions, Datalog queries and pulls inside the server;
a daemon (`src/mentatd`) serves clients over HTTP, WebSocket and server-sent
events.  This project models both, checks the models with TLC on small instances,
and proves the main invariants of the transaction path, of upsert resolution, of the
caches, of the reads of the log, of the daemon's request handling and of its
connections with TLAPS.

## The system

| Part | Source | Modules |
|---|---|---|
| transaction processor and current-state projection | `functions/transact.rs`, `sql/24` | `Datoms`, `Upserts`, `Transact`; promise: `Store` |
| concurrent connections | `transact.rs`, `sql/02` | `Backends` |
| schema cache and schema installation | `cache.rs`, `transact.rs` | `SchemaCache` |
| query engine | `functions/query.rs` | `QueryPlan`, `QueryCompiler`, `QueryFunctions`, `QueryEngine`; reference: `Datalog` |
| scripts | `functions/script.rs` | `Scripts` |
| pull, entity, helpers, audit log, diff, excision | `pull.rs`, `entity.rs`, `helpers.rs`, `time_travel.rs`, `excision.rs` | `Attributes`, `Pull`, `DatomLog`, `Reads` |
| daemon: breaker, pool, retries | `server.rs`, `pool.rs` | `Requests` |
| daemon: result cache and snapshots | `cache.rs`, `db_cache.rs` | `QueryCache` |
| daemon: wire formats and operations | `protocol/*.rs`, `server.rs` | `Protocol`, `Msgpack`, `Transit`, `Operations`, `Handlers`, `Wire` |
| daemon: HTTP, WebSocket, streaming | `server.rs`, `websocket.rs`, `stream.rs` | `Exchange` |

`PROJECT.json` lists every part with its sources, what is left out of it, the
source lines of every definition, and the hazards with the properties about them.

How the parts interact.  A client's request reaches `Exchange` in one of three
encodings (`Wire`), is read by `Operations`, admitted by `Requests`, and turned into one or
more SQL calls by `Handlers`.  A query may be answered from `QueryCache`.  In the
extension `mentat_transact` (`Transact`, `Backends`) writes an append-only log and
a projection of the current state, and every read (`QueryEngine`, `Pull`,
`DatomLog`) compiles to SQL over one or the other.  Attribute names and types come
from a cache that every backend process keeps (`SchemaCache`).

All statements of a call run in one PostgreSQL transaction.  A comment says
SERIALIZABLE, but nothing sets the level, so the models use the default, READ
COMMITTED.  A call that has not written yet reads one snapshot; once it has
written, each of its reads takes a new one.

## Modules

**Transactions.**  `Datoms` has rows and the reads of log and projection: the nine
typed tables of each kind are one set, since only the difference between
references and scalars matters.  `Upserts` is phases A and B of upsert resolution.
`Transact` is one connection: `wlog` and `wcur` are the tables as the running call
sees them, `Commit` publishes them, and every failure drops them; `dry` is
`mentat_with`.  `Store` says what all this is for: a request is a set of assertions
and a set of retractions, which take effect together, with the values they
replace, or not at all.  It knows no tables, statements or batches.  `Transact`
implements it under the mapping `Promise`.

`Backends` has several connections, one action per SQL statement or row lock.
`Begin` takes an id from the connection's cached block, `AcquireLock` and
`CheckUnique` are the unique check, `DeleteRow` and `UpsertRow` lock projection
rows, `DeadlockDetected` is PostgreSQL's.  The retry loop of `transact.rs:772-785` is not
a step: it sees errors that are returned, and PostgreSQL's own unwind the call.  `Cancel` and `Disconnect` end a call at
any point; a disconnect loses the cached ids.

`SchemaCache` is the cache of each backend with its statement-by-statement load,
the generation counter, the bypass during a transaction that installs attributes,
and the installation itself.

**Queries.**  `Datalog` says what a query means: the substitutions that satisfy its
clauses over a set of datoms.  It is written independently of the compiler.
`QueryPlan` is the SQL that the compiler emits, as data, and what PostgreSQL makes
of it: joins, NULL, placeholders, typed columns, errors.  `QueryCompiler`
translates patterns, predicates, NOT, OR, rules, heads and temporal filters;
`QueryFunctions` inputs and where-functions; `QueryEngine` puts the statement
together, with order, limit, offset and the guard on the number of rows, runs it,
and decodes the rows.  `Scripts` adds the primitives that a `mentat_eval` script
calls, while other sessions transact; `order` is the order in which ids commit.  Doubles
are stored, joined, compared and ordered; they are not inputs and not computed with.  Searches of other extensions (text,
vectors, geometry, models) are tables of what they return.

**Reads.**  `DatomLog` is a store that transactions and excisions change, and the reads
of its log: entity, datoms by index, index-range, the audit log, diff, the
helpers, and db-stats with its separate statements.  The helper `retract_entity` is a
read, the EDN that it writes for what it read (`ReadBack` says what the parser makes of
that) and a transaction; others commit in between.  `Pull` is the pattern parser, the
single pull and the batched `pull_many`, over a set of facts.  `Attributes` is the
schema both use, and `Reads` puts them together.

**Daemon.**  `Requests` takes a request through breaker, pool, statement, back-off
and answer; a connection may break after the statement took effect.  `QueryCache`
has one action per lock of the cache, since entries, dependencies and reverse index
are behind different locks; `older` is the order of use in the LRU cache, and a mark on an
entry records a race that touched it.  A version of the database is its current values,
its log and its basis-t, and a query on a snapshot is the as-of filter on the log there is.  `Protocol` has the values, the operations with
their fields, and the answers.  `Handlers` says what each operation asks of PostgreSQL
and makes of the answer; `Exchange` is the connection: frames, idle timer, pings, request
ids, batches of a stream, a client that leaves.  These two take the codecs as constant
operators, so that what they promise can be proved for every codec.  The codecs of the
code are in `Msgpack` (the width of integers and lengths), `Transit` (the values in the
three encodings) and `Operations` (requests and answers); `Wire` puts them into
`Exchange`, with the clients that write and read them.  A text is an abstract word with
its leading marks; what the escapes of the encodings do to those is modelled.

Transaction ids.  Each connection takes its ids from a block of its own (`CACHE 100`,
`sql/02_tables.sql:178`), so a transaction may commit with a lower id than one before it.
`Backends` has the blocks; in `DatomLog`, `QueryEngine`, `Scripts` and `QueryCache` a commit takes
any unused id.  `Transact` is one connection, where ids rise.

`MC*` modules are the instances.  In `MCTransact` and `MCBackends` a behaviour submits the
programs of one family, chosen at the start.  `*Proofs` modules are the proofs.  Definitions
whose comment begins with "Mutant" are faulty variants of a definition that
follows; they confirm that a property can fail.  PostgreSQL, tokio and other
libraries are modelled from how the code uses them and marked external in the map.

## Runs that hold

| Run | Distinct states | What is checked |
|---|---|---|
| `transact` | 1.5 million | `ProjectionMatchesLog` (the projection is the latest-wins resolution of the log), `CardinalityOne`, `UniqueValues`, `UpsertsUnified`, `NoHistoryKeepsOneAssertion`, `RetractEntityClears`, and `ImplementsStore`: the refinement |
| `concurrent` | 192,000 | `UniqueValues`, `TxIdsUnique`, `ProjectionIsAsserted`, `TransactionsEnd` |
| `schema_cache` | 139,000 | `QueryLoadsOneGeneration` (a cache that a query filled is the schema of one generation), `ChangesRaiseGeneration` |
| `query_cache` | 2.5 million | `SnapshotAnswersAsOf`, `TrackedUnlessTorn`, `ConservativeEntriesCurrent` |
| `requests` | 141,000 | `AppliedAtMostOnce`, `BreakerCounts`, bounds of pool and retries (`TypeOK`), `RequestsAnswered`, `BreakerCloses` |
| `query_engine` | 14,600 | `AnswersAreDatalog`, `FirstInOrder`, `PastKeepsLive`; scripts: `ReadsAgree`, `AsOfIsStable` |
| `reads` | 298,000 | `PullExact`, `RecursionReaches`, `PullManyIsPull`, `ReadsCoverCurrent`, `LogReplays`, `DiffIsLogged`, `StatsNeverAhead`, `HelperRetractsLive` |
| `wire` | 51,000 | `FormatsAgree`, `AnswersReadBack`, `AnswersPair`, `PiecesComplete`, `StreamAsksAlike`, `ExchangesEnd` |

Each property is stated in words above its definition.  Some say exactly where they
stop, because the code does: `PullManyIsPull` leaves out patterns for which
`pull_many` differs from `pull` (see below), `AnswersReadBack` the ids of requests whose
id is not the first one in the text, `TrackedUnlessTorn` and `ConservativeEntriesCurrent`
entries that a race or a lost answer has marked.  The marks are history variables.
`UpsertsUnified` is about identity values as they were written, since resolution remaps
references in values in the same pass, and stops at owners that form a cycle, which
tempids alone cannot make.  `RetractEntityClears` is about transactions without identity
values: with one, resolution remaps the pending retractions too.  `LogReplays`, `DiffIsLogged`,
`PastKeepsLive` and `AsOfIsStable` are about facts, points or database values up to which ids
committed in their order; `UniqueValues` counts a retracted owner as an owner, as the check
in the code does; `FormatsAgree` leaves out lists and sets, which two parsers read
differently (`transit_parser.rs:173-177` and `362-376`).

Bounds.  Two connections, requests or slots are enough for each to overlap the
other at any step, and a third transaction lets a later one act on what they left.
`MaxTx` (2 to 4), `MaxEntity` and `MaxGen` cap sequences.  Transactions have one to
three operations; three are needed for chains of remaps.  `CacheSize` is 2 in place
of 100, so that blocks of ids interleave.  A pool of one connection, one retry and
a threshold of one error make each limit a state that is met and passed.  The
result cache has room for one entry, so every second query evicts.  Queries run on
stores of two people with up to three transactions, the first included, which is
enough for a value to be set, replaced and retracted; 4 rows and 3 columns are the
guards.  Pull sees every two facts of a pool of twelve that share an entity, the
cycle of three friends, three friends of one entity and the three components, each with one
more transaction: self references, cycles of three, shared and nested components.  Depth 3
is met and exceeded, and so is the implied limit of 2 per attribute, which the three friends
pass; patterns give limits of 0, 1 and none.  Three ids in any order let the last commit have
the lowest.  `MaxNestingDepth` is 4 in place of the code's limit, batches have 2
rows, and a connection carries 3 frames.

Deadlock checking is off where the system stops when its bounds are used up
(`transact`, `concurrent`, `reads`, `wire`); `TransactionsEnd` and `ExchangesEnd` ask the
question where it matters.  Connections and slots are interchangeable in
`schema_cache` and `query_cache`, and symmetry is used there.

Fairness.  `concurrent`: the steps of each running transaction are weakly fair, for
a backend process goes on with its statement and PostgreSQL grants free locks and
runs its deadlock detector.  `requests`: so are the steps of each request, which
tokio polls, and time passes.  `wire`: so are the handler's own steps once a frame is
there, no two of which are possible at once.  Nothing is assumed of clients, timers,
cancellation or the network.

## Runs that find a disagreement

Each is a finding of `PROJECT.json` that quotes the line it contradicts.

- `cardinality_concurrent`: two connections that assert different values at once
  leave two live values of a cardinality-one attribute.
- `as_of`: a value that a transaction retracted is still answered as of that transaction.
- `excised`: an excised entity keeps its rows in the projection, where queries and
  pull find it.
- `cache_dependency`: a cached answer stays although a transaction about an entity
  it does not name has changed what the query answers.

Six more configurations violate one property each.  They are kept to be
run by hand (`tlc -config <file> <module>`):

| Configuration | Property | What it shows |
|---|---|---|
| `MCTransactTwoIdentities` | `UpsertsFindOwner` | with two identity attributes an existing entity is remapped to a new one, in spite of `transact.rs:2138-2140` |
| `MCTransactInstant` | `CardinalityOne` | an instant with a fraction of a second is read back rounded, so its replacement does not retract it |
| `MCTransactDetached` | `RetractsCurrentComponents` | `retractEntity` cascades to a former component, against `transact.rs:464` |
| `MCQueryCacheTorn` | `EntriesStayTracked` | an expiry between two locks of an insert leaves an entry no invalidation finds, against `cache.rs:46-49` |
| `MCQueryEngineFunctions` | `FunctionsAsDocumented` | `missing?` and `get-else` look their attribute up under a name with two colons and never find it, against `docs/src/datalog.md` |
| `MCQueryEngineDbValue` | `DbValueImmutable` | a script's `(db conn)` shows later writes, against "an immutable snapshot" in `script.rs` |

The module of each is the configuration's name without its last part: `MCTransact`,
`MCQueryCache` or `MCQueryEngine`.

## Other differences met while modelling

These are modelled as the code has them, or kept out of a property's scope as its
comment says.  No run is about them; a property named here states what does not hold, and
TLC refutes it as the only property of the configuration of its module.

- Transactions: identity values asserted on literal ids remap the ids, and the remaps can
  form a cycle (`LiteralIdsKept` with `Families = {"literal"}`); retract and assert again in
  one call ends with the value gone, against `transact.rs:2960-2961` (`ReassertedLive`); a
  retraction does not see an assertion that has not committed, so the projection keeps what
  the log resolves to retracted (`ProjectionMatchesLog` of `Backends`); tx-data lacks implicit retractions
  (`TxDataComplete`); a retraction row of a noHistory attribute stays
  (`NoHistoryKeepsCurrentOnly`); cas compares and swaps in two statements
  (`CasAtomic`); rows with a lower id commit later (`AsOfStable`); the unique check reads
  retracted rows too, so a retracted entity keeps its unique values and a new one cannot
  have them, against `datalog_feature_tests.rs:416` "should create a new entity (old one is
  retracted)" (`OwnersAreLive` of `Transact`).
- Schema cache: attributes loaded by a transaction that is then rolled back stay in the
  backend's cache (`QuerySeesCommitted`; only a failed insertion invalidates it), and a
  name given to a second entity still leads to the first (`NamesLeadToOwner`).
- Queries: collection, tuple and relation inputs are ignored by views; a variable
  that only a disjunction binds is refused beside other patterns; two patterns of a
  negation are not joined on variables of its own; a predicate on a computed
  value fails; an integer with a variable attribute matches longs only, and so does a numeric
  input for a variable whose values are references (`query.rs:1024-1030`); aggregates
  over a disjunction are per arm; doubles, and all rows of a disjunction, are ordered as
  text, against `query.rs:5043` (`NumbersInOrder`).
- As of: with a variable attribute a newer value of cardinality many hides the older ones,
  against `query.rs:5561-5562` and `5581`, and a negation sees datoms that were retracted, so
  both lose rows that were true then (`PastKeepsAll`).  A transaction with an id at or below
  the point asked about may commit later and change the answer: a script's as-of value is
  stable only while none does (`AsOfIsStable` has this as its premise), and two queries of one
  snapshot may differ, against `server.rs:666-669` "see a consistent view"
  (`SnapshotsConsistent` of `QueryCache`).
- Pull: `pull_many` treats reverse attributes as forward ones, ignores limits,
  follows components one level, and shows idents as ids; an entity expanded as a
  component is only named when met again; a repeated id gets an empty answer in a batch,
  against "one result per entity ID" (`pull.rs:402`).
- Reads: entity, datoms, index-range, db-stats and `attribute_values` read every
  assertion of the log, superseded ones included; index-range orders longs as text and reads
  six of the nine tables, so instants, uuids and bytes are never in its answer (its `limit` is
  not modelled); a component of datoms that is no numeral is looked up as 0; diff never
  reports a value that was only retracted, against `time-travel.md:139` "net changes"
  (`DiffIsNet`); `retract_entity` leaves facts that committed after its read, instants, uuids,
  bytes, and texts with a leading colon or a backslash, which its EDN does not read back as
  what they were, against `helpers.rs:126-129` (`HelperRetractsAll`);
  a reference committed between excision's check and its deletion is left dangling.
- Daemon: streaming bypasses the breaker and WebSocket errors are not counted;
  an answer on a WebSocket takes the first `request-id` in the text of a request
  (`AnswersAlwaysPair`); a stream and a plain query read the same JSON rows
  differently (`StreamAgrees`); inputs of a query without a db-id are sent in a form
  the extension does not read.

## Proofs

For every schema, set of transactions, number of connections or requests, and bound.
Each theorem rests on an inductive invariant, which is needed because the property
alone says nothing of the call that is half done.

- `TransactProofs`.  `ProjectionCorrect`: `ProjInv` adds that the tables as the
  running call sees them are consistent too, that its id is newer than every row,
  and that only noHistory rows have left; a new row therefore always wins the
  resolution of the log.  `UniqueValuesHold`: `UniqueInv` adds that each queued assertion
  of a unique attribute agrees with its owners and with every other pending one.
  `CardinalityOneHolds`: `OneInv` adds that a queued assertion is the only one for its
  entity and attribute and that what it replaces is queued for retraction.
  `LogAppendOnly` and `TypeCorrect`.  `TransactImplementsStore`: initial states map to
  initial states and every step to a step of `Store` or a stutter.  The invariant says what
  the rows queued so far will do to the abstract facts when they are written.
  `CommitTakesEffect`: what a committed call asserted is live and what it retracted is not.
  `NoHistoryHolds`: pruning comes before every assertion of the batch.
- `UpsertsProofs`.  `OneEntityPerIdentity` is about the operator `ResolveUpserts` alone:
  owners without a cycle give every entity a rank that falls along the map, so the
  bounded walk of `ResolveRoot` ends at a root; each merge of Phase B joins two
  roots and keeps ranks and earlier merges, every pair of assertions is visited, and
  flattening keeps roots.  `UpsertsType`: the result is a map on entities, cycles or
  not.  `UpsertsUnify` carries the theorem to `Transact`.  `RetractEntityHolds`: `ClearInv`
  follows what a `:db/retractEntity` covers from its expansion, through upsert resolution and
  pruning, to the batch.
- `BackendsProofs`.  `TxIdsAreUnique`: cached blocks, ids in use and committed ids are
  disjoint.  `UniqueValuesHold`, for any hash of values: a lock has one holder, and a
  queued assertion was checked under its lock.  `ProjectionHoldsAssertions`: rows
  about to be upserted are in the log of the same connection.  `TypeCorrect`.
- `SchemaCacheProofs`.  `OneGenerationPerLoad`: `OneGeneration` says what the caches hold in
  the middle of a load, whose three statements may see three committed states, and
  `RowsCounted` that rows a transaction has written are not committed without a new
  generation.  From these also `CommitsRaiseGeneration` and `QueriesUseCommitted`.
- `QueryCacheProofs`.  `SnapshotQueries`: `Told` ties the key of each running request to
  the basis-t its client was told, and `PastExact` says that every result about a past
  point, cached or on its way, is what the as-of filter shows there on some version of the
  log since that point committed.  `EntriesTracked`: `TrackedOrWill` says that
  an entry outside the reverse index has a request that will register it.
  `ConservativeEntries`: `CurrentOrWill` says that an outdated entry has a transaction that
  has not read the reverse index yet.
- `DatomLogProofs`.  `LogReplaysCurrent`, `CurrentIsRead`, `DiffAgreesWithLog` and
  `HelperRetracts` rest on an invariant about the order of commits, which is not that of
  ids: a current fact of an entity that was not excised has an assertion that no later
  commit retracts (`Held`), an asserted fact is current or a later commit retracted it
  (`Kept`), and between two values of a cardinality-one attribute the first was retracted
  (`Replaces`); `Read` says that `retract_entity`
  has read every fact that was live.  Where commits
  follow ids the two orders are one, and the theorems about the audit log and diff follow.
  `StatsBehindBasis` rests on `Counted`, about the counts db-stats has read so far.
- `DaemonProofs`.  `PoolAndRetriesBounded` counts the connections held, those held
  over a back-off included.  `TransactionsApplyOnce` adds that a request that is sent
  again has not taken effect.  `BreakerCountsBounded` counts the requests that have
  passed the breaker or are about to add an error.  `IntegersRoundTrip` for every 64-bit
  integer and `LengthsRoundTrip` for every 32-bit length, by cases on the format the
  size selects.
- `ExchangeProofs`, for every codec and every answer of the extension.  `AnswersArePaired`:
  `WsInv` says that the frames on their way are the last ones sent and that the frame in
  work is the last one taken; `Paired` is the property as a statement about the frames
  sent, the number taken and the answers, with one lemma for each thing the loop does to
  them.  `PiecesAreComplete`: `SseInv` says that the events of a stream so far are the
  batches up to the first row not sent, `HttpInv` that a qseq was answered with the chunks
  of some rows; that chunks join to the whole, and that the two formulas for their number
  agree, is proved for every length and size (`ChunksJoin`, `FittingCount`).
  `StreamsAskAlike` compares the two copies of the code that builds a query's inputs.
  `TypeCorrect`.

Assumptions: the named `ASSUME`s of the modules (finite sets, positive bounds; in `Handlers`
and `Exchange` that rows are sequences, that an anomaly is no result, which kinds of frames
there are, and that a chunk size that was read is an integer) and, for
`CardinalityOneHolds`, `TransactImplementsStore` and `CommitTakesEffect`,
`ExactReadBack`: a value is read back as it was stored, which is so for every type but
instants.

`LogAppendOnly`, `CommitTakesEffect`, `QueriesUseCommitted`, `OneEntityPerIdentity`, the round
trips and the three `TypeCorrect` state what no run lists; `ImplementsStore`,
`UpsertsUnified` and `FormatsAgree` cover most of it on the instances.

Induction over data.  The loops of upsert resolution, and the joining of a sequence of
sequences, are recursive functions on an interval.  `CountUp` (a set that holds 0 and with each number the next holds the interval)
and, for the loops, `StepByStep` (a function with a given start and step exists on the
interval) make them open to proof; both follow from the well-foundedness of the natural numbers.  The
pragmas `SMTT` and `Zenon` in the proofs choose a backend or give it time.

Only model-checked:

- liveness: `TransactionsEnd`, `RequestsAnswered`, `BreakerCloses`, `ExchangesEnd`;
- `AnswersAreDatalog`, `FirstInOrder`, `PastKeepsLive`, `ReadsAgree` and `AsOfIsStable`: an
  induction over the clauses of a query, through the folds of the compiler and of the
  evaluation of its statement;
- `PullExact`, `RecursionReaches`, `PullManyIsPull`, and `FormatsAgree`, `AnswersReadBack`:
  patterns and values nest to any depth, and their modules use recursive operators, which
  the prover does not take.

## Not modelled

- Named stores: the function `create_store` generates does not parse as PL/pgSQL, and a
  transaction on a named store needs a table nothing creates, so there is no behaviour past
  the failure.
- Subscriptions: the trigger calls a one-argument `mentat_query` that does not exist.
- Sessions: nothing creates one.
- `recursive_queries.rs`: raw SQL fragments of the caller, spliced into a statement.
- Materialized views, virtual tables, planner hooks, statistics, metrics, start-up:
  generated DDL, estimates, counters and settings.
- EDN grammar, `mentat_explain`, `mentat_query_sql`, error texts, SQL operators on EDN
  values: text.  The models start from parsed forms.
- The fulltext rows a transaction writes, and the id repair migration of `sql/25`.
- `Backends` leaves out upserts, noHistory and tempids, which `Transact` covers on one
  connection; the full clear of the result cache, which no transaction report causes.

The mapped definitions stand for about 16,000 lines of Rust, 32% of the implementation as it is
counted with its tests, and about 125 lines of SQL.
