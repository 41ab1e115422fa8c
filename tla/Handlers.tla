------------------------------ MODULE Handlers ------------------------------
(***************************************************************************)
(* execute_operation of mentatd (server.rs): what each parsed operation    *)
(* asks PostgreSQL, and what it makes of the answer.  PostgreSQL's answers *)
(* are chosen; retries, the pool and the breaker are in module Requests,   *)
(* the caches in QueryCache, what the reads of datoms, index-range and     *)
(* db-stats find in Reads.                                                 *)
(***************************************************************************)
EXTENDS Protocol

CONSTANTS
    Rows,       \* the rows the extension may answer a query with, as JSON
    Documents,  \* what it may answer a pull with, as JSON
    Reports,    \* the transaction reports it may answer with, as JSON
    Bases,      \* the values basis-t may have
    Values,     \* what datoms, index-range and db-stats may answer
    Anomalies,  \* the errors an operation may end in
    ResultValue(_),  \* json_to_response_value of server.rs
    StreamValue(_)   \* and of stream.rs

\* An answer of the extension is a sequence of rows, an anomaly is no result.
ASSUME AnswersAssumption ==
    /\ \A rows \in Rows : Len(rows) \in Nat
    /\ \A a \in Anomalies : ~a.ok

-----------------------------------------------------------------------------
(* Errors *)

Fault(w) == Anomaly("fault", Word(w), Word("db.error/fault"))
Unavailable == Anomaly("unavailable", Word("Database unavailable"), Word("db.error/unavailable"))

\* A handler that panics takes its task, and so its connection, with it.
Panic == [ok |-> FALSE, v |-> Nil, category |-> "panic", message |-> NoText, dbError |-> NoText]

-----------------------------------------------------------------------------
(* Queries.  A call is the query, its inputs and the point in time it names; *)
(* mentat_query finds inputs only under the key "inputs" of an object, so    *)
(* the array that a query without a point in time sends carries none.        *)

Queries == {"q", "as_of", "since", "history"}
Arg(o, key) == o.fields[CHOOSE i \in 1..Len(Fields[o.op]) : Fields[o.op][i].key = key]

Call(o, inputs, when, t) == [query |-> Arg(o, "query"), inputs |-> inputs, when |-> when, t |-> t]
BareArray(o) == Call(o, Vector(<<>>), "now", None)

\* A db-id stands for the basis-t it was made with.
QueryCall(o, basis) ==
    CASE o.op \in {"q", "qseq"} -> IF Arg(o, "db-id") = None THEN BareArray(o)
                                   ELSE Call(o, Arg(o, "args"), "asOf", Integer(basis))
      [] o.op = "as_of" -> Call(o, Arg(o, "args"), "asOf", Arg(o, "t"))
      [] o.op = "since" -> Call(o, Arg(o, "args"), "since", Arg(o, "t"))
      [] o.op = "history" -> Call(o, Arg(o, "args"), "history", None)

\* Mutant: since is passed on as as-of.
StreamCallAsOf(o) ==
    CASE o.op = "q" -> BareArray(o)
      [] o.op \in {"as_of", "since"} -> Call(o, Arg(o, "args"), "asOf", Arg(o, "t"))
      [] o.op = "history" -> Call(o, Arg(o, "args"), "history", None)

\* execute_streaming_query has the same code once more, without db-ids.
StreamCall(o) ==
    CASE o.op = "q" -> BareArray(o)
      [] o.op = "as_of" -> Call(o, Arg(o, "args"), "asOf", Arg(o, "t"))
      [] o.op = "since" -> Call(o, Arg(o, "args"), "since", Arg(o, "t"))
      [] o.op = "history" -> Call(o, Arg(o, "args"), "history", None)

\* parse_query_results: the rows; an answer of another shape is an error.
QueryRows(rows) ==
    IF \A i \in 1..Len(rows) : rows[i].k = "array"
    THEN Vector([i \in 1..Len(rows) |-> ResultValue(rows[i])]) ELSE Failed

\* The same of stream.rs
StreamedRows(rows) ==
    IF \A i \in 1..Len(rows) : rows[i].k = "array"
    THEN Vector([i \in 1..Len(rows) |-> StreamValue(rows[i])]) ELSE Failed

\* The answer to a query whose rows the extension gave.
QueryAnswer(rows) ==
    IF QueryRows(rows) = Failed THEN Fault("internal") ELSE Success(QueryRows(rows))

-----------------------------------------------------------------------------
(* Chunks *)

\* One element of slice::chunks: the rows from i on, at most size of them.
Chunk(rows, i, size) == SubSeq(rows, i, IF Len(rows) - i < size THEN Len(rows) ELSE i + size - 1)

\* Mutant: rows that do not fill a chunk are left out.
ChunkCountFloor(n, size) == n \div size

ChunkCount(n, size) == IF n % size = 0 THEN n \div size ELSE n \div size + 1
Chunks(rows, size) ==
    [i \in 1..ChunkCount(Len(rows), size) |-> Vector(Chunk(rows, size * (i - 1) + 1, size))]

\* A negative size becomes a huge usize: all rows are one chunk.  A size of 0
\* makes chunks panic.
QseqAnswer(rows, size) ==
    LET n == IF size = None THEN 1000 ELSE size.n
        all == QueryRows(rows)
    IN  IF all = Failed THEN Fault("internal")
        ELSE IF n = 0 THEN Panic
        ELSE Success(Map(<<Keyword(Word("chunks")), Vector(Chunks(all.xs, IF n < 0 THEN Len(rows) + 1 ELSE n)),
                           Keyword(Word("total-count")), Integer(Len(rows)),
                           Keyword(Word("chunk-size")), Integer(n)>>))

-----------------------------------------------------------------------------
(* The catalogue: dbs is the set of the server's databases *)

\* is_valid_db_name
ValidDbName(t) == t.m = <<>> /\ t.w \in {"people", "mentat", "a"} /\ Size(t) <= 63

\* DROP DATABASE fails for a database that is not there or is in use.
Deleted(dbs, o) ==
    LET name == Arg(o, "db-name").t
    IN  IF ~ValidDbName(name) THEN {[dbs |-> dbs, answer |-> Fault("Invalid database name")]}
        ELSE {[dbs |-> dbs, answer |-> Unavailable]}
              \cup {[dbs |-> d, answer |-> Success(Bool(TRUE))] : d \in IF name \in dbs THEN {dbs \ {name}} ELSE {}}

Created(dbs, o) ==
    LET name == Arg(o, "db-name").t
    IN  IF ~ValidDbName(name) THEN {[dbs |-> dbs, answer |-> Fault("Invalid database name")]}
        ELSE {[dbs |-> dbs, answer |-> Unavailable]}
              \cup {[dbs |-> d, answer |-> Success(Bool(TRUE))] : d \in IF name \in dbs THEN {} ELSE {dbs \cup {name}}}

\* pg_database is read without ORDER BY: the databases come in any order.
Listings(dbs) == {names \in [1..Cardinality(dbs) -> dbs] : \A name \in dbs : \E i \in DOMAIN names : names[i] = name}

Connected(dbs, o) ==
    LET name == Arg(o, "db-name").t
    IN  IF name \notin dbs THEN Fault("not found")
        ELSE Success(Map(<<Keyword(Word("connection-id")), String(UuidText(1)),
                           Keyword(Word("db-name")), String(name),
                           Keyword(Word("status")), String(Word("connected"))>>))

-----------------------------------------------------------------------------
(* The other operations *)

\* parse_tx_report: the parts there are, in this order; the keys of tempids
\* stay texts.
ReportParts == <<"db-before", "db-after", "tx-data", "tempids", "tx-id", "tx-instant", "datoms-inserted">>

TxReport(report) ==
    LET part(key) == Lookup(report, key, JsonKeys)
        value(key) == IF key = "tempids" /\ part(key).k = "object"
                      THEN Map([i \in 1..Len(part(key).xs) |->
                                  IF i % 2 = 1 THEN String(part(key).xs[i].t) ELSE ResultValue(part(key).xs[i])])
                      ELSE ResultValue(part(key))
    IN  Map(Joined([i \in 1..Len(ReportParts) |->
                          IF part(ReportParts[i]) = None THEN <<>>
                          ELSE <<Keyword(Word(ReportParts[i])), value(ReportParts[i])>>]))

DbValue(t) ==
    Success(Map(<<Keyword(Word("db-id")), String(UuidText(2)), Keyword(Word("basis-t")), Integer(t),
                  Keyword(Word("db-name")), String(Word("mentat")),
                  Keyword(Word("t")), Integer(t), Keyword(Word("next-t")), Integer(t + 1)>>))

\* tx_instant is read as a text, which it is not: any row makes that panic.
TxRangeAnswers == {Success(Vector(<<>>)), Panic}

\* mentat.idents has its idents with a colon; the answer drops it.
IdentAnswers(o) == {Fault("Unknown entid"), Success(Keyword(Word("name")))}
EntidAnswers(o) == {Fault("Unknown ident"), Success(Integer(10))}

PullManyAnswers(o) ==
    {Success(Vector([i \in DOMAIN ds |-> ResultValue(ds[i])])) :
        ds \in [1..Len(Arg(o, "entity-ids").xs) -> Documents]}

QueryAnswers == {QueryAnswer(rows) : rows \in Rows}
PullAnswers == {Success(ResultValue(j)) : j \in Documents}
ReportAnswers == {Success(TxReport(j)) : j \in Reports}

\* A database value that was named and is not, or no longer, in the cache.
Expired(o) == IF Arg(o, "db-id") = None THEN {} ELSE {Fault("Invalid or expired db-id")}

\* What an operation may answer; the errors of the pool and of PostgreSQL are
\* in Anomalies.  SAVEPOINT outside a transaction block is an error, so filter
\* ends there.
Answers(o, dbs) ==
    CASE o.op = "health" -> {Success(String(Word("healthy")))}
      [] o.op = "list_dbs" -> {Success(Vector([i \in DOMAIN names |-> String(names[i])])) : names \in Listings(dbs)}
      [] o.op = "connect" -> {Connected(dbs, o)}
      [] o.op = "db" -> {DbValue(t) : t \in Bases}
      [] o.op = "db_snapshot" -> {Success(DbSnapshot(UuidText(2), t)) : t \in Bases}
      [] o.op = "basis_t" -> {Success(Integer(t)) : t \in Bases}
      [] o.op \in Queries -> QueryAnswers \cup (IF o.op = "q" THEN Expired(o) ELSE {})
      [] o.op = "qseq" -> {QseqAnswer(rows, Arg(o, "chunk-size")) : rows \in Rows} \cup Expired(o)
      [] o.op \in {"transact", "with"} -> ReportAnswers
      [] o.op = "filter" -> {Unavailable}
      [] o.op = "tx_range" -> TxRangeAnswers
      [] o.op = "pull" -> PullAnswers
      [] o.op = "pull_many" -> PullManyAnswers(o)
      [] o.op = "entid" -> EntidAnswers(o)
      [] o.op = "ident" -> IdentAnswers(o)
      [] OTHER -> {Success(v) : v \in Values}

\* The ends of an operation: the answer and the databases there are then.
Handled(o, dbs) ==
    CASE Refused(o) -> {[dbs |-> dbs, answer |-> ParseAnomaly(o.op)]}
      [] o.op = "create_db" -> Created(dbs, o)
      [] o.op = "delete_db" -> Deleted(dbs, o)
      [] OTHER -> {[dbs |-> dbs, answer |-> a] :
                     a \in Answers(o, dbs) \cup (IF o.op = "health" THEN {} ELSE Anomalies)}

=============================================================================
