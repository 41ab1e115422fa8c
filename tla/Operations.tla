----------------------------- MODULE Operations -----------------------------
(***************************************************************************)
(* From the body of a request to the operation it asks for: protocol/      *)
(* parser.rs for EDN, protocol/transit_parser.rs for Transit; and from a   *)
(* result or an error to the body of the answer.                           *)
(*                                                                         *)
(* An operation is its name and the values of its fields, in the order the *)
(* parsers look them up; of several errors the first one is reported.      *)
(***************************************************************************)
EXTENDS Transit, TLC

\* The keywords of the operations, and the operation each one names; of a
\* namespaced keyword the EDN parser takes the name alone.
Named ==
    ("list-dbs" :> "list_dbs") @@ ("health" :> "health") @@ ("basis-t" :> "basis_t")
      @@ ("db-snapshot" :> "db_snapshot") @@ ("db-stats" :> "db_stats") @@ ("create-db" :> "create_db")
      @@ ("delete-db" :> "delete_db") @@ ("connect" :> "connect") @@ ("db" :> "db") @@ ("q" :> "q")
      @@ ("transact" :> "transact") @@ ("pull" :> "pull") @@ ("datoms" :> "datoms") @@ ("as-of" :> "as_of")
      @@ ("since" :> "since") @@ ("history" :> "history") @@ ("tx-range" :> "tx_range") @@ ("with" :> "with")
      @@ ("filter" :> "filter") @@ ("qseq" :> "qseq") @@ ("pull-many" :> "pull_many")
      @@ ("index-range" :> "index_range") @@ ("entid" :> "entid") @@ ("ident" :> "ident")

Catalog ==
    ("datomic.catalog/list-dbs" :> "list-dbs") @@ ("datomic.catalog/create-db" :> "create-db")
      @@ ("datomic.catalog/delete-db" :> "delete-db")

OpOf(w, known) == IF w \in DOMAIN Named /\ Named[w] \in known THEN Named[w] ELSE "unknown"
EdnOp(w) ==
    LET names == Catalog @@ ("app/q" :> "q")
    IN  OpOf(IF w \in DOMAIN names THEN names[w] ELSE w, DOMAIN Fields)
TransitOp(w) ==
    OpOf(IF w \in DOMAIN Catalog THEN Catalog[w] ELSE w, DOMAIN Fields \ EdnOnly)

-----------------------------------------------------------------------------
(* Fields *)

EdnKeys == {"keyword"}
TransitKeys == {"keyword", "string"}

\* A request is read by the parser of its syntax, "edn" or "transit".
KeysOf(syntax) == IF syntax = "edn" THEN EdnKeys ELSE TransitKeys

\* parse_datoms_index: colons and quotes are trimmed first.
IndexNamed(v) ==
    IF v.k \in {"keyword", "string", "symbol"} /\ v.t.m = <<>> /\ v.t.w \in {"eavt", "aevt", "avet", "vaet"}
    THEN Symbol(v.t) ELSE InvalidType

\* extract_edn_text: the text as it was written.
Span(v) == v
Debug(v) == Value("debug", NoText, 0, <<v>>)

\* How a value is printed in a field, and the value of attr-equals.
Printed(syntax, v) == IF syntax = "edn" THEN Span(v) ELSE TransitToEdn(v)
AttrValue(syntax, v) == IF syntax = "edn" THEN Debug(v) ELSE TransitToEdn(v)

\* parse_filter_predicate
Predicate(syntax, p) ==
    LET type == Lookup(p, "type", KeysOf(syntax))
        v == Lookup(p, "value", KeysOf(syntax))
        of(k) == IF v.k = k THEN Value("predicate", type.t, 0, <<v>>) ELSE InvalidType
    IN  CASE p = None -> Missing
          [] p # None /\ p.k # "map" -> InvalidType
          [] p.k = "map" /\ type = None -> Missing
          [] p.k = "map" /\ type # None /\ type.k # "keyword" ->
                IF syntax = "edn" THEN InvalidType ELSE Missing
          [] p.k = "map" /\ type.k = "keyword" /\ v = None -> Missing
          [] OTHER ->
                CASE type.t.w = "attr-equals" -> Value("predicate", type.t, 0, <<AttrValue(syntax, v)>>)
                  [] type.t.w \in {"entity-equals", "since"} -> of("int")
                  [] type.t.w = "custom" -> of("string")
                  [] OTHER -> Unknown

IntegersOf(v) ==
    IF v = None THEN Missing
    ELSE IF v.k # "vector" \/ \E i \in 1..Len(v.xs) : v.xs[i].k # "int" THEN InvalidType ELSE v

\* A field's value
FieldValue(syntax, args, f) ==
    LET v == Lookup(args, f.key, KeysOf(syntax))
    IN  CASE f.type \in {"string", "connection"} ->
                IF v = None THEN Missing ELSE IF v.k = "string" THEN v ELSE InvalidType
          [] f.type = "uuid" ->
                IF v = None THEN Missing
                ELSE IF v.k = "string" /\ v.t.m = <<>> /\ v.t.w = "uuid" THEN Uuid(v.t.n) ELSE InvalidType
          [] f.type = "string?" -> IF v.k = "string" THEN v ELSE None
          [] f.type = "integer?" -> IF v.k = "int" THEN v ELSE None
          [] f.type = "integer" -> IF v.k = "int" THEN v ELSE Missing
          [] f.type = "integers" -> IntegersOf(v)
          [] f.type = "text" -> IF v = None THEN Missing ELSE Printed(syntax, v)
          [] f.type = "texts?" ->
                IF v.k = "vector" THEN Vector([i \in 1..Len(v.xs) |-> Printed(syntax, v.xs[i])]) ELSE Vector(<<>>)
          [] f.type = "index" -> IF v = None THEN Missing ELSE IndexNamed(v)
          [] f.type = "predicate" -> Predicate(syntax, v)

\* In EDN a connection id of another type counts as missing.
EdnField(args, f) ==
    LET v == FieldValue("edn", args, f)
    IN  IF f.type = "connection" /\ v = InvalidType THEN Missing ELSE v

TransitField(args, f) == FieldValue("transit", args, f)

-----------------------------------------------------------------------------
(* Requests *)

Parsed(op, fields) ==
    LET wrong == {i \in 1..Len(fields) : fields[i] \in {Missing, InvalidType, Unknown}}
    IN  IF wrong = {} THEN [op |-> op, fields |-> fields]
        ELSE Refusal(fields[CHOOSE i \in wrong : \A j \in wrong : i <= j].k)

RequestOf(syntax, v) ==
    LET kw == Lookup(v, "op", KeysOf(syntax))
        args == Lookup(v, "args", KeysOf(syntax))
        op == IF syntax = "edn" THEN EdnOp(kw.t.w) ELSE TransitOp(kw.t.w)
        field(f) == IF syntax = "edn" THEN EdnField(args, f) ELSE TransitField(args, f)
    IN  CASE v.k # "map" -> Refusal("invalid-type")
          [] v.k = "map" /\ kw = None -> Refusal("missing")
          [] v.k = "map" /\ kw # None /\ kw.k # "keyword" -> Refusal("invalid-type")
          [] OTHER ->
                IF op = "unknown" THEN Refusal("unknown")
                ELSE IF Fields[op] # <<>> /\ args.k # "map" THEN Refusal("missing")
                ELSE Parsed(op, [i \in 1..Len(Fields[op]) |-> field(Fields[op][i])])

\* parse_request, and transit_to_request with parse_transit_operation.
ParseEdn(v) == RequestOf("edn", v)
ParseTransit(v) == IF v = Failed THEN Refusal("unreadable") ELSE RequestOf("transit", v)

\* The three parsers; a body in another format than its parser's is unreadable.
ParseAs(format, body) ==
    CASE format # body.form -> Refusal("unreadable")
      [] format = "edn" /\ body.form = "edn" -> ParseEdn(body.v)
      [] format = "json" /\ body.form = "json" -> ParseTransit(DecodeJson(body.v, 0))
      [] format = "msgpack" /\ body.form = "msgpack" -> ParseTransit(DecodeMsgpack(body.buf))

-----------------------------------------------------------------------------
(* Results.  The extension answers with JSON. *)

\* json_to_response_value of server.rs: a text with a leading colon becomes a
\* keyword, an object with a _t an instant, a UUID or a float.
RECURSIVE FromResult(_)
FromResult(j) ==
    LET key(i) == j.xs[2 * i - 1].t.w
        typed == j.k = "object" /\ Len(j.xs) = 4 /\ key(1) = "_t" /\ key(2) = "v"
        tag == j.xs[2].t.w
        v == j.xs[4]
    IN  CASE j.k = "text" -> IF j.t.m # <<>> /\ j.t.m[1] = ":"
                             THEN Keyword(Text(Tail(j.t.m), j.t.w, j.t.n)) ELSE String(j.t)
          [] j.k = "number" -> Integer(j.n)
          [] j.k = "float" -> Float(j.n)
          [] j.k = "bool" -> Value("bool", NoText, j.n, <<>>)
          [] j.k = "null" -> Nil
          [] j.k = "array" -> Vector([i \in 1..Len(j.xs) |-> FromResult(j.xs[i])])
          [] j.k = "object" ->
                CASE typed /\ tag = "inst" /\ v.k = "number" -> Instant(v.n)
                  [] typed /\ tag = "uuid" /\ v.k = "text" -> Uuid(v.t.n)
                  [] typed /\ tag = "double" /\ v.k \in {"number", "float"} -> Float(v.n)
                  [] OTHER -> Map([i \in 1..Len(j.xs) |->
                                      IF i % 2 = 1 THEN Keyword(j.xs[i].t) ELSE FromResult(j.xs[i])])

\* json_to_response_value of stream.rs: no types, and a float becomes its text.
RECURSIVE FromStreamed(_)
FromStreamed(j) ==
    CASE j.k = "float" -> String(Text(<<>>, "float", j.n))
      [] j.k = "array" -> Vector([i \in 1..Len(j.xs) |-> FromStreamed(j.xs[i])])
      [] j.k = "object" -> Map([i \in 1..Len(j.xs) |->
                                  IF i % 2 = 1 THEN Keyword(j.xs[i].t) ELSE FromStreamed(j.xs[i])])
      [] OTHER -> FromResult(j)

-----------------------------------------------------------------------------
(* Answers: a result, or an anomaly with its category, message and db error *)

Category(c) == Word("cognitect.anomalies/" \o c)

\* anomaly_to_transit_json: the message is not escaped.
AnomalyJson(a) ==
    LET error == IF a.dbError = NoText THEN <<>>
                 ELSE <<JsonText(Tagged(":", Word("db/error"))), JsonText(Tagged(":", a.dbError))>>
    IN  Array(<<JsonText(MapMark), JsonText(Tagged(":", Word("error"))),
                Array(<<JsonText(MapMark), JsonText(Tagged(":", Category("category"))),
                        JsonText(Tagged(":", Category(a.category))),
                        JsonText(Tagged(":", Category("message"))), JsonText(a.message)>> \o error)>>)

\* Mutant: the header of the error map does not count the db error.
AnomalyMsgpackShort(a) ==
    LET error == IF a.dbError = NoText THEN <<>>
                 ELSE WriteStr(Tagged(":", Word("db/error"))) \o WriteStr(Tagged(":", a.dbError))
    IN  WriteArray(3) \o WriteStr(MapMark) \o WriteStr(Tagged(":", Word("error")))
          \o WriteArray(5) \o WriteStr(MapMark)
          \o WriteStr(Tagged(":", Category("category"))) \o WriteStr(Tagged(":", Category(a.category)))
          \o WriteStr(Tagged(":", Category("message"))) \o WriteStr(a.message) \o error

\* anomaly_to_msgpack
AnomalyMsgpack(a) ==
    LET error == IF a.dbError = NoText THEN <<>>
                 ELSE WriteStr(Tagged(":", Word("db/error"))) \o WriteStr(Tagged(":", a.dbError))
    IN  WriteArray(3) \o WriteStr(MapMark) \o WriteStr(Tagged(":", Word("error")))
          \o WriteArray(IF a.dbError = NoText THEN 5 ELSE 7) \o WriteStr(MapMark)
          \o WriteStr(Tagged(":", Category("category"))) \o WriteStr(Tagged(":", Category(a.category)))
          \o WriteStr(Tagged(":", Category("message"))) \o WriteStr(a.message) \o error

\* serialize_anomaly
AnomalyEdn(a) ==
    Map(<<Keyword(Word("error")),
          Map(<<Keyword(Category("category")), Keyword(Category(a.category)),
                Keyword(Category("message")), String(a.message)>>
              \o (IF a.dbError = NoText THEN <<>>
                  ELSE <<Keyword(Word("db/error")), Keyword(a.dbError)>>))>>)

\* serialize_transit_json, serialize_transit_msgpack, serialize_response
Result(r) == Map(<<Keyword(Word("result")), r.v>>)

Serialize(encoding, r) ==
    CASE encoding = "json" ->
            Body("json", IF r.ok THEN EncodeJson(Result(r)) ELSE AnomalyJson(r), <<>>)
      [] encoding = "msgpack" ->
            Body("msgpack", Nil, IF r.ok THEN EncodeMsgpack(Result(r)) ELSE AnomalyMsgpack(r))
      [] encoding = "edn" ->
            Body("edn", IF r.ok THEN PrintEdn(Result(r)) ELSE AnomalyEdn(r), <<>>)

=============================================================================
