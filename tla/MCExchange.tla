---------------------------- MODULE MCExchange ------------------------------
(* A client that sends each kind of request, and answers of each kind.       *)
EXTENDS Wire

MCLeastPlain == -60000

K(w) == Keyword(Word(w))
S(w) == String(Word(w))
Y(w) == Symbol(Word(w))

Request(op, args) == Map(<<K("op"), K(op), K("args"), Map(args)>>)
Find == Vector(<<K("find"), Y("?e"), K("where"), Vector(<<Y("?e"), K("person/age"), Y("?a")>>)>>)

\* Numbers on both sides of every width, texts on both sides of every header
\* size, and texts that start with the marks of Transit.
Widths ==
    <<0, 127, 128, 255, 256, 65535, 65536, 2147483647,
      -1, -32, -33, -128, -129, -32768, -32769, -2147483647>>
Integers16 == Vector([i \in 1..16 |-> Integer(Widths[i])])
Marked ==
    <<Text(<<>>, "a", 30), Text(<<>>, "a", 31), Text(<<>>, "a", 32), Text(<<>>, "a", 255), Text(<<>>, "a", 256),
     Text(<<>>, "a", 65535), Text(<<>>, "a", 65536), Text(<<"~">>, "a", 31), Text(<<"^">>, "a", 1),
     Text(<<"~", ":">>, "a", 1), Text(<<"~", "i">>, "dec", 5), Text(<<"~", "~">>, "a", 1),
     MapMark, Tag("list"), Text(<<"~", "z">>, "NaN", 1)>>
MarkedTexts == Vector([i \in 1..15 |-> String(Marked[i])])

Reordered == Vector(<<Integer(1)>> \o MarkedTexts.xs)

MCAsked ==
    {Map(<<K("op"), K("health")>>),
     Map(<<K("op"), K("datomic.catalog/list-dbs")>>),
     Map(<<K("op"), K("basis-t")>>), Map(<<K("op"), K("db-snapshot")>>), Map(<<K("op"), K("db-stats")>>),
     Map(<<K("op"), K("no-such")>>), Map(<<K("op"), S("q")>>), Map(<<K("args"), Map(<<>>)>>), Vector(<<K("op")>>),
     Map(<<K("op"), K("create-db")>>),
     Request("datomic.catalog/create-db", <<K("db-name"), S("people")>>),
     Request("delete-db", <<K("db-name"), K("people")>>),
     Request("connect", <<>>),
     Request("db", <<K("connection-id"), String(UuidText(1))>>),
     Request("db", <<K("connection-id"), S("one")>>),
     Request("q", <<K("query"), Find, K("args"), Vector(<<Integer(5), S("b")>>), K("limit"), Integer(10)>>),
     Request("q", <<K("query"), Find, K("args"), Reordered, K("limit"), S("ten")>>),
     Request("q", <<K("query"), Find, K("args"), MarkedTexts, K("db-id"), S("d")>>),
     Request("q", <<K("query"), Find, K("args"), Vector(<<String(MapMark), Integer(1), Integer(2)>>)>>),
     Request("q", <<K("query"), Vector(<<K("find"), List(<<Y("count"), Y("?e")>>)>>)>>),
     Request("q", <<K("args"), Integers16>>),
     Request("app/q", <<K("query"), Find>>),
     Request("transact", <<K("connection-id"), S("c"), K("tx-data"), Vector(<<Map(<<K("name"), S("b")>>)>>)>>),
     Request("transact", <<K("connection-id"), S("c"),
                           K("tx-data"), Vector(<<Map(<<K("at"), Instant(-1500), K("names"), Vector(<<S("b")>>)>>)>>)>>),
     Request("transact", <<K("connection-id"), S("c"),
                           K("tx-data"), Vector(<<Map(<<K("at"), Instant(1500), K("names"), Vector(<<S("b")>>)>>)>>)>>),
     Request("transact", <<K("connection-id"), K("c"), K("tx-data"), Vector(<<>>)>>),
     Request("pull", <<K("pattern"), Vector(<<Y("*")>>), K("entity-id"), Integer(70000)>>),
     Request("pull", <<K("pattern"), Vector(<<Y("*")>>), K("entity-id"), S("70000")>>),
     Request("datoms", <<K("index"), K("eavt"), K("components"), Vector(<<Integer(5), Uuid(1), Instant(2500)>>)>>),
     Request("datoms", <<K("index"), K("veat")>>),
     Request("as-of", <<K("query"), Find, K("args"), Integers16, K("t"), Integer(101)>>),
     Request("since", <<K("query"), Find>>),
     Request("history", <<K("query"), Find, K("args"), Vector(<<Nil, Bool(TRUE), Float(7), SpecialFloat("INF")>>)>>),
     Request("tx-range", <<K("start"), Integer(-1)>>),
     Request("with", <<K("tx-data"), Vector(<<Vector(<<K("db/add"), S("say-quoted")>>)>>)>>),
     Request("filter", <<K("predicate"), Map(<<K("type"), K("since"), K("value"), Integer(5)>>), K("query"), Find>>),
     Request("filter", <<K("predicate"), Map(<<K("type"), K("custom"), K("value"), Integer(5)>>), K("query"), Find>>),
     Request("filter", <<K("predicate"), Map(<<K("type"), K("attr-equals"), K("value"), K("name")>>), K("query"), Find>>),
     Request("filter", <<K("predicate"), Map(<<K("type"), K("nearly"), K("value"), Nil>>)>>),
     Request("filter", <<K("predicate"), K("since")>>),
     Request("qseq", <<K("query"), Find, K("chunk-size"), Integer(2)>>),
     Request("qseq", <<K("query"), Find, K("chunk-size"), Integer(-1)>>),
     Request("qseq", <<K("query"), Find, K("chunk-size"), Integer(0), K("db-id"), S("d")>>),
     Request("since", <<K("query"), Find, K("t"), Integer(100)>>),
     Request("connect", <<K("db-name"), S("people")>>), Request("connect", <<K("db-name"), S("mentat")>>),
     Request("delete-db", <<K("db-name"), S("people")>>), Request("create-db", <<K("db-name"), S("no database")>>),
     Request("pull-many", <<K("pattern"), Vector(<<Y("*")>>), K("entity-ids"), Vector(<<Integer(1), Integer(2)>>)>>),
     Request("pull-many", <<K("pattern"), Vector(<<Y("*")>>), K("entity-ids"), Vector(<<S("1")>>)>>),
     Request("index-range", <<K("attrid"), K("name"), K("start"), S("a")>>),
     Request("entid", <<K("ident"), K("name")>>),
     Request("ident", <<K("entid"), Integer(5)>>)}

Type(t, q) == [type |-> t, q |-> q]
MCAccepts ==
    {<<>>, <<Type("edn", 10)>>, <<Type("json", 10)>>, <<Type("msgpack", 10)>>,
     <<Type("json", 5), Type("msgpack", 9)>>, <<Type("msgpack", 5), Type("edn", 9), Type("json", 5)>>}

\* Rows of an answer: texts, keywords, numbers, floats and typed objects.
J(w) == JsonText(Word(w))
Typed(t, v) == Object(<<J("_t"), J(t), J("v"), v>>)
Row(xs) == Array(xs)
TextRow(i) == Row(<<JsonNumber(i), JsonText(Marked[i])>>)
MCRows ==
    {<<>>,
     <<Row(<<JsonNumber(Widths[8]), JsonText(Text(<<":">>, "name", 1))>>)>>,
     [i \in 1..5 |-> Row(<<JsonNumber(i)>>)],
     [i \in 1..15 |-> TextRow(i)],
     <<Row(<<JsonText(MapMark), JsonNumber(1), JsonNumber(2)>>)>>,
     [i \in 1..16 |-> Row(<<JsonNumber(Widths[i])>>)],
     <<Row(<<Typed("inst", JsonNumber(2500)), Typed("inst", JsonNumber(-1500000)), Typed("uuid", JsonText(UuidText(3)))>>)>>,
     <<Row(<<Typed("double", Json("float", NoText, 7, <<>>)), Json("float", NoText, 7, <<>>),
             Json("null", NoText, 0, <<>>), Json("bool", NoText, 1, <<>>)>>),
       Row(<<Object(<<J("name"), J("b")>>), Array(<<J("a")>>), Typed("blob", J("x"))>>)>>,
     <<J("not-a-row")>>}

MCReports ==
    {Object(<<J("db-after"), Object(<<J("basis-t"), JsonNumber(101)>>), J("db-before"), Object(<<J("basis-t"), JsonNumber(100)>>),
              J("tempids"), Object(<<JsonText(Text(<<"~">>, "new", 1)), JsonNumber(10001)>>),
              J("tx-data"), Array(<<Array(<<JsonNumber(10001), J("b")>>)>>)>>),
     Object(<<J("tx-id"), JsonNumber(101), J("tx-instant"), J("now"), J("datoms-inserted"), JsonNumber(3)>>)}

MCDocuments ==
    {Object(<<J("db/id"), JsonNumber(10001), J("name"), JsonText(Text(<<"~">>, "b", 1))>>),
     Object(<<>>)}

MCBases == {0, 70000}

MCValues ==
    {Vector(<<Vector(<<Integer(10001), Float(7), Instant(2500), Uuid(3)>>)>>), Map(<<K("datoms"), Integer(-2147483647)>>),
     List(<<K("a"), Nil, List(<<>>)>>)}

MCAnomalies ==
    {Anomaly("unavailable", Word("Database unavailable"), Word("db.error/unavailable")),
     Anomaly("not-found", Word("no database"), NoText)}

\* WebSocket frames: with an id before or after the rest, with the keyword
\* :request-id in the data too, as an object, in EDN and in MessagePack.
WithId(r, id) == Map(<<K("request-id"), id>> \o r.xs)
IdLast(r, id) == Map(r.xs \o <<K("request-id"), id>>)
Bare == Map(<<K("op"), K("health")>>)
Tagging == Request("with", <<K("tx-data"), Vector(<<Map(<<K("request-id"), S("data")>>)>>)>>)
Filtering == Request("filter", <<K("predicate"), Map(<<K("type"), K("since"), K("value"), Map(<<K("request-id"), S("data")>>)>>)>>)

TextFrame(r, outer, id) == [k |-> "text", body |-> ClientBody("json", outer, r), id |-> id]
Control(k) == [NoFrame EXCEPT !.k = k]
MCFrames ==
    {TextFrame(WithId(Tagging, S("one")), 0, S("one")),
     TextFrame(IdLast(Filtering, S("two")), 0, S("two")),
     TextFrame(WithId(Bare, S("three")), 1, S("three")),
     TextFrame(Vector(<<>>), 0, None), TextFrame(Request("tx-range", <<>>), 0, None),
     [k |-> "text", body |-> ClientBody("edn", 0, WithId(Bare, S("four"))), id |-> S("four")],
     [k |-> "binary", body |-> ClientBody("msgpack", 0, WithId(Bare, S("five"))), id |-> S("five")],
     Control("ping"), Control("pong"), Control("close")}

=============================================================================
