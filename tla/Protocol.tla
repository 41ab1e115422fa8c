------------------------------ MODULE Protocol ------------------------------
(***************************************************************************)
(* What mentatd and its clients speak about (protocol/mod.rs): values,     *)
(* the operations with their fields, results and anomalies.                *)
(*                                                                         *)
(* A text is [m, w, n]: the marks it starts with (the characters Transit   *)
(* gives a meaning to), then a word, n times over; the word "dec" stands   *)
(* for the decimal digits of n and "uuid" for the text of UUID number n.   *)
(* A value is [k, t, n, xs]: its kind, text, number and elements (of a     *)
(* map, its keys and values alternately).  JSON values and EDN forms have  *)
(* the same shape.                                                         *)
(***************************************************************************)
EXTENDS Integers, Sequences, FiniteSets

\* The sequences of seqs, one after the other: FlattenSeq of SequencesExt, defined
\* here so that the proofs about Exchange do not carry what that module extends.
Joined(seqs) ==
    IF Len(seqs) = 0 THEN <<>>
    ELSE LET upTo[i \in 1..Len(seqs)] == IF i = 1 THEN seqs[i] ELSE upTo[i - 1] \o seqs[i]
         IN  upTo[Len(seqs)]

-----------------------------------------------------------------------------
(* Values *)

Text(m, w, n) == [m |-> m, w |-> w, n |-> n]
Word(w) == Text(<<>>, w, 1)
NoText == Word("")

Value(k, t, n, xs) == [k |-> k, t |-> t, n |-> n, xs |-> xs]
Nil == Value("nil", NoText, 0, <<>>)
Bool(b) == Value("bool", NoText, IF b THEN 1 ELSE 0, <<>>)
Integer(n) == Value("int", NoText, n, <<>>)
Float(n) == Value("float", NoText, n, <<>>)
SpecialFloat(w) == Value("float", Word(w), 0, <<>>)
String(t) == Value("string", t, 0, <<>>)
Keyword(t) == Value("keyword", t, 0, <<>>)
Symbol(t) == Value("symbol", t, 0, <<>>)
Uuid(n) == Value("uuid", NoText, n, <<>>)
Instant(n) == Value("instant", NoText, n, <<>>)
List(xs) == Value("list", NoText, 0, xs)
Vector(xs) == Value("vector", NoText, 0, xs)
Map(xs) == Value("map", NoText, 0, xs)
DbSnapshot(t, n) == Value("db", t, n, <<>>)
Failed == Value("error", NoText, 0, <<>>)

-----------------------------------------------------------------------------
(* Texts and JSON *)

MapMark == Text(<<"^">>, " ", 1)
Tag(w) == Text(<<"~", "#">>, w, 1)
Tagged(mark, t) == Text(<<"~", mark>> \o t.m, t.w, t.n)
Digits(n) == Text(<<>>, "dec", n)
UuidText(n) == Text(<<>>, "uuid", n)

Decimals[n \in Int] ==
    IF n < 0 THEN 1 + Decimals[-n] ELSE IF n < 10 THEN 1 ELSE 1 + Decimals[n \div 10]

\* The bytes of a text.
Size(t) ==
    Len(t.m) + (CASE t.w = "dec" -> Decimals[t.n] [] t.w = "uuid" -> 36 [] OTHER -> t.n * Len(t.w))

\* The words with a quote or a backslash inside.
NeedsEscape(t) == t.w \in {"say-quoted"}

Json(k, t, n, xs) == Value(k, t, n, xs)
JsonText(t) == Json("text", t, 0, <<>>)
JsonNumber(n) == Json("number", NoText, n, <<>>)
Array(xs) == Json("array", NoText, 0, xs)
Object(xs) == Json("object", NoText, 0, xs)

-----------------------------------------------------------------------------
(* The fields of the operations.  A field's type ends in ? when the field   *)
(* may be absent: then a value of another type counts as absent, too.       *)

Field(key, type) == [key |-> key, type |-> type]

Fields ==
    [list_dbs |-> <<>>, health |-> <<>>, basis_t |-> <<>>, db_snapshot |-> <<>>, db_stats |-> <<>>,
     create_db |-> <<Field("db-name", "string")>>,
     delete_db |-> <<Field("db-name", "string")>>,
     connect |-> <<Field("db-name", "string")>>,
     db |-> <<Field("connection-id", "uuid")>>,
     q |-> <<Field("query", "text"), Field("args", "texts?"), Field("timeout", "integer?"),
             Field("limit", "integer?"), Field("offset", "integer?"), Field("db-id", "string?")>>,
     transact |-> <<Field("connection-id", "connection"), Field("tx-data", "text")>>,
     pull |-> <<Field("pattern", "text"), Field("entity-id", "integer")>>,
     datoms |-> <<Field("index", "index"), Field("components", "texts?")>>,
     as_of |-> <<Field("query", "text"), Field("args", "texts?"), Field("t", "integer")>>,
     since |-> <<Field("query", "text"), Field("args", "texts?"), Field("t", "integer")>>,
     history |-> <<Field("query", "text"), Field("args", "texts?")>>,
     tx_range |-> <<Field("start", "integer?"), Field("end", "integer?")>>,
     with |-> <<Field("tx-data", "text")>>,
     filter |-> <<Field("predicate", "predicate"), Field("query", "text"), Field("args", "texts?")>>,
     qseq |-> <<Field("query", "text"), Field("args", "texts?"), Field("chunk-size", "integer?"),
                Field("db-id", "string?")>>,
     pull_many |-> <<Field("pattern", "text"), Field("entity-ids", "integers")>>,
     index_range |-> <<Field("attrid", "text"), Field("start", "string?"), Field("end", "string?"),
                       Field("limit", "integer?")>>,
     entid |-> <<Field("ident", "text")>>,
     ident |-> <<Field("entid", "integer")>>]

\* The operations that the Transit parser does not know.
EdnOnly == {"qseq", "pull_many", "index_range", "entid", "ident", "db_stats"}

-----------------------------------------------------------------------------
(* Requests and answers *)

Refusal(why) == [op |-> why, fields |-> <<>>]
Refused(o) == o.op \in {"unreadable", "missing", "invalid-type", "unknown"}

None == Value("none", NoText, 0, <<>>)
Missing == Value("missing", NoText, 0, <<>>)
InvalidType == Value("invalid-type", NoText, 0, <<>>)
Unknown == Value("unknown", NoText, 0, <<>>)

\* The value of a key: the first one under key, where keys are of these kinds.
Lookup(m, key, kinds) ==
    LET is == {i \in 1..(Len(m.xs) \div 2) : m.xs[2 * i - 1].k \in kinds /\ m.xs[2 * i - 1].t = Word(key)}
    IN  IF is = {} THEN None ELSE m.xs[2 * (CHOOSE i \in is : \A j \in is : i <= j)]

JsonKeys == {"text"}

\* A body is [form, v, buf]: the EDN form, the JSON value or the buffer in it.
Body(form, v, buf) == [form |-> form, v |-> v, buf |-> buf]

\* An answer is a result, or an anomaly with its category, message and db error.
Success(v) == [ok |-> TRUE, v |-> v, category |-> "", message |-> NoText, dbError |-> NoText]
Anomaly(category, message, dbError) ==
    [ok |-> FALSE, v |-> Nil, category |-> category, message |-> message, dbError |-> dbError]

\* From<ParseError>
ParseAnomaly(why) == Anomaly("incorrect", Word(why), Text(<<":">>, "db.error/invalid-request", 1))

=============================================================================
