-------------------------------- MODULE Wire --------------------------------
(***************************************************************************)
(* What a client and mentatd make of each other's bytes: module Exchange   *)
(* with the encoders and parsers of Transit and Operations, the client's   *)
(* own encoders, and what a reader finds in an answer.                     *)
(***************************************************************************)
EXTENDS Exchange, Operations

-----------------------------------------------------------------------------
(* The client's own encoders.  outer is how many levels of maps are written *)
(* as native maps with texts for keys; client instants are milliseconds.    *)

RECURSIVE ClientJson(_, _)
ClientJson(v, outer) ==
    LET items == [i \in 1..Len(v.xs) |-> ClientJson(v.xs[i], outer - 1)]
    IN  CASE v.k = "map" /\ outer > 0 ->
                Object([i \in 1..Len(v.xs) |-> IF i % 2 = 1 THEN JsonText(v.xs[i].t) ELSE items[i]])
          [] v.k = "map" /\ outer <= 0 -> Array(<<JsonText(MapMark)>> \o items)
          [] v.k \in {"list", "set"} -> Array(<<JsonText(Tag(v.k)), Array(items)>>)
          [] v.k = "vector" -> Array(items)
          [] v.k = "symbol" -> JsonText(Tagged("$", v.t))
          [] v.k = "instant" -> JsonText(Tagged("m", Digits(v.n)))
          [] OTHER -> EncodeJson(v)

RECURSIVE ClientMsgpack(_, _)
ClientMsgpack(v, outer) ==
    LET items == Joined([i \in 1..Len(v.xs) |-> ClientMsgpack(v.xs[i], outer - 1)])
        pairs == Joined([i \in 1..Len(v.xs) |->
                    IF i % 2 = 1 THEN WriteStr(v.xs[i].t) ELSE ClientMsgpack(v.xs[i], outer - 1)])
    IN  CASE v.k = "map" /\ outer > 0 -> Byte(128 + Len(v.xs) \div 2) \o pairs
          [] v.k = "map" /\ outer <= 0 -> WriteArray(1 + Len(v.xs)) \o WriteStr(MapMark) \o items
          [] v.k \in {"list", "set"} -> WriteArray(2) \o WriteStr(Tag(v.k)) \o WriteArray(Len(v.xs)) \o items
          [] v.k = "vector" -> WriteArray(Len(v.xs)) \o items
          [] v.k = "symbol" -> WriteStr(Tagged("$", v.t))
          [] v.k = "instant" -> WriteStr(Tagged("m", Digits(v.n)))
          [] OTHER -> EncodeMsgpack(v)

ClientBody(form, outer, r) ==
    CASE form = "edn" -> Body("edn", r, <<>>)
      [] form = "json" -> Body("json", ClientJson(r, outer), <<>>)
      [] form = "msgpack" -> Body("msgpack", Nil, ClientMsgpack(r, outer))

-----------------------------------------------------------------------------
(* The request id of a frame *)

\* The texts of a JSON value in the order they are written, with brackets,
\* the colons of objects and other values between them.
Punctuation(c) == Text(<<"punctuation", c>>, "", 0)
IsText(x) == x.m = <<>> \/ x.m[1] # "punctuation"

RECURSIVE Tokens(_)
Tokens(j) ==
    CASE j.k = "array" ->
            <<Punctuation("[")>> \o Joined([i \in 1..Len(j.xs) |-> Tokens(j.xs[i])]) \o <<Punctuation("]")>>
      [] j.k = "object" ->
            <<Punctuation("{")>>
              \o Joined([i \in 1..Len(j.xs) |->
                   IF i % 2 = 1 THEN Tokens(j.xs[i]) \o <<Punctuation(":")>> ELSE Tokens(j.xs[i])])
              \o <<Punctuation("}")>>
      [] j.k = "text" -> <<j.t>>
      [] OTHER -> <<Punctuation("atom")>>

\* Mutant: the last mark found is taken.
ExtractRequestIdLast(j) ==
    LET ts == Tokens(j)
        at == {i \in 1..Len(ts) : IsText(ts[i]) /\ ts[i] = RequestId}
        last == CHOOSE i \in at : \A k \in at : i >= k
    IN  IF at # {} /\ last < Len(ts) /\ IsText(ts[last + 1]) THEN String(ts[last + 1]) ELSE None

\* extract_request_id: what follows the first "~:request-id" in the text, if
\* that is a text.
ExtractRequestId(j) ==
    LET ts == Tokens(j)
        at == {i \in 1..Len(ts) : IsText(ts[i]) /\ ts[i] = RequestId}
        first == CHOOSE i \in at : \A k \in at : i <= k
    IN  IF at # {} /\ first < Len(ts) /\ IsText(ts[first + 1]) THEN String(ts[first + 1]) ELSE None

-----------------------------------------------------------------------------
(* Readings *)

RECURSIVE Parts(_)
Parts(v) == {v} \cup UNION {Parts(v.xs[i]) : i \in 1..Len(v.xs)}

\* How deep the deepest element of a value is.
RECURSIVE DepthOf(_)
DepthOf(v) ==
    IF v.xs = <<>> THEN 0 ELSE 1 + Max({DepthOf(v.xs[i]) : i \in 1..Len(v.xs)})

\* What a reader without a depth limit makes of an answer.
Reading(body) ==
    CASE body.form = "edn" -> body.v
      [] body.form = "json" -> DecodeJson(body.v, -1000)
      [] body.form = "msgpack" -> ReadValue(body.buf, -1000).v

\* What an answer says, however it is encoded: a list is read as a vector, an
\* instant to the millisecond, a database value as a tagged pair.
DbPair(id, t) == Vector(<<String(Tag("db")), Vector(<<String(id), Integer(t)>>)>>)

RECURSIVE Meaning(_)
Meaning(v) ==
    LET items == [i \in 1..Len(v.xs) |-> Meaning(v.xs[i])]
    IN  CASE v.k = "instant" -> Instant(Quotient(v.n, 1000))
          [] v.k = "db" -> DbPair(v.t, v.n)
          [] v.k \in {"list", "vector"} -> Vector(items)
          [] v.k = "map" -> Map(items)
          [] OTHER -> v

\* The same for what was read as EDN, where instants are milliseconds already.
RECURSIVE EdnMeaning(_)
EdnMeaning(v) ==
    LET items == [i \in 1..Len(v.xs) |-> EdnMeaning(v.xs[i])]
    IN  CASE v.k = "tagged" -> DbPair(items[1].xs[1].t, items[1].xs[2].n)
          [] v.k \in {"list", "vector"} -> Vector(items)
          [] v.k = "map" -> Map(items)
          [] OTHER -> v

AnswerMeaning(a) == IF a.ok THEN Meaning(Result(a)) ELSE AnomalyEdn(a)

\* An instant before 1970 that is not a whole number of its seconds.
Fractional(v, second) == v.k = "instant" /\ v.n < 0 /\ Remainder(v.n, second) # 0

\* A vector that MessagePack's reader takes for a map or a tagged value.
LooksTagged(v) == v.k = "vector" /\ ArrayValue(v.xs) # v

\* A request every parser reads alike: nothing the Transit one prints otherwise.
PlainRequest(r, form) ==
    /\ \A v \in Parts(r) : /\ v.k \notin {"list", "set"}
                           /\ ~(v.k = "string" /\ NeedsEscape(v.t))
                           /\ ~Fractional(v, 1000) /\ (form = "msgpack" => ~LooksTagged(v))
                           /\ v \notin {Keyword(Word("attr-equals")), Keyword(Word("app/q"))}
    /\ EdnOp(Lookup(r, "op", EdnKeys).t.w) \notin EdnOnly

SameOperation(o, p) == o = p \/ (Refused(o) /\ Refused(p))

-----------------------------------------------------------------------------
(* Properties *)

\* A client may choose its encoding: the same request in EDN, Transit+JSON or
\* Transit+MessagePack, with keyword or text keys, asks for the same operation
\* with the same fields, or is refused by each parser; Transit requests nested
\* deeper than the limit, and only those, are unreadable.
FormatsAgree ==
    (http.st = "parsed" /\ http.form = http.format /\ PlainRequest(http.r, http.form)) =>
        IF http.form # "edn" /\ DepthOf(http.r) > MaxNestingDepth
        THEN http.op = Refusal("unreadable")
        ELSE SameOperation(http.op, ParseEdn(http.r))

\* The request id a client reads in an answer.
IdRead(o) == Lookup(Reading(o.body), "request-id", TransitKeys)

\* A text request whose own id is the first one written in it.
IdFirst(f) ==
    /\ f.k = "text" /\ f.body.form = "json" /\ f.body.v.k = "array"
    /\ f.id # None => LET i == CHOOSE i \in 1..Len(f.body.v.xs) : f.body.v.xs[i] = JsonText(RequestId)
                      IN  /\ ~NeedsEscape(f.id.t)
                          /\ \A j \in 1..(i - 1) : \A v \in Parts(f.body.v.xs[j]) : v # JsonText(RequestId)
    /\ f.id = None => \A v \in Parts(f.body.v) : v # JsonText(RequestId)

\* Every answer carries the id of its request, as the protocol's description has it.
AnswersAlwaysPair ==
    \A i \in 1..Len(Replies) : IdRead(Replies[i]) = SentRequests[i].id

\* Whatever the client accepts, it reads the answer the operation gave: results
\* and errors survive the escapes, tags and length headers of each serializer,
\* and on a socket the n-th answer is read with the id that the n-th request
\* was given, or with none if it was given none (extract_request_id).
AnswersReadBack ==
    /\ (http.st = "answered" /\ \A v \in Parts(http.answer.v) :
          /\ http.encoding = "msgpack" => ~LooksTagged(v)
          /\ http.encoding = "edn" => ~Fractional(v, 1000000)) =>
              (IF http.encoding = "edn" THEN EdnMeaning(http.body.v) ELSE Reading(http.body))
                  = AnswerMeaning(http.answer)
    /\ \A i \in 1..Len(Replies) :
          IdFirst(SentRequests[i]) => IdRead(Replies[i]) = SentRequests[i].id

=============================================================================
