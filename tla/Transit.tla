------------------------------ MODULE Transit -------------------------------
(***************************************************************************)
(* The encodings of the values that mentatd exchanges with its clients:    *)
(* Transit+JSON and Transit+MessagePack (protocol/transit_serializer.rs    *)
(* writes, protocol/transit_parser.rs reads) and EDN (protocol/            *)
(* serializer.rs).                                                         *)
(***************************************************************************)
EXTENDS Protocol, Msgpack, FiniteSetsExt

CONSTANTS
    MaxNestingDepth,  \* MAX_NESTING_DEPTH
    LargestPlain,     \* the integers from LeastPlain to LargestPlain are written
    LeastPlain        \* as JSON numbers; in the code, the range of an i32

-----------------------------------------------------------------------------
(* Tagged texts *)

\* Rust's / and unsigned_abs of %, which round towards zero.
Quotient(n, d) == IF n >= 0 THEN n \div d ELSE -((-n) \div d)
Remainder(n, d) == IF n >= 0 THEN n % d ELSE (-n) % d

\* A text that starts with ~ or ^ gets one more ~.
Escaped(t) ==
    IF t.m # <<>> /\ t.m[1] \in {"~", "^"} THEN Text(<<"~">> \o t.m, t.w, t.n) ELSE t

\* decode_transit_tagged_string: what does not parse stays the string it was.
DecodeText(t) ==
    LET tag == IF Len(t.m) >= 2 /\ t.m[1] = "~" THEN t.m[2] ELSE ""
        rest == Text(SubSeq(t.m, 3, Len(t.m)), t.w, t.n)
        number == rest.m = <<>> /\ t.w = "dec"
    IN  CASE tag = ":" -> Keyword(rest)
          [] tag = "$" -> Symbol(rest)
          [] tag = "i" /\ number -> Integer(t.n)
          [] tag = "u" /\ rest.m = <<>> /\ t.w = "uuid" -> Uuid(t.n)
          [] tag = "m" /\ number -> Instant(t.n)
          [] tag = "z" /\ t.w \in {"NaN", "INF", "-INF"} -> SpecialFloat(t.w)
          [] tag \in {"~", "^"} -> String(Text(<<tag>> \o rest.m, t.w, t.n))
          [] OTHER -> String(t)

\* The texts both encoders write for the values that need a tag.
FloatText(v) == Text(<<"~", "z">>, v.t.w, 1)
InstantText(v) == Tagged("m", Digits(Quotient(v.n, 1000)))

-----------------------------------------------------------------------------
(* Transit+JSON *)

Plain(n) == LeastPlain <= n /\ n <= LargestPlain

\* value_to_transit_json
RECURSIVE EncodeJson(_)
EncodeJson(v) ==
    LET items == [i \in 1..Len(v.xs) |-> EncodeJson(v.xs[i])]
    IN  CASE v.k = "nil" -> Json("null", NoText, 0, <<>>)
          [] v.k = "bool" -> Json("bool", NoText, v.n, <<>>)
          [] v.k = "string" -> JsonText(Escaped(v.t))
          [] v.k = "int" -> IF Plain(v.n) THEN JsonNumber(v.n) ELSE JsonText(Tagged("i", Digits(v.n)))
          [] v.k = "float" -> IF v.t = NoText THEN Json("float", NoText, v.n, <<>>) ELSE JsonText(FloatText(v))
          [] v.k = "keyword" -> JsonText(Tagged(":", v.t))
          [] v.k = "instant" -> JsonText(InstantText(v))
          [] v.k = "uuid" -> JsonText(Tagged("u", UuidText(v.n)))
          [] v.k = "list" -> Array(<<JsonText(Tag("list")), Array(items)>>)
          [] v.k = "vector" -> Array(items)
          [] v.k = "map" -> Array(<<JsonText(MapMark)>> \o items)
          [] v.k = "db" -> Array(<<JsonText(Tag("db")), Array(<<JsonText(v.t), JsonNumber(v.n)>>)>>)

OrFailed(v) == IF \E i \in 1..Len(v.xs) : v.xs[i] = Failed THEN Failed ELSE v
Pairs(xs) == SubSeq(xs, 1, 2 * (Len(xs) \div 2))

\* Mutant: the array itself is not counted.
DepthOfItemsShallow(d) == d

\* The depth at which the elements of an array or a map are read.
DepthOfItems(d) == d + 1

\* json_to_transit_bounded and decode_transit_array_bounded: the mark of a map
\* and the tag of a list or set are looked for in the text as it was written.
RECURSIVE DecodeJson(_, _)
DecodeJson(j, d) ==
    LET decoded(xs) == [i \in 1..Len(xs) |-> DecodeJson(xs[i], DepthOfItems(d))]
        first == IF j.xs # <<>> /\ j.xs[1].k = "text" THEN j.xs[1].t ELSE NoText
    IN  IF d > MaxNestingDepth THEN Failed
        ELSE CASE j.k = "null" -> Nil
               [] j.k = "bool" -> Value("bool", NoText, j.n, <<>>)
               [] j.k = "number" -> Integer(j.n)
               [] j.k = "float" -> Float(j.n)
               [] j.k = "text" -> DecodeText(j.t)
               [] j.k = "object" ->
                    OrFailed(Map([i \in 1..Len(j.xs) |->
                        IF i % 2 = 1 THEN DecodeText(j.xs[i].t) ELSE DecodeJson(j.xs[i], DepthOfItems(d))]))
               [] j.k = "array" ->
                    IF first = MapMark THEN OrFailed(Map(decoded(Pairs(Tail(j.xs)))))
                    ELSE IF first \in {Tag("list"), Tag("set")}
                    THEN IF Len(j.xs) >= 2 /\ j.xs[2].k = "array"
                         THEN OrFailed(Vector(decoded(j.xs[2].xs))) ELSE Vector(<<>>)
                    ELSE OrFailed(Vector(decoded(j.xs)))

-----------------------------------------------------------------------------
(* Transit+MessagePack.  The buffer is a sequence of tokens [f, b, t, n]: a *)
(* format byte with its bytes, and the text or the float that follows.      *)

Token(h, t, n) == [f |-> h.f, b |-> h.b, t |-> t, n |-> n]
Byte(f) == <<Token(Bytes(f, <<>>), NoText, 0)>>
WriteInt(n) == <<Token(WriteI64(n), NoText, 0)>>
WriteStr(t) == <<Token(StrHeader(Size(t)), t, 0)>>
WriteArray(n) == <<Token(ArrayHeader(n), NoText, 0)>>
WriteFloat(v) == <<Token(Bytes(203, <<>>), v.t, v.n)>>

\* value_to_msgpack: integers of every size and floats go as they are.
RECURSIVE EncodeMsgpack(_)
EncodeMsgpack(v) ==
    LET items == Joined([i \in 1..Len(v.xs) |-> EncodeMsgpack(v.xs[i])])
    IN  CASE v.k = "nil" -> Byte(192)
          [] v.k = "bool" -> Byte(194 + v.n)
          [] v.k = "string" -> WriteStr(Escaped(v.t))
          [] v.k = "int" -> WriteInt(v.n)
          [] v.k = "float" -> WriteFloat(v)
          [] v.k = "keyword" -> WriteStr(Tagged(":", v.t))
          [] v.k = "instant" -> WriteStr(InstantText(v))
          [] v.k = "uuid" -> WriteStr(Tagged("u", UuidText(v.n)))
          [] v.k = "list" -> WriteArray(2) \o WriteStr(Tag("list")) \o WriteArray(Len(v.xs)) \o items
          [] v.k = "vector" -> WriteArray(Len(v.xs)) \o items
          [] v.k = "map" -> WriteArray(1 + Len(v.xs)) \o WriteStr(MapMark) \o items
          [] v.k = "db" -> WriteArray(2) \o WriteStr(Tag("db"))
                                \o WriteArray(2) \o WriteStr(v.t) \o WriteInt(v.n)

\* The elements of an array, marks and tags looked for once they are decoded.
ArrayValue(vs) ==
    LET first == IF vs # <<>> /\ vs[1].k = "string" THEN vs[1].t ELSE NoText
    IN  IF first = MapMark THEN Map(Pairs(Tail(vs)))
        ELSE IF Len(vs) = 2 /\ first \in {Tag("list"), Tag("set")} /\ vs[2].k = "vector" THEN vs[2]
        ELSE Vector(vs)

\* What is read and what is left of the buffer.
Read(v, rest) == [v |-> v, rest |-> rest]

IsMap(w) == w.f \in 128..143 \/ w.f \in {222, 223}
IsBin(w) == w.f \in 196..198
MapCount(w) == IF w.f <= 143 THEN w.f - 128 ELSE IF w.f = 222 THEN From2(w.b) ELSE From4(w.b)
BinText(w) == Text(<<>>, "0x" \o w.t.w, w.t.n)

\* msgpack_read_value_bounded, msgpack_read_transit_array and msgpack_read_map:
\* a length that is not the text's puts the reader out of step, a failure.
RECURSIVE ReadValue(_, _)
RECURSIVE ReadValues(_, _, _)
ReadValue(buf, d) ==
    IF d > MaxNestingDepth \/ buf = <<>> THEN Read(Failed, <<>>)
    ELSE LET w == buf[1]
             rest == Tail(buf)
             inside(n) == ReadValues(rest, n, DepthOfItems(d))
         IN  CASE w.f = 192 -> Read(Nil, rest)
               [] w.f \in {194, 195} -> Read(Value("bool", NoText, w.f - 194, <<>>), rest)
               [] IsInt(w) -> Read(Integer(ReadInt(w)), rest)
               [] IsStr(w) -> IF ReadLength(w) = Size(w.t) THEN Read(DecodeText(w.t), rest)
                              ELSE Read(Failed, <<>>)
               [] IsBin(w) -> Read(String(BinText(w)), rest)
               [] w.f \in {202, 203} -> Read(Value("float", w.t, w.n, <<>>), rest)
               [] IsArray(w) ->
                    LET r == inside(ReadLength(w))
                    IN  IF r.v = Failed THEN r ELSE Read(ArrayValue(r.v.xs), r.rest)
               [] IsMap(w) ->
                    LET r == inside(2 * MapCount(w))
                    IN  IF r.v = Failed THEN r ELSE Read(Map(r.v.xs), r.rest)
               [] OTHER -> Read(Failed, <<>>)

\* count values, one after the other
ReadValues(buf, count, d) ==
    IF count = 0 THEN Read(Vector(<<>>), buf)
    ELSE LET r == ReadValue(buf, d)
             more == ReadValues(r.rest, count - 1, d)
         IN  IF r.v = Failed \/ more.v = Failed THEN Read(Failed, <<>>)
             ELSE Read(Vector(<<r.v>> \o more.v.xs), more.rest)

\* parse_transit_msgpack ignores what follows the first value.
DecodeMsgpack(buf) == ReadValue(buf, 0).v

-----------------------------------------------------------------------------
(* EDN: what a reader makes of the text that is printed *)

\* The milliseconds of the moment that seconds and a positive fraction name.
PrintedMillis(seconds, millis) == 1000 * seconds + millis

\* serialize_value: an infinity or a NaN comes out as a bare name.
RECURSIVE PrintEdn(_)
PrintEdn(v) ==
    CASE v.k = "instant" ->
            Instant(PrintedMillis(Quotient(v.n, 1000000), Remainder(v.n, 1000000) \div 1000))
      [] v.k = "float" /\ v.t # NoText -> Symbol(v.t)
      [] v.k = "db" -> Value("tagged", Word("datom/db"), 0, <<Vector(<<String(v.t), Integer(v.n)>>)>>)
      [] v.k \in {"list", "vector", "map"} ->
            Value(v.k, NoText, 0, [i \in 1..Len(v.xs) |-> PrintEdn(v.xs[i])])
      [] OTHER -> v

TransitMillis(n) == PrintedMillis(Quotient(n, 1000), Remainder(n, 1000))

\* transit_value_to_edn_string: the text a structured argument is passed on as.
\* Texts are not escaped.
RECURSIVE TransitToEdn(_)
TransitToEdn(v) ==
    LET items == [i \in 1..Len(v.xs) |-> TransitToEdn(v.xs[i])]
    IN  CASE v.k = "string" -> IF NeedsEscape(v.t) THEN Failed ELSE v
          [] v.k = "instant" -> Instant(TransitMillis(v.n))
          [] v.k \in {"vector", "map"} -> Value(v.k, NoText, 0, items)
          [] OTHER -> v

=============================================================================
