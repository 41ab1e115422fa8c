------------------------------- MODULE Msgpack ------------------------------
(***************************************************************************)
(* The MessagePack integers and headers of mentatd's Transit codec: the    *)
(* encoder of protocol/transit_serializer.rs and the decoder of            *)
(* protocol/transit_parser.rs.  An encoding is [f, b]: the format byte and *)
(* the bytes after it.  Bounds that TLC's integers do not reach are        *)
(* written as conditions on a quotient.                                    *)
(***************************************************************************)
EXTENDS Integers, Sequences

Bytes(f, b) == [f |-> f, b |-> b]

\* to_be_bytes of an integer cut to 1, 2, 4 or 8 bytes (two's complement).
To1(n) == <<n % 256>>
To2(n) == <<(n \div 256) % 256, n % 256>>
To4(n) == <<(n \div 16777216) % 256, (n \div 65536) % 256, (n \div 256) % 256, n % 256>>
High(n) == n \div (65536 * 65536)
To8(n) ==
    <<(High(n) \div 16777216) % 256, (High(n) \div 65536) % 256, (High(n) \div 256) % 256, High(n) % 256,
      (n \div 16777216) % 256, (n \div 65536) % 256, (n \div 256) % 256, n % 256>>

\* from_be_bytes, unsigned and signed.
Signed(x) == IF x >= 128 THEN x - 256 ELSE x
From2(b) == 256 * b[1] + b[2]
From4(b) == 16777216 * b[1] + 65536 * b[2] + 256 * b[3] + b[4]
SignedFrom2(b) == 256 * Signed(b[1]) + b[2]
SignedFrom4(b) == 16777216 * Signed(b[1]) + 65536 * b[2] + 256 * b[3] + b[4]

\* u64::from_be_bytes cast to i64, and i64::from_be_bytes.
SignedFrom8(b) ==
    65536 * 65536 * (16777216 * Signed(b[1]) + 65536 * b[2] + 256 * b[3] + b[4])
        + 16777216 * b[5] + 65536 * b[6] + 256 * b[7] + b[8]

-----------------------------------------------------------------------------
(* Integers *)

\* msgpack_write_u64
WriteU64(n) ==
    IF n <= 127 THEN Bytes(n, <<>>)
    ELSE IF n <= 255 THEN Bytes(204, To1(n))
    ELSE IF n <= 65535 THEN Bytes(205, To2(n))
    ELSE IF n \div 65536 < 65536 THEN Bytes(206, To4(n))
    ELSE Bytes(207, To8(n))

\* msgpack_write_i64
WriteI64(n) ==
    IF n >= 0 THEN WriteU64(n)
    ELSE IF n >= -32 THEN Bytes(n % 256, <<>>)
    ELSE IF n >= -128 THEN Bytes(208, To1(n))
    ELSE IF n >= -32768 THEN Bytes(209, To2(n))
    ELSE IF n \div 65536 >= -32768 THEN Bytes(210, To4(n))
    ELSE Bytes(211, To8(n))

\* The integer formats of msgpack_read_value_bounded.
ReadInt(w) ==
    IF w.f <= 127 THEN w.f
    ELSE IF w.f >= 224 THEN Signed(w.f)
    ELSE IF w.f = 204 THEN w.b[1]
    ELSE IF w.f = 205 THEN From2(w.b)
    ELSE IF w.f = 206 THEN From4(w.b)
    ELSE IF w.f = 208 THEN Signed(w.b[1])
    ELSE IF w.f = 209 THEN SignedFrom2(w.b)
    ELSE IF w.f = 210 THEN SignedFrom4(w.b)
    ELSE SignedFrom8(w.b)

-----------------------------------------------------------------------------
(* Headers.  A string's bytes follow its header, an array's elements.      *)

\* msgpack_write_str and msgpack_write_array_len
StrHeader(n) ==
    IF n <= 31 THEN Bytes(160 + n, <<>>)
    ELSE IF n <= 255 THEN Bytes(217, To1(n))
    ELSE IF n <= 65535 THEN Bytes(218, To2(n))
    ELSE Bytes(219, To4(n))

ArrayHeader(n) ==
    IF n <= 15 THEN Bytes(144 + n, <<>>)
    ELSE IF n <= 65535 THEN Bytes(220, To2(n))
    ELSE Bytes(221, To4(n))

\* The kind of a value by its first byte, and the length of a string or array.
IsStr(w) == w.f \in 160..191 \/ w.f \in 217..219
IsArray(w) == w.f \in 144..159 \/ w.f \in 220..221
IsInt(w) == w.f <= 127 \/ w.f >= 224 \/ w.f \in 204..211

ReadLength(w) ==
    IF w.f \in 160..191 THEN w.f - 160
    ELSE IF w.f \in 144..159 THEN w.f - 144
    ELSE IF w.f = 217 THEN w.b[1]
    ELSE IF w.f \in {218, 220} THEN From2(w.b)
    ELSE From4(w.b)

=============================================================================
