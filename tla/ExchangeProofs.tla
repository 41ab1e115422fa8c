--------------------------- MODULE ExchangeProofs ---------------------------
(***************************************************************************)
(* Proofs about Exchange, for every codec, every set of requests, rows and *)
(* frames and every size of batches and chunks: the answers on a socket    *)
(* pair with the requests, an answer that is sent in pieces is whole, and  *)
(* a stream asks what a plain query asks.                                  *)
(***************************************************************************)
EXTENDS Exchange, SequenceTheorems, WellFoundedInduction, TLAPS

-----------------------------------------------------------------------------
(* Pieces of a sequence *)

\* A set of numbers that holds 0 and with each number the next one, up to b,
\* holds them all.
LEMMA CountUp ==
    ASSUME NEW b \in Nat, NEW P, 0 \in P, \A n \in 1..b : n - 1 \in P => n \in P
    PROVE  b \in P /\ \A n \in 0..b : n \in P
<1>1. PICK R : R = {p \in Nat \X Nat : p[1] < p[2]} /\ IsWellFoundedOn(R, Nat)
  BY Zenon, NatLessThanWellFounded DEF OpToRel
<1>2. SUFFICES ASSUME {n \in 0..b : n \notin P} # {} PROVE FALSE
  OBVIOUS
<1>3. PICK m \in {n \in 0..b : n \notin P} : \A n \in {n \in 0..b : n \notin P} : ~(<<n, m>> \in R)
  BY Zenon, <1>1, <1>2, WFMin
<1>4. m \in 1..b /\ m - 1 \in 0..b /\ <<m - 1, m>> \in R
  BY <1>1, <1>3
<1>5. m - 1 \in P
  BY Zenon, <1>3, <1>4
<1> QED
  BY <1>2, <1>4, <1>5

\* The first number after none
LEMMA First ==
    ASSUME NEW b \in Nat, NEW n \in 1..b
    PROVE  n - 1 = 0 => n = 1
OBVIOUS

\* What a sequence of sequences is joined to: the last of the sequences that each
\* come from the one before by the next piece.
LEMMA JoinedIs ==
    ASSUME NEW s, NEW g, NEW b \in Nat \ {0}, Len(s) = b,
           g = [i \in 1..b |-> IF i = 1 THEN s[i] ELSE g[i - 1] \o s[i]]
    PROVE  Joined(s) = g[b]
<1> DEFINE Is(h) == h = [i \in 1..b |-> IF i = 1 THEN s[i] ELSE h[i - 1] \o s[i]]
           chosen == CHOOSE h : Is(h)
           P == {n \in 0..b : n = 0 \/ chosen[n] = g[n]}
<1>1. Is(chosen) /\ Is(g)
  <2>1. Is(g)
    BY Zenon
  <2> HIDE DEF Is
  <2> QED
    BY Zenon, <2>1
<1>2. ASSUME NEW h, Is(h), NEW n \in 1..b
      PROVE  h[n] = IF n = 1 THEN s[n] ELSE h[n - 1] \o s[n]
  BY Zenon, <1>2
<1>3. 0 \in P
  OBVIOUS
<1>4. ASSUME NEW n \in 1..b, n - 1 \in P
      PROVE  n \in P
  <2> HIDE DEF Is, chosen
  <2>1. n - 1 = 0 \/ chosen[n - 1] = g[n - 1]
    BY Zenon, <1>4
  <2>2. n - 1 = 0 => n = 1
    BY Zenon, First
  <2>3. chosen[n] = g[n]
    <3>1. g[n] = IF n = 1 THEN s[n] ELSE g[n - 1] \o s[n]
      BY Zenon, <1>1, <1>2
    <3>2. chosen[n] = IF n = 1 THEN s[n] ELSE chosen[n - 1] \o s[n]
      BY Zenon, <1>1, <1>2
    <3> QED
      BY Zenon, <2>1, <2>2, <3>1, <3>2
  <2> QED
    BY <2>3
<1>5. b \in P
  <2> HIDE DEF P
  <2> QED
    BY Zenon, <1>3, <1>4, CountUp
<1>6. Joined(s) = chosen[b]
  <2>1. Len(s) # 0
    OBVIOUS
  <2> QED
    BY Zenon, <2>1 DEF Joined
<1> QED
  BY <1>5, <1>6

\* Division with remainder
LEMMA Division ==
    ASSUME NEW n \in Nat, NEW d \in Nat \ {0}
    PROVE  n \div d \in Nat /\ n % d \in 0..(d - 1) /\ n = d * (n \div d) + (n % d)
OBVIOUS

\* There are as many chunks as are needed to hold all rows.
LEMMA ChunkCountFits ==
    ASSUME NEW n \in Nat, NEW size \in Nat \ {0}
    PROVE  /\ ChunkCount(n, size) \in Nat
           /\ n <= size * ChunkCount(n, size) /\ size * ChunkCount(n, size) < n + size
<1>1. size * (n \div size + 1) = size * (n \div size) + size
  BY Division
<1> QED
  BY <1>1, Division DEF ChunkCount

\* div_ceil gives the same number.
LEMMA BatchCountFits ==
    ASSUME NEW n \in Nat
    PROVE  /\ BatchCount(n) \in Nat
           /\ n <= BatchSize * BatchCount(n) /\ BatchSize * BatchCount(n) < n + BatchSize
<1> DEFINE m == n + BatchSize - 1
<1>1. m \in Nat
  BY BatchAssumption
<1>2. m \div BatchSize \in Nat /\ m % BatchSize \in 0..(BatchSize - 1)
      /\ m = BatchSize * (m \div BatchSize) + (m % BatchSize)
  BY Zenon, <1>1, Division, BatchAssumption
<1> QED
  BY <1>2, BatchAssumption DEF BatchCount

\* and so does any count that fits.
LEMMA FittingCount ==
    ASSUME NEW n \in Nat, NEW d \in Nat \ {0}, NEW i \in Nat, NEW j \in Nat,
           n <= d * i, d * i < n + d, n <= d * j, d * j < n + d
    PROVE  i = j
<1>1. ASSUME NEW x \in Nat, NEW y \in Nat, x < y
      PROVE  d * x + d <= d * y
  <2>1. d * (x + 1) <= d * y
    BY <1>1
  <2> QED
    BY <2>1
<1> QED
  BY <1>1

\* A chunk is not empty, and no larger than it may be.
LEMMA ChunkSize ==
    ASSUME NEW S, NEW rows \in Seq(S), NEW size \in Nat \ {0}, NEW i \in 1..Len(rows)
    PROVE  /\ Chunk(rows, i, size) \in Seq(S)
           /\ Len(Chunk(rows, i, size)) \in 1..size
           /\ \A j \in 1..Len(Chunk(rows, i, size)) : i + j - 1 \in 1..Len(rows) /\ Chunk(rows, i, size)[j] = rows[i + j - 1]
<1> DEFINE to == IF Len(rows) - i < size THEN Len(rows) ELSE i + size - 1
<1>1. to \in Nat /\ i <= to /\ to <= Len(rows) /\ to - i + 1 <= size
  OBVIOUS
<1>2. Chunk(rows, i, size) = SubSeq(rows, i, to)
  BY Zenon DEF Chunk
<1>3. \A j \in i..to : rows[j] \in S
  BY <1>1
<1> HIDE DEF to
<1> QED
  BY <1>1, <1>2, <1>3, SubSeqProperties

\* The chunks of a sequence, one after the other, are the sequence.
LEMMA ChunksJoin ==
    ASSUME NEW S, NEW rows \in Seq(S), NEW size \in Nat \ {0}
    PROVE  Joined([i \in 1..ChunkCount(Len(rows), size) |-> Chunk(rows, size * (i - 1) + 1, size)]) = rows
<1> DEFINE c == ChunkCount(Len(rows), size)
           s == [i \in 1..c |-> Chunk(rows, size * (i - 1) + 1, size)]
           upTo(i) == IF size * i > Len(rows) THEN Len(rows) ELSE size * i
           g == [i \in 1..c |-> SubSeq(rows, 1, upTo(i))]
<1>1. c \in Nat /\ Len(rows) <= size * c /\ size * c < Len(rows) + size
  <2>1. Len(rows) \in Nat
    OBVIOUS
  <2> QED
    BY Zenon, <2>1, ChunkCountFits
<1>2. Len(s) = c
  BY <1>1
<1>3. CASE c = 0
  <2>1. Len(rows) = 0
    BY <1>1, <1>3
  <2>2. s = <<>> /\ rows = <<>>
    BY <1>3, <2>1
  <2> QED
    BY <1>2, <1>3, <2>2 DEF Joined
<1>4. CASE c # 0
  <2>1. ASSUME NEW i \in 1..c
        PROVE  /\ size * (i - 1) \in 0..(Len(rows) - 1)
               /\ upTo(i) \in (size * (i - 1))..Len(rows)
               /\ s[i] = SubSeq(rows, size * (i - 1) + 1, upTo(i))
               /\ i # 1 => i - 1 \in 1..c /\ upTo(i - 1) = size * (i - 1)
    <3>1. size * (i - 1) + size = size * i
      OBVIOUS
    <3>2. size * i <= size * c
      BY <1>1
    <3>3. size * (i - 1) \in 0..(Len(rows) - 1)
      BY <1>1, <3>1, <3>2
    <3>4. s[i] = Chunk(rows, size * (i - 1) + 1, size)
      OBVIOUS
    <3>5. (IF Len(rows) - (size * (i - 1) + 1) < size THEN Len(rows) ELSE size * (i - 1) + 1 + size - 1) = upTo(i)
      BY <3>1, <3>3
    <3> HIDE DEF s, upTo
    <3>6. s[i] = SubSeq(rows, size * (i - 1) + 1, upTo(i))
      BY Zenon, <3>4, <3>5 DEF Chunk
    <3>7. upTo(i) \in (size * (i - 1))..Len(rows)
      BY <3>1, <3>3 DEF upTo
    <3>8. i # 1 => i - 1 \in 1..c /\ upTo(i - 1) = size * (i - 1)
      BY <1>1, <3>3 DEF upTo
    <3> QED
      BY Zenon, <3>3, <3>6, <3>7, <3>8
  <2>2. ASSUME NEW i \in 1..c
        PROVE  g[i] = IF i = 1 THEN s[i] ELSE g[i - 1] \o s[i]
    <3>1. g[i] = SubSeq(rows, 1, upTo(i))
      OBVIOUS
    <3>2. CASE i = 1
      <4>1. size * (i - 1) + 1 = 1
        BY <3>2
      <4> HIDE DEF s, upTo, g
      <4> QED
        BY Zenon, <2>1, <3>1, <3>2, <4>1
    <3>3. CASE i # 1
      <4>1. i - 1 \in 1..c
        BY Zenon, <2>1, <3>3
      <4>2. g[i - 1] = SubSeq(rows, 1, upTo(i - 1))
        BY Zenon, <4>1
      <4> HIDE DEF s, upTo, g
      <4>3. PICK k \in 0..(Len(rows) - 1) : k = size * (i - 1)
        BY Zenon, <2>1
      <4>4. PICK n \in k..Len(rows) : n = upTo(i)
        BY Zenon, <2>1, <4>3
      <4>5. SubSeq(rows, 1, k) \o SubSeq(rows, k + 1, n) = SubSeq(rows, 1, n)
        <5>1. 1 \in 1..(Len(rows) + 1) /\ k \in (1 - 1)..Len(rows)
          OBVIOUS
        <5> QED
          BY <5>1, ConcatAdjacentSubSeq
      <4> QED
        BY Zenon, <2>1, <3>1, <3>3, <4>2, <4>3, <4>4, <4>5
    <3> QED
      BY Zenon, <3>2, <3>3
  <2>3. g = [i \in 1..Len(s) |-> IF i = 1 THEN s[i] ELSE g[i - 1] \o s[i]]
    <3>1. g = [i \in 1..c |-> g[i]]
      OBVIOUS
    <3> HIDE DEF s, g
    <3> QED
      BY Zenon, <1>2, <2>2, <3>1
  <2>4. Joined(s) = g[c]
    <3>1. Len(s) \in Nat \ {0}
      BY <1>1, <1>2, <1>4
    <3> HIDE DEF s, g
    <3> QED
      BY Zenon, <1>2, <2>3, <3>1, JoinedIs
  <2>5. c \in 1..c /\ upTo(c) = Len(rows)
    BY <1>1, <1>4
  <2>6. g[c] = SubSeq(rows, 1, Len(rows))
    <3> HIDE DEF upTo, c
    <3> QED
      BY Zenon, <2>5
  <2> QED
    BY Zenon, <2>4, <2>6, SubSeqFull
<1> QED
  BY Zenon, <1>3, <1>4

-----------------------------------------------------------------------------
(* Sequences of anything *)

IsSeq(s) == \E S : s \in Seq(S)

LEMMA SeqIs ==
    ASSUME NEW S, NEW s \in Seq(S)
    PROVE  IsSeq(s)
BY Zenon DEF IsSeq

LEMMA SeqFacts ==
    ASSUME NEW s, IsSeq(s)
    PROVE  Len(s) \in Nat /\ DOMAIN s = 1..Len(s)
<1>1. PICK S : s \in Seq(S)
  BY Zenon DEF IsSeq
<1> QED
  BY <1>1

LEMMA EmptyIsSeq ==
    ASSUME NEW s, s = <<>>
    PROVE  IsSeq(s) /\ Len(s) = 0
<1>1. s \in Seq({0}) /\ Len(s) = 0
  OBVIOUS
<1> QED
  BY Zenon, <1>1, SeqIs

LEMMA OneSeq ==
    ASSUME NEW e
    PROVE  IsSeq(<<e>>) /\ Len(<<e>>) = 1 /\ <<e>>[1] = e
<1>1. <<e>> \in Seq({e}) /\ Len(<<e>>) = 1 /\ <<e>>[1] = e
  OBVIOUS
<1> QED
  BY Zenon, <1>1 DEF IsSeq

LEMMA Appended ==
    ASSUME NEW s, IsSeq(s), NEW e
    PROVE  /\ IsSeq(Append(s, e)) /\ Len(Append(s, e)) = Len(s) + 1
           /\ \A i \in 1..Len(s) : Append(s, e)[i] = s[i]
           /\ Append(s, e)[Len(s) + 1] = e
<1>1. PICK S : s \in Seq(S)
  BY Zenon DEF IsSeq
<1>2. s \in Seq(S \cup {e}) /\ e \in S \cup {e}
  BY <1>1
<1>3. /\ Append(s, e) \in Seq(S \cup {e}) /\ Len(Append(s, e)) = Len(s) + 1
      /\ \A i \in 1..Len(s) : Append(s, e)[i] = s[i]
      /\ Append(s, e)[Len(s) + 1] = e
  BY <1>2, AppendProperties
<1> QED
  BY Zenon, <1>3 DEF IsSeq

LEMMA Tailed ==
    ASSUME NEW s, IsSeq(s), s # <<>>
    PROVE  /\ IsSeq(Tail(s)) /\ Len(Tail(s)) = Len(s) - 1 /\ Len(s) \in Nat \ {0}
           /\ \A i \in 1..Len(Tail(s)) : Tail(s)[i] = s[i + 1]
<1>1. PICK S : s \in Seq(S)
  BY Zenon DEF IsSeq
<1>2. Tail(s) \in Seq(S) /\ Len(Tail(s)) = Len(s) - 1 /\ \A i \in 1..Len(Tail(s)) : Tail(s)[i] = s[i + 1]
  BY Zenon, <1>1, HeadTailProperties
<1>3. Len(s) \in Nat \ {0}
  BY <1>1
<1> QED
  BY Zenon, <1>2, <1>3 DEF IsSeq

\* A function on the first n numbers
LEMMA FunctionSeq ==
    ASSUME NEW n \in Nat, NEW f, f = [i \in 1..n |-> f[i]]
    PROVE  IsSeq(f) /\ Len(f) = n
<1>1. f \in Seq({f[i] : i \in 1..n}) /\ Len(f) = n
  OBVIOUS
<1> QED
  BY Zenon, <1>1 DEF IsSeq

\* Sequences with the same elements
LEMMA SameSeq ==
    ASSUME NEW s, IsSeq(s), NEW t, IsSeq(t), Len(s) = Len(t), \A i \in 1..Len(s) : s[i] = t[i]
    PROVE  s = t
<1>1. PICK S : s \in Seq(S)
  BY Zenon DEF IsSeq
<1>2. PICK T : t \in Seq(T)
  BY Zenon DEF IsSeq
<1>3. s \in Seq(S \cup T) /\ t \in Seq(S \cup T)
  BY <1>1, <1>2
<1> QED
  BY Zenon, <1>3, SeqEqual

\* The middle of a sequence
LEMMA Middle ==
    ASSUME NEW s, IsSeq(s), Len(s) >= 2
    PROVE  /\ Len(SubSeq(s, 2, Len(s) - 1)) = Len(s) - 2
           /\ \A i \in 1..(Len(s) - 2) : SubSeq(s, 2, Len(s) - 1)[i] = s[i + 1]
<1>1. PICK S : s \in Seq(S)
  BY Zenon DEF IsSeq
<1>2. PICK m \in Int, n \in Int : m = 2 /\ n = Len(s) - 1
  BY <1>1
<1>3. \A i \in m..n : s[i] \in S
  BY <1>1, <1>2
<1>4. /\ Len(SubSeq(s, m, n)) = IF m <= n THEN n - m + 1 ELSE 0
      /\ \A i \in 1..(n - m + 1) : SubSeq(s, m, n)[i] = s[m + i - 1]
  BY <1>3, SubSeqProperties
<1>5. Len(s) \in Nat
  BY <1>1
<1> QED
  BY <1>2, <1>4, <1>5

-----------------------------------------------------------------------------
(* Batches and chunks *)

\* The rows as they are printed, and a chunk of them.
LEMMA PrintedIs ==
    ASSUME NEW rows, IsSeq(rows)
    PROVE  /\ IsSeq(PrintedRows(rows).xs) /\ Len(PrintedRows(rows).xs) = Len(rows)
           /\ \A i \in 1..Len(rows) : PrintedRows(rows).xs[i] = PrintRow(rows[i])
<1> DEFINE p == [i \in 1..Len(rows) |-> PrintRow(rows[i])]
<1>1. PrintedRows(rows).xs = p
  BY Zenon DEF PrintedRows, Vector, Value
<1>2. Len(rows) \in Nat
  BY Zenon, SeqFacts
<1>3. p = [i \in 1..Len(rows) |-> p[i]] /\ \A i \in 1..Len(rows) : p[i] = PrintRow(rows[i])
  OBVIOUS
<1> HIDE DEF p
<1>4. IsSeq(p) /\ Len(p) = Len(rows)
  BY Zenon, <1>2, <1>3, FunctionSeq
<1> QED
  BY Zenon, <1>1, <1>3, <1>4

LEMMA ChunkIs ==
    ASSUME NEW rows, IsSeq(rows), NEW size \in Nat \ {0}, NEW i \in 1..Len(rows)
    PROVE  /\ IsSeq(Chunk(rows, i, size)) /\ Len(Chunk(rows, i, size)) \in 1..size
           /\ Len(Chunk(rows, i, size)) = (IF Len(rows) - i < size THEN Len(rows) ELSE i + size - 1) - i + 1
           /\ \A j \in 1..Len(Chunk(rows, i, size)) :
                 i + j - 1 \in 1..Len(rows) /\ Chunk(rows, i, size)[j] = rows[i + j - 1]
<1>1. PICK S : rows \in Seq(S)
  BY Zenon DEF IsSeq
<1> DEFINE to == IF Len(rows) - i < size THEN Len(rows) ELSE i + size - 1
<1>2. to \in Nat /\ i <= to /\ to <= Len(rows)
  BY <1>1
<1>3. Chunk(rows, i, size) = SubSeq(rows, i, to)
  BY Zenon DEF Chunk
<1>4. \A j \in i..to : rows[j] \in S
  BY <1>1, <1>2
<1>5. Len(Chunk(rows, i, size)) = to - i + 1
  <2> HIDE DEF to
  <2> QED
    BY <1>2, <1>3, <1>4, SubSeqProperties
<1> QED
  BY SMT, <1>1, <1>5, ChunkSize, SeqIs

LEMMA PrintedChunk ==
    ASSUME NEW rows, IsSeq(rows), NEW i \in 1..Len(rows)
    PROVE  PrintedRows(Chunk(rows, i, BatchSize)).xs = Chunk(PrintedRows(rows).xs, i, BatchSize)
<1> DEFINE c == Chunk(rows, i, BatchSize)
           p == PrintedRows(rows).xs
           d == Chunk(p, i, BatchSize)
           q == PrintedRows(c).xs
<1>1. /\ IsSeq(p) /\ Len(p) = Len(rows)
      /\ \A j \in 1..Len(rows) : p[j] = PrintRow(rows[j])
  BY Zenon, PrintedIs
<1>2. /\ IsSeq(c) /\ Len(c) = (IF Len(rows) - i < BatchSize THEN Len(rows) ELSE i + BatchSize - 1) - i + 1
      /\ \A j \in 1..Len(c) : i + j - 1 \in 1..Len(rows) /\ c[j] = rows[i + j - 1]
  BY SMT, BatchAssumption, ChunkIs
<1> HIDE DEF p
<1>3. /\ IsSeq(d) /\ Len(d) = (IF Len(p) - i < BatchSize THEN Len(p) ELSE i + BatchSize - 1) - i + 1
      /\ \A j \in 1..Len(d) : i + j - 1 \in 1..Len(p) /\ d[j] = p[i + j - 1]
  <2>1. IsSeq(p) /\ i \in 1..Len(p)
    BY Zenon, <1>1
  <2> QED
    BY SMT, <2>1, BatchAssumption, ChunkIs
<1> HIDE DEF c, d
<1>4. IsSeq(q) /\ Len(q) = Len(c) /\ \A j \in 1..Len(c) : q[j] = PrintRow(c[j])
  BY Zenon, <1>2, PrintedIs
<1> HIDE DEF q
<1>5. Len(q) = Len(d)
  BY Zenon, <1>1, <1>2, <1>3, <1>4
<1>6. \A j \in 1..Len(q) : q[j] = d[j]
  BY Zenon, <1>1, <1>2, <1>3, <1>4, <1>5
<1>7. q = d
  BY Zenon, <1>3, <1>4, <1>5, <1>6, SameSeq
<1> QED
  BY Zenon, <1>7 DEF q, d, c, p

\* The batches of the rows
BatchOf(rows, i) == PrintedRows(Chunk(rows, BatchSize * (i - 1) + 1, BatchSize))

LEMMA BatchesWhole ==
    ASSUME NEW rows, IsSeq(rows)
    PROVE  /\ Joined([i \in 1..BatchCount(Len(rows)) |-> BatchOf(rows, i).xs]) = PrintedRows(rows).xs
           /\ \A i \in 1..BatchCount(Len(rows)) : Len(BatchOf(rows, i).xs) \in 1..BatchSize
<1> DEFINE p == PrintedRows(rows).xs
           n == BatchCount(Len(rows))
<1>1. IsSeq(p) /\ Len(p) = Len(rows) /\ Len(rows) \in Nat
  BY Zenon, PrintedIs, SeqFacts
<1>2. n \in Nat /\ Len(rows) <= BatchSize * n /\ BatchSize * n < Len(rows) + BatchSize
  BY Zenon, <1>1, BatchCountFits
<1> HIDE DEF n, p
<1>3. n = ChunkCount(Len(rows), BatchSize)
  <2> DEFINE m == ChunkCount(Len(rows), BatchSize)
  <2>1. m \in Nat /\ Len(rows) <= BatchSize * m /\ BatchSize * m < Len(rows) + BatchSize
    BY Zenon, <1>1, BatchAssumption, ChunkCountFits
  <2> HIDE DEF m
  <2>2. n = m
    BY Zenon, <1>1, <1>2, <2>1, BatchAssumption, FittingCount
  <2> QED
    BY Zenon, <2>2 DEF m
<1>4. ASSUME NEW i \in 1..n
      PROVE  BatchSize * (i - 1) + 1 \in 1..Len(rows)
  <2>1. BatchSize * (i - 1) + BatchSize = BatchSize * i
    BY BatchAssumption
  <2>2. BatchSize * i <= BatchSize * n
    BY <1>2, BatchAssumption
  <2>3. BatchSize * (i - 1) \in Nat /\ BatchSize * n \in Nat
    BY <1>2, BatchAssumption
  <2> QED
    BY <1>1, <1>2, <2>1, <2>2, <2>3, BatchAssumption
<1>5. ASSUME NEW i \in 1..n
      PROVE  BatchOf(rows, i).xs = Chunk(p, BatchSize * (i - 1) + 1, BatchSize)
  BY Zenon, <1>4, PrintedChunk DEF BatchOf, p
<1>6. Joined([i \in 1..n |-> Chunk(p, BatchSize * (i - 1) + 1, BatchSize)]) = p
  <2>1. PICK S : p \in Seq(S)
    BY Zenon, <1>1 DEF IsSeq
  <2> QED
    BY Zenon, <1>1, <1>3, <2>1, BatchAssumption, ChunksJoin
<1>7. [i \in 1..n |-> BatchOf(rows, i).xs] = [i \in 1..n |-> Chunk(p, BatchSize * (i - 1) + 1, BatchSize)]
  BY Zenon, <1>5
<1>8. ASSUME NEW i \in 1..n
      PROVE  Len(BatchOf(rows, i).xs) \in 1..BatchSize
  BY Zenon, <1>1, <1>4, <1>5, BatchAssumption, ChunkIs
<1> QED
  BY Zenon, <1>6, <1>7, <1>8 DEF n, p

-----------------------------------------------------------------------------
(* The stream *)

SseRecord(st, op, call, json, rows, next, events) ==
    [st |-> st, op |-> op, call |-> call, json |-> json, rows |-> rows, next |-> next, events |-> events]

BatchEvent(rows, i) == Event("batch", BatchOf(rows, i), 0, 0)
ErrorEvents == <<Event("error", Nil, 0, 0)>>

\* The first n batches of the rows have been sent.
Batches(rows, events, n) ==
    /\ n \in Nat /\ \A i \in 1..n : events[i + 1] = BatchEvent(rows, i)

\* n batches are sent, and each one of them held a row.
Sending(rows, next, events) ==
    /\ Len(events) >= 1 /\ Batches(rows, events, Len(events) - 1)
    /\ next = BatchSize * (Len(events) - 1) + 1
    /\ next < Len(rows) + BatchSize + 1

\* All of them are, and the last event says how many they were.
Complete(rows, events) ==
    /\ Len(events) = BatchCount(Len(rows)) + 2
    /\ Batches(rows, events, BatchCount(Len(rows)))
    /\ events[Len(events)] = Event("done", Nil, Len(rows), BatchCount(Len(rows)))

SseInv ==
    /\ sse = SseRecord(sse.st, sse.op, sse.call, sse.json, sse.rows, sse.next, sse.events)
    /\ sse.st \in {"new", "sending", "ended", "dropped"}
    /\ IsSeq(sse.rows) /\ IsSeq(sse.events)
    /\ sse.next \in 1..(Len(sse.rows) + BatchSize)
    /\ sse.st = "sending" =>
          /\ Sending(sse.rows, sse.next, sse.events)
          /\ sse.op.op \in Queries /\ sse.call = StreamCall(sse.op)
    /\ sse.st = "ended" => sse.events = ErrorEvents \/ Complete(sse.rows, sse.events)

\* A stream begins with its columns, and no batch.
LEMMA SendingFirst ==
    ASSUME NEW rows, IsSeq(rows), NEW e
    PROVE  Sending(rows, 1, <<e>>)
<1>1. Len(<<e>>) = 1
  BY Zenon, OneSeq
<1>2. Len(rows) \in Nat
  BY Zenon, SeqFacts
<1>3. 1 = BatchSize * (1 - 1) + 1 /\ 1 < Len(rows) + BatchSize + 1 /\ 1 - 1 \in Nat /\ 1..(1 - 1) = {}
  BY <1>2, BatchAssumption
<1> QED
  BY <1>1, <1>3 DEF Sending, Batches

\* The next batch
LEMMA SendingNext ==
    ASSUME NEW rows, IsSeq(rows), NEW next, NEW events, IsSeq(events), Sending(rows, next, events),
           next <= Len(rows)
    PROVE  Sending(rows, next + BatchSize,
                   Append(events, Event("batch", PrintedRows(Chunk(rows, next, BatchSize)), 0, 0)))
<1> DEFINE e == Event("batch", PrintedRows(Chunk(rows, next, BatchSize)), 0, 0)
           more == Append(events, e)
<1>1. PICK n \in Nat : n = Len(events) - 1 /\ Len(events) = n + 1
  <2>1. Len(events) \in Nat
    BY Zenon, SeqFacts
  <2>2. Len(events) - 1 \in Nat
    BY Zenon DEF Sending, Batches
  <2> QED
    BY <2>1, <2>2
<1>2. next = BatchSize * n + 1 /\ \A i \in 1..n : events[i + 1] = BatchEvent(rows, i)
  BY Zenon, <1>1 DEF Sending, Batches
<1>3. Len(more) = n + 2 /\ (\A i \in 1..(n + 1) : more[i] = events[i]) /\ more[n + 2] = e
  <2> HIDE DEF e
  <2>1. /\ Len(more) = Len(events) + 1 /\ more[Len(events) + 1] = e
        /\ \A i \in 1..Len(events) : more[i] = events[i]
    BY SMT, Appended
  <2>2. n + 1 + 1 = n + 2
    OBVIOUS
  <2> QED
    BY Zenon, <1>1, <2>1, <2>2
<1>4. next = BatchSize * ((n + 1) - 1) + 1 /\ n + 1 \in Nat
  <2>1. (n + 1) - 1 = n /\ n + 1 \in Nat
    OBVIOUS
  <2> QED
    BY Zenon, <1>2, <2>1
<1>5. e = BatchEvent(rows, n + 1)
  BY Zenon, <1>4 DEF BatchEvent, BatchOf
<1> HIDE DEF e, more
<1>6. Batches(rows, more, n + 1)
  <2>1. ASSUME NEW i \in 1..(n + 1)
        PROVE  more[i + 1] = BatchEvent(rows, i)
    <3>1. CASE i = n + 1
      <4>1. i + 1 = n + 2
        BY <3>1
      <4> QED
        BY Zenon, <1>3, <1>5, <3>1, <4>1
    <3>2. CASE i # n + 1
      <4>1. i \in 1..n /\ i + 1 \in 1..(n + 1)
        BY <3>2
      <4> QED
        BY Zenon, <1>2, <1>3, <4>1
    <3> QED
      BY Zenon, <3>1, <3>2
  <2> QED
    BY Zenon, <1>4, <2>1 DEF Batches
<1>7. Len(more) >= 1 /\ Len(more) - 1 = n + 1
  BY <1>3
<1>8. next + BatchSize = BatchSize * (n + 1) + 1 /\ next + BatchSize < Len(rows) + BatchSize + 1
  <2>1. Len(rows) \in Nat
    BY Zenon, SeqFacts
  <2>2. BatchSize * (n + 1) = BatchSize * n + BatchSize /\ BatchSize * n \in Nat
    BY BatchAssumption
  <2> QED
    BY <1>2, <2>1, <2>2, BatchAssumption
<1>9. Sending(rows, next + BatchSize, more)
  BY Zenon, <1>6, <1>7, <1>8 DEF Sending
<1> QED
  BY Zenon, <1>9 DEF more, e

\* The last event
LEMMA SendingDone ==
    ASSUME NEW rows, IsSeq(rows), NEW next, NEW events, IsSeq(events), Sending(rows, next, events),
           next > Len(rows)
    PROVE  Complete(rows, Append(events, Event("done", Nil, Len(rows), BatchCount(Len(rows)))))
<1> DEFINE e == Event("done", Nil, Len(rows), BatchCount(Len(rows)))
           more == Append(events, e)
<1>1. PICK n \in Nat : n = Len(events) - 1 /\ Len(events) = n + 1
  <2>1. Len(events) \in Nat
    BY Zenon, SeqFacts
  <2>2. Len(events) - 1 \in Nat
    BY Zenon DEF Sending, Batches
  <2> QED
    BY <2>1, <2>2
<1>2. /\ next = BatchSize * n + 1 /\ next < Len(rows) + BatchSize + 1
      /\ \A i \in 1..n : events[i + 1] = BatchEvent(rows, i)
  BY Zenon, <1>1 DEF Sending, Batches
<1>3. n = BatchCount(Len(rows))
  <2>1. Len(rows) \in Nat
    BY Zenon, SeqFacts
  <2>2. BatchSize * n \in Nat
    BY BatchAssumption
  <2>3. Len(rows) <= BatchSize * n /\ BatchSize * n < Len(rows) + BatchSize
    BY <1>2, <2>1, <2>2, BatchAssumption
  <2>4. /\ BatchCount(Len(rows)) \in Nat
        /\ Len(rows) <= BatchSize * BatchCount(Len(rows)) /\ BatchSize * BatchCount(Len(rows)) < Len(rows) + BatchSize
    BY Zenon, <2>1, BatchCountFits
  <2> QED
    BY Zenon, <2>1, <2>3, <2>4, BatchAssumption, FittingCount
<1> HIDE DEF e
<1>4. Len(more) = n + 2 /\ (\A i \in 1..(n + 1) : more[i] = events[i]) /\ more[n + 2] = e
  <2>1. /\ Len(more) = Len(events) + 1 /\ more[Len(events) + 1] = e
        /\ \A i \in 1..Len(events) : more[i] = events[i]
    BY SMT, Appended
  <2>2. n + 1 + 1 = n + 2
    OBVIOUS
  <2> QED
    BY Zenon, <1>1, <2>1, <2>2
<1>5. \A i \in 1..n : i + 1 \in 1..(n + 1)
  OBVIOUS
<1> HIDE DEF more
<1>6. Batches(rows, more, n)
  BY Zenon, <1>2, <1>4, <1>5 DEF Batches
<1>7. Complete(rows, more)
  BY Zenon, <1>3, <1>4, <1>6 DEF Complete, e
<1> QED
  BY Zenon, <1>7 DEF more, e

\* The rows that a stream fetched
LEMMA StreamedRowsAre ==
    ASSUME NEW rows \in Rows, StreamedRows(rows) # Failed
    PROVE  IsSeq(StreamedRows(rows).xs)
<1> DEFINE xs == [i \in 1..Len(rows) |-> StreamValue(rows[i])]
<1>1. StreamedRows(rows).xs = xs
  BY Zenon DEF StreamedRows, Vector, Value
<1>2. Len(rows) \in Nat
  BY Zenon, AnswersAssumption
<1>3. xs = [i \in 1..Len(rows) |-> xs[i]]
  OBVIOUS
<1> HIDE DEF xs
<1> QED
  BY Zenon, <1>1, <1>2, <1>3, FunctionSeq

LEMMA SseInitially == Init => SseInv
<1> SUFFICES ASSUME Init PROVE SseInv
  OBVIOUS
<1>1. sse = SseRecord("new", Refusal("missing"), None, <<>>, <<>>, 1, <<>>)
  BY Zenon DEF Init, SseRecord
<1>2. sse.st = "new" /\ sse.rows = <<>> /\ sse.next = 1 /\ sse.events = <<>>
  BY Zenon, <1>1 DEF SseRecord
<1>3. sse = SseRecord(sse.st, sse.op, sse.call, sse.json, sse.rows, sse.next, sse.events)
  BY Zenon, <1>1 DEF SseRecord
<1>4. IsSeq(sse.rows) /\ Len(sse.rows) = 0 /\ IsSeq(sse.events)
  BY Zenon, <1>2, EmptyIsSeq
<1>5. sse.next \in 1..(Len(sse.rows) + BatchSize)
  BY <1>2, <1>4, BatchAssumption
<1> QED
  BY Zenon, <1>2, <1>3, <1>4, <1>5 DEF SseInv

LEMMA SseStep == SseInv /\ [Next]_vars => SseInv'
<1> SUFFICES ASSUME SseInv, [Next]_vars PROVE SseInv'
  OBVIOUS
<1>1. CASE UNCHANGED sse
  BY Zenon, <1>1 DEF SseInv
<1>2. ASSUME NEW st, NEW events, IsSeq(events), st \in {"ended", "dropped"},
             sse' = [sse EXCEPT !.st = st, !.events = events],
             st = "ended" => events = ErrorEvents \/ Complete(sse.rows, events)
      PROVE  SseInv'
  <2>1. sse' = SseRecord(st, sse.op, sse.call, sse.json, sse.rows, sse.next, events)
    BY Zenon, <1>2 DEF SseInv, SseRecord
  <2>2. sse'.st = st /\ sse'.rows = sse.rows /\ sse'.next = sse.next /\ sse'.events = events
    BY Zenon, <2>1 DEF SseRecord
  <2>3. sse' = SseRecord(sse'.st, sse'.op, sse'.call, sse'.json, sse'.rows, sse'.next, sse'.events)
    BY Zenon, <2>1 DEF SseRecord
  <2> QED
    BY Zenon, <1>2, <2>2, <2>3 DEF SseInv
<1>3. CASE SseStart
  <2>1. \/ sse' = [sse EXCEPT !.st = "ended", !.events = ErrorEvents]
        \/ \E op : \E rows \in Rows :
              /\ op.op \in Queries /\ StreamedRows(rows) # Failed
              /\ sse' = SseRecord("sending", op, StreamCall(op), rows, StreamedRows(rows).xs, 1,
                                  <<Event("columns", Nil, 0, 0)>>)
    BY Zenon, <1>3 DEF SseStart, SseRecord, ErrorEvents
  <2>2. CASE sse' = [sse EXCEPT !.st = "ended", !.events = ErrorEvents]
    <3>1. IsSeq(ErrorEvents)
      BY Zenon, OneSeq DEF ErrorEvents
    <3> QED
      BY Zenon, <1>2, <2>2, <3>1
  <2>3. ASSUME NEW op, NEW rows \in Rows, op.op \in Queries, StreamedRows(rows) # Failed,
               sse' = SseRecord("sending", op, StreamCall(op), rows, StreamedRows(rows).xs, 1,
                                <<Event("columns", Nil, 0, 0)>>)
        PROVE  SseInv'
    <3>1. PICK e : e = Event("columns", Nil, 0, 0)
      BY Zenon
    <3>2. /\ sse'.st = "sending" /\ sse'.op = op /\ sse'.call = StreamCall(op) /\ sse'.json = rows
          /\ sse'.rows = StreamedRows(rows).xs /\ sse'.next = 1 /\ sse'.events = <<e>>
      BY Zenon, <2>3, <3>1 DEF SseRecord
    <3>3. sse' = SseRecord(sse'.st, sse'.op, sse'.call, sse'.json, sse'.rows, sse'.next, sse'.events)
      BY Zenon, <2>3, <3>1, <3>2
    <3>4. IsSeq(sse'.rows) /\ IsSeq(sse'.events)
      BY Zenon, <2>3, <3>2, StreamedRowsAre, OneSeq
    <3>5. Len(sse'.rows) \in Nat
      BY Zenon, <3>4, SeqFacts
    <3>6. 1 \in 1..(Len(sse'.rows) + BatchSize)
      BY <3>5, BatchAssumption
    <3>7. Sending(sse'.rows, 1, <<e>>)
      BY Zenon, <3>4, SendingFirst
    <3> QED
      BY Zenon, <2>3, <3>2, <3>3, <3>4, <3>6, <3>7 DEF SseInv
  <2> QED
    BY Zenon, <2>1, <2>2, <2>3
<1>4. CASE SseBatch
  <2> DEFINE e == Event("batch", PrintedRows(Chunk(sse.rows, sse.next, BatchSize)), 0, 0)
             events == Append(sse.events, e)
  <2>1. /\ sse.st = "sending" /\ sse.next <= Len(sse.rows)
        /\ sse' = [sse EXCEPT !.next = sse.next + BatchSize, !.events = events]
    BY Zenon, <1>4 DEF SseBatch
  <2>2. Sending(sse.rows, sse.next + BatchSize, events)
    BY Zenon, <2>1, SendingNext DEF SseInv
  <2>3. IsSeq(events)
    BY Zenon, Appended DEF SseInv
  <2> HIDE DEF events, e
  <2>4. sse' = SseRecord(sse.st, sse.op, sse.call, sse.json, sse.rows, sse.next + BatchSize, events)
    BY Zenon, <2>1 DEF SseInv, SseRecord
  <2>5. /\ sse'.st = sse.st /\ sse'.op = sse.op /\ sse'.call = sse.call /\ sse'.json = sse.json
        /\ sse'.rows = sse.rows /\ sse'.next = sse.next + BatchSize /\ sse'.events = events
    BY Zenon, <2>4 DEF SseRecord
  <2>6. sse' = SseRecord(sse'.st, sse'.op, sse'.call, sse'.json, sse'.rows, sse'.next, sse'.events)
    BY Zenon, <2>4, <2>5
  <2>7. sse.next + BatchSize \in 1..(Len(sse.rows) + BatchSize)
    <3>1. Len(sse.rows) \in Nat /\ sse.next \in 1..(Len(sse.rows) + BatchSize)
      BY Zenon, SeqFacts DEF SseInv
    <3> QED
      BY <2>1, <3>1, BatchAssumption
  <2> QED
    BY Zenon, <2>1, <2>2, <2>3, <2>5, <2>6, <2>7 DEF SseInv
<1>5. CASE SseDone
  <2> DEFINE events == Append(sse.events, Event("done", Nil, Len(sse.rows), BatchCount(Len(sse.rows))))
  <2>1. /\ sse.st = "sending" /\ sse.next > Len(sse.rows)
        /\ sse' = [sse EXCEPT !.st = "ended", !.events = events]
    BY Zenon, <1>5 DEF SseDone
  <2>2. Complete(sse.rows, events)
    BY Zenon, <2>1, SendingDone DEF SseInv
  <2>3. IsSeq(events)
    BY Zenon, Appended DEF SseInv
  <2> QED
    BY Zenon, <1>2, <2>1, <2>2, <2>3
<1>6. CASE SseDrop
  <2>1. sse' = [sse EXCEPT !.st = "dropped"]
    BY Zenon, <1>6 DEF SseDrop
  <2>2. sse' = [sse EXCEPT !.st = "dropped", !.events = sse.events]
    BY Zenon, <2>1 DEF SseInv, SseRecord
  <2> QED
    BY Zenon, <1>2, <2>2 DEF SseInv
<1>7. Next => UNCHANGED sse \/ SseStart \/ SseBatch \/ SseDone \/ SseDrop
  BY Zenon DEF Next, HttpParse, HttpAnswer, HttpNext, WsOpen, WsSend, WsLeave, WsReceive, WsAnswer, WsIdle
<1> QED
  BY Zenon, <1>1, <1>3, <1>4, <1>5, <1>6, <1>7 DEF vars

\* What a stream that says done has sent
LEMMA StreamWhole == SseInv => StreamComplete
<1> SUFFICES ASSUME SseInv, sse.st = "ended", sse.events[Len(sse.events)].k = "done"
             PROVE  LET batches == SubSeq(sse.events, 2, Len(sse.events) - 1)
                        done == sse.events[Len(sse.events)]
                    IN  /\ \A i \in 1..Len(batches) : batches[i].k = "batch" /\ Len(batches[i].v.xs) \in 1..BatchSize
                        /\ Joined([i \in 1..Len(batches) |-> batches[i].v.xs]) = PrintedRows(sse.rows).xs
                        /\ done.total = Len(sse.rows) /\ done.batches = Len(batches)
  BY Zenon DEF StreamComplete
<1> DEFINE batches == SubSeq(sse.events, 2, Len(sse.events) - 1)
           done == sse.events[Len(sse.events)]
           n == BatchCount(Len(sse.rows))
<1>1. sse.events # ErrorEvents
  <2>1. Len(ErrorEvents) = 1 /\ ErrorEvents[1].k = "error"
    BY Zenon, OneSeq DEF ErrorEvents, Event
  <2> QED
    BY Zenon, <2>1
<1>2. Complete(sse.rows, sse.events)
  BY Zenon, <1>1 DEF SseInv
<1>3. /\ Len(sse.events) = n + 2 /\ n \in Nat
      /\ \A i \in 1..n : sse.events[i + 1] = BatchEvent(sse.rows, i)
      /\ done.total = Len(sse.rows) /\ done.batches = n
  <2>1. done = Event("done", Nil, Len(sse.rows), n)
    BY Zenon, <1>2 DEF Complete
  <2>2. done.total = Len(sse.rows) /\ done.batches = n
    BY <2>1 DEF Event
  <2> QED
    BY Zenon, <1>2, <2>2 DEF Complete, Batches
<1> HIDE DEF n
<1>4. Len(batches) = n /\ \A i \in 1..n : batches[i] = sse.events[i + 1]
  <2>1. Len(sse.events) >= 2 /\ Len(sse.events) - 2 = n
    BY <1>3
  <2>2. IsSeq(sse.events)
    BY Zenon DEF SseInv
  <2> QED
    BY Zenon, <2>1, <2>2, Middle
<1> HIDE DEF batches, done
<1>5. ASSUME NEW i \in 1..n
      PROVE  batches[i].k = "batch" /\ batches[i].v.xs = BatchOf(sse.rows, i).xs
  <2>1. batches[i] = Event("batch", BatchOf(sse.rows, i), 0, 0)
    BY Zenon, <1>3, <1>4 DEF BatchEvent
  <2> QED
    BY <2>1 DEF Event
<1>6. [i \in 1..n |-> batches[i].v.xs] = [i \in 1..n |-> BatchOf(sse.rows, i).xs]
  BY Zenon, <1>5
<1>7. /\ Joined([i \in 1..n |-> BatchOf(sse.rows, i).xs]) = PrintedRows(sse.rows).xs
      /\ \A i \in 1..n : Len(BatchOf(sse.rows, i).xs) \in 1..BatchSize
  BY Zenon, BatchesWhole DEF SseInv, n
<1>8. /\ \A i \in 1..Len(batches) : batches[i].k = "batch" /\ Len(batches[i].v.xs) \in 1..BatchSize
      /\ Joined([i \in 1..Len(batches) |-> batches[i].v.xs]) = PrintedRows(sse.rows).xs
      /\ done.total = Len(sse.rows) /\ done.batches = Len(batches)
  BY Zenon, <1>3, <1>4, <1>5, <1>6, <1>7
<1> QED
  BY Zenon, <1>8 DEF batches, done

-----------------------------------------------------------------------------
(* Chunks of a qseq *)

SizeRead(size) == size = None \/ size.n \in Int

HttpInv ==
    /\ http.st \in {"idle", "parsed", "answered", "aborted"}
    /\ (http.st = "parsed" /\ http.op.op = "qseq") => SizeRead(Arg(http.op, "chunk-size"))
    /\ (http.st = "answered" /\ http.name = "qseq" /\ http.answer.ok) =>
          \E rows \in Rows : \E size : SizeRead(size) /\ http.answer = QseqAnswer(rows, size)

\* A qseq that does not fail ends with the chunks of some rows.
LEMMA QseqEnds ==
    ASSUME NEW o, NEW d, o.op = "qseq", NEW end \in Handled(o, d), end.answer.ok
    PROVE  \E rows \in Rows : end.answer = QseqAnswer(rows, Arg(o, "chunk-size"))
<1>1. ~Refused(o) /\ o.op # "create_db" /\ o.op # "delete_db" /\ o.op # "health"
  BY DEF Refused
<1>2. PICK a \in Answers(o, d) \cup Anomalies : end = [dbs |-> d, answer |-> a]
  BY Zenon, <1>1 DEF Handled
<1>3. end.answer = a
  BY <1>2
<1>4. a \in Answers(o, d)
  BY Zenon, <1>2, <1>3, AnswersAssumption
<1>5. Answers(o, d) = {QseqAnswer(rows, Arg(o, "chunk-size")) : rows \in Rows} \cup Expired(o)
  BY DEF Answers, Queries
<1>6. \A w : ~Fault(w).ok
  BY DEF Fault, Anomaly
<1>7. \A x \in Expired(o) : ~x.ok
  BY Zenon, <1>6 DEF Expired
<1> QED
  BY Zenon, <1>3, <1>4, <1>5, <1>7

LEMMA HttpStep == HttpInv /\ [Next]_vars => HttpInv'
<1> SUFFICES ASSUME HttpInv, [Next]_vars PROVE HttpInv'
  OBVIOUS
<1>1. CASE UNCHANGED http
  BY Zenon, <1>1 DEF HttpInv
<1>2. CASE HttpParse
  <2>1. PICK r \in Asked, form \in {"edn", "json", "msgpack"}, outer \in {0, 2},
             type \in {"none", "transit+json", "transit+msgpack", "edn"} :
           http' = [st |-> "parsed", r |-> r, form |-> form, format |-> DetectInputFormat(type),
                    op |-> ReadBody(DetectInputFormat(type), ClientWrites(form, outer, r))]
    BY ZenonT(60), <1>2 DEF HttpParse
  <2>2. DetectInputFormat(type) \in {"edn", "json", "msgpack"}
    BY DEF DetectInputFormat
  <2>3. PICK o : o = ReadBody(DetectInputFormat(type), ClientWrites(form, outer, r))
    BY Zenon
  <2>4. o.op = "qseq" => SizeRead(Arg(o, "chunk-size"))
    BY SMT, <2>2, <2>3, SizesAssumption DEF SizeRead
  <2>5. http'.st = "parsed" /\ http'.op = o
    BY <2>1, <2>3
  <2> QED
    BY Zenon, <2>4, <2>5 DEF HttpInv
<1>3. CASE HttpAnswer
  <2>1. PICK accept \in Accepts, end \in Handled(http.op, dbs) :
           /\ http.st = "parsed"
           /\ http' = IF end.answer = Panic THEN [st |-> "aborted"]
                      ELSE [st |-> "answered", name |-> http.op.op, answer |-> end.answer,
                            encoding |-> AcceptEncoding(accept),
                            body |-> WriteBody(AcceptEncoding(accept), end.answer)]
    BY Zenon, <1>3 DEF HttpAnswer
  <2>2. CASE end.answer = Panic
    <3>1. http'.st = "aborted"
      BY <2>1, <2>2
    <3> QED
      BY Zenon, <3>1 DEF HttpInv
  <2>3. CASE end.answer # Panic
    <3>1. http'.st = "answered" /\ http'.name = http.op.op /\ http'.answer = end.answer
      BY <2>1, <2>3
    <3>2. ASSUME http.op.op = "qseq", end.answer.ok
          PROVE  \E rows \in Rows : end.answer = QseqAnswer(rows, Arg(http.op, "chunk-size"))
      BY Zenon, <2>1, <3>2, QseqEnds
    <3>3. http.op.op = "qseq" => SizeRead(Arg(http.op, "chunk-size"))
      BY Zenon, <2>1 DEF HttpInv
    <3> QED
      BY Zenon, <3>1, <3>2, <3>3 DEF HttpInv
  <2> QED
    BY Zenon, <2>2, <2>3
<1>4. CASE HttpNext
  <2>1. http'.st = "idle"
    BY <1>4 DEF HttpNext, NoExchange
  <2> QED
    BY Zenon, <2>1 DEF HttpInv
<1>5. Next => UNCHANGED http \/ HttpParse \/ HttpAnswer \/ HttpNext
  BY Zenon DEF Next, WsOpen, WsSend, WsLeave, WsReceive, WsAnswer, WsIdle, SseStart, SseBatch, SseDone, SseDrop
<1> QED
  BY Zenon, <1>1, <1>2, <1>3, <1>4, <1>5 DEF vars

\* The rows of a query
LEMMA QueryRowsAre ==
    ASSUME NEW rows \in Rows, QueryRows(rows) # Failed
    PROVE  IsSeq(QueryRows(rows).xs) /\ Len(QueryRows(rows).xs) = Len(rows) /\ Len(rows) \in Nat
<1> DEFINE xs == [i \in 1..Len(rows) |-> ResultValue(rows[i])]
<1>1. QueryRows(rows).xs = xs
  BY Zenon DEF QueryRows, Vector, Value
<1>2. Len(rows) \in Nat
  BY Zenon, AnswersAssumption
<1>3. xs = [i \in 1..Len(rows) |-> xs[i]]
  OBVIOUS
<1> HIDE DEF xs
<1> QED
  BY Zenon, <1>1, <1>2, <1>3, FunctionSeq

\* Chunks are the whole of the rows.
LEMMA ChunksWhole ==
    ASSUME NEW xs, IsSeq(xs), NEW size \in Nat \ {0}, NEW chunks, chunks = Chunks(xs, size)
    PROVE  /\ Joined([i \in 1..Len(chunks) |-> chunks[i].xs]) = xs
           /\ \A i \in 1..Len(chunks) : Len(chunks[i].xs) \in 1..size
<1>1. PICK S : xs \in Seq(S)
  BY Zenon DEF IsSeq
<1>2. PICK n \in Nat : n = ChunkCount(Len(xs), size) /\ Len(xs) <= size * n /\ size * n < Len(xs) + size
  BY Zenon, SeqFacts, ChunkCountFits
<1>3. chunks = [i \in 1..n |-> Vector(Chunk(xs, size * (i - 1) + 1, size))]
  BY Zenon, <1>2 DEF Chunks
<1>4. Len(chunks) = n
  BY <1>3
<1>5. ASSUME NEW i \in 1..n
      PROVE  chunks[i].xs = Chunk(xs, size * (i - 1) + 1, size)
  <2>1. chunks[i] = Vector(Chunk(xs, size * (i - 1) + 1, size))
    BY Zenon, <1>3
  <2> QED
    BY <2>1 DEF Vector, Value
<1>6. [i \in 1..n |-> chunks[i].xs] = [i \in 1..n |-> Chunk(xs, size * (i - 1) + 1, size)]
  BY Zenon, <1>5
<1>7. Joined([i \in 1..n |-> Chunk(xs, size * (i - 1) + 1, size)]) = xs
  BY Zenon, <1>1, <1>2, ChunksJoin
<1>8. ASSUME NEW i \in 1..n
      PROVE  size * (i - 1) + 1 \in 1..Len(xs)
  <2>1. size * (i - 1) + size = size * i /\ size * i <= size * n /\ size * (i - 1) \in Nat
    OBVIOUS
  <2>2. Len(xs) \in Nat
    BY Zenon, SeqFacts
  <2> QED
    BY <1>2, <2>1, <2>2
<1>9. ASSUME NEW i \in 1..n
      PROVE  Len(chunks[i].xs) \in 1..size
  BY Zenon, <1>5, <1>8, ChunkIs
<1> QED
  BY Zenon, <1>4, <1>6, <1>7, <1>9

\* What the answer to a qseq holds
SizeOf(size) == IF size = None THEN 1000 ELSE size.n
ChunksOf(rows, n) == Chunks(QueryRows(rows).xs, IF n < 0 THEN Len(rows) + 1 ELSE n)

LEMMA MapFields ==
    ASSUME NEW xs
    PROVE  Success(Map(xs)).v.xs = xs
BY DEF Success, Map, Value

LEMMA QseqIs ==
    ASSUME NEW rows, NEW size, NEW a, a = QseqAnswer(rows, size), a.ok
    PROVE  /\ SizeOf(size) # 0 /\ QueryRows(rows) # Failed
           /\ a.v.xs[2].xs = ChunksOf(rows, SizeOf(size))
           /\ a.v.xs[4].n = Len(rows) /\ a.v.xs[6].n = SizeOf(size)
<1> DEFINE n == SizeOf(size)
           chunks == ChunksOf(rows, n)
           items == <<Keyword(Word("chunks")), Vector(chunks), Keyword(Word("total-count")), Integer(Len(rows)),
                      Keyword(Word("chunk-size")), Integer(n)>>
<1>1. a = IF QueryRows(rows) = Failed THEN Fault("internal") ELSE IF n = 0 THEN Panic ELSE Success(Map(items))
  BY Zenon DEF QseqAnswer, SizeOf, ChunksOf
<1> HIDE DEF n, chunks
<1>2. ~Fault("internal").ok /\ ~Panic.ok
  BY Zenon DEF Fault, Anomaly, Panic
<1>3. QueryRows(rows) # Failed /\ n # 0 /\ a = Success(Map(items))
  BY Zenon, <1>1, <1>2
<1>4. a.v.xs = items
  <2> HIDE DEF items
  <2>1. Success(Map(items)).v.xs = items
    BY Zenon, MapFields
  <2> QED
    BY Zenon, <1>3, <2>1
<1>5. items[2] = Vector(chunks) /\ items[4] = Integer(Len(rows)) /\ items[6] = Integer(n)
  OBVIOUS
<1>6. Vector(chunks).xs = chunks /\ Integer(Len(rows)).n = Len(rows) /\ Integer(n).n = n
  BY Zenon DEF Vector, Integer, Value
<1> HIDE DEF items
<1> QED
  BY Zenon, <1>3, <1>4, <1>5, <1>6 DEF n, chunks

LEMMA QseqWhole == HttpInv => ChunksComplete
<1> SUFFICES ASSUME HttpInv, http.st = "answered", http.name = "qseq", http.answer.ok
             PROVE  LET chunks == http.answer.v.xs[2].xs
                        size == http.answer.v.xs[6].n
                        all == Joined([i \in 1..Len(chunks) |-> chunks[i].xs])
                    IN  /\ \E rows \in Rows : all = QueryRows(rows).xs
                        /\ \A i \in 1..Len(chunks) : chunks[i].xs # <<>> /\ (size > 0 => Len(chunks[i].xs) <= size)
                        /\ http.answer.v.xs[4].n = Len(all)
  BY Zenon DEF ChunksComplete
<1>1. PICK rows \in Rows : \E size : SizeRead(size) /\ http.answer = QseqAnswer(rows, size)
  BY Zenon DEF HttpInv
<1>2. PICK size : SizeRead(size) /\ http.answer = QseqAnswer(rows, size)
  BY Zenon, <1>1
<1> DEFINE n == SizeOf(size)
<1>3. /\ n # 0 /\ QueryRows(rows) # Failed
      /\ http.answer.v.xs[2].xs = ChunksOf(rows, n)
      /\ http.answer.v.xs[4].n = Len(rows) /\ http.answer.v.xs[6].n = n
  <2>1. PICK a : a = http.answer
    BY Zenon
  <2>2. a = QseqAnswer(rows, size) /\ a.ok
    BY Zenon, <1>2, <2>1
  <2>3. /\ n # 0 /\ QueryRows(rows) # Failed
        /\ a.v.xs[2].xs = ChunksOf(rows, n)
        /\ a.v.xs[4].n = Len(rows) /\ a.v.xs[6].n = n
    BY SMT, <2>2, QseqIs
  <2> QED
    BY Zenon, <2>1, <2>3
<1>4. n \in Int
  <2>1. 1000 \in Int
    OBVIOUS
  <2> QED
    BY SMT, <1>2, <2>1 DEF SizeRead, SizeOf
<1> HIDE DEF n
<1>5. IsSeq(QueryRows(rows).xs) /\ Len(QueryRows(rows).xs) = Len(rows) /\ Len(rows) \in Nat
  BY Zenon, <1>3, QueryRowsAre
<1>6. PICK m : m = IF n < 0 THEN Len(rows) + 1 ELSE n
  BY Zenon
<1>7. m \in Nat \ {0} /\ (n > 0 => m = n)
  BY <1>3, <1>4, <1>5, <1>6
<1> DEFINE chunks == http.answer.v.xs[2].xs
           all == Joined([i \in 1..Len(chunks) |-> chunks[i].xs])
<1>8. chunks = Chunks(QueryRows(rows).xs, m)
  BY Zenon, <1>3, <1>6 DEF ChunksOf
<1>9. all = QueryRows(rows).xs /\ \A i \in 1..Len(chunks) : Len(chunks[i].xs) \in 1..m
  <2>1. PICK c, xs : c = chunks /\ xs = QueryRows(rows).xs
    BY Zenon
  <2> HIDE DEF chunks
  <2>2. c = Chunks(xs, m) /\ IsSeq(xs)
    BY Zenon, <1>5, <1>8, <2>1
  <2>3. Joined([i \in 1..Len(c) |-> c[i].xs]) = xs /\ \A i \in 1..Len(c) : Len(c[i].xs) \in 1..m
    BY Zenon, <1>7, <2>2, ChunksWhole
  <2> QED
    BY Zenon, <2>1, <2>3
<1> HIDE DEF chunks, all
<1>10. ASSUME NEW i \in 1..Len(chunks)
       PROVE  chunks[i].xs # <<>> /\ (n > 0 => Len(chunks[i].xs) <= n)
  <2>1. Len(chunks[i].xs) \in 1..m
    BY Zenon, <1>9
  <2>2. Len(<<>>) = 0
    BY Zenon, EmptyIsSeq
  <2>3. Len(chunks[i].xs) # 0 /\ (n > 0 => Len(chunks[i].xs) <= n)
    BY <1>7, <2>1
  <2> QED
    BY Zenon, <2>2, <2>3
<1>11. Len(all) = Len(rows)
  BY Zenon, <1>5, <1>9
<1> QED
  BY Zenon, <1>3, <1>9, <1>10, <1>11 DEF chunks, all

-----------------------------------------------------------------------------
(* The socket.  AnswersPair, as a statement about the frames sent, how many *)
(* of them were taken, those without an answer, and the answers.            *)

RequestsIn(sent, n) == {i \in 1..n : IsRequest(sent[i])}
AnswersIn(out) == {i \in 1..Len(out) : out[i].k = "answer"}
Answers1(sent, o) ==
    \E end \in Handled(FrameOp[sent[o.to]], o.dbs) : o.body = FrameReply(sent[o.to], end.answer)

Paired(sent, n, open, out, gone) ==
    /\ \A i, j \in AnswersIn(out) : i < j => out[i].to < out[j].to
    /\ \A i \in AnswersIn(out) : out[i].to \in RequestsIn(sent, n) \ open /\ Answers1(sent, out[i])
    /\ ~gone => RequestsIn(sent, n) \ open \subseteq {out[i].to : i \in AnswersIn(out)}

LEMMA PairedIs == AnswersPair <=> Paired(ws.sent, Taken, Unanswered, ws.out, ws.gone)
BY Zenon DEF AnswersPair, Paired, AnswersSent, TakenRequests, RequestsIn, AnswersIn, Answers1

\* Another frame sent
LEMMA PairedSent ==
    ASSUME NEW sent, IsSeq(sent), NEW f, NEW n \in 0..Len(sent), NEW open, NEW out, NEW gone,
           Paired(sent, n, open, out, gone)
    PROVE  Paired(Append(sent, f), n, open, out, gone)
<1> DEFINE more == Append(sent, f)
<1>1. \A i \in 1..n : more[i] = sent[i]
  <2>1. \A i \in 1..Len(sent) : more[i] = sent[i]
    BY SMT, Appended
  <2>2. Len(sent) \in Nat
    BY Zenon, SeqFacts
  <2>3. \A i \in 1..n : i \in 1..Len(sent)
    BY <2>2
  <2> QED
    BY Zenon, <2>1, <2>3
<1> HIDE DEF more
<1>2. RequestsIn(more, n) = RequestsIn(sent, n)
  BY Zenon, <1>1 DEF RequestsIn
<1>3. ASSUME NEW i \in AnswersIn(out)
      PROVE  Answers1(more, out[i])
  <2>1. out[i].to \in 1..n /\ Answers1(sent, out[i])
    BY Zenon DEF Paired, RequestsIn
  <2>2. more[out[i].to] = sent[out[i].to]
    BY Zenon, <1>1, <2>1
  <2> QED
    BY Zenon, <2>1, <2>2 DEF Answers1
<1> QED
  BY Zenon, <1>2, <1>3 DEF Paired, more

\* Another frame from the handler
LEMMA AnswersMore ==
    ASSUME NEW out, IsSeq(out), NEW o
    PROVE  /\ \A i \in AnswersIn(out) : i \in 1..Len(out) /\ i < Len(out) + 1 /\ Append(out, o)[i] = out[i]
           /\ Append(out, o)[Len(out) + 1] = o /\ Len(out) + 1 \in Nat
           /\ o.k = "answer" => AnswersIn(Append(out, o)) = AnswersIn(out) \cup {Len(out) + 1}
           /\ o.k # "answer" => AnswersIn(Append(out, o)) = AnswersIn(out)
<1> DEFINE more == Append(out, o)
<1>1. /\ Len(more) = Len(out) + 1 /\ more[Len(out) + 1] = o
      /\ \A i \in 1..Len(out) : more[i] = out[i]
  BY SMT, Appended
<1> HIDE DEF more
<1>2. Len(out) \in Nat
  BY Zenon, SeqFacts
<1>3. Len(out) + 1 \in Nat /\ 1..(Len(out) + 1) = 1..Len(out) \cup {Len(out) + 1} /\ \A i \in 1..Len(out) : i < Len(out) + 1
  BY <1>2
<1>4. o.k = "answer" => AnswersIn(more) = AnswersIn(out) \cup {Len(out) + 1}
  BY Zenon, <1>1, <1>3 DEF AnswersIn
<1>5. o.k # "answer" => AnswersIn(more) = AnswersIn(out)
  BY Zenon, <1>1, <1>3 DEF AnswersIn
<1> QED
  BY Zenon, <1>1, <1>3, <1>4, <1>5 DEF AnswersIn, more

LEMMA PairedOther ==
    ASSUME NEW sent, NEW n, NEW open, NEW out, IsSeq(out), NEW o, NEW gone, o.k # "answer",
           Paired(sent, n, open, out, gone)
    PROVE  Paired(sent, n, open, Append(out, o), gone)
<1> DEFINE more == Append(out, o)
<1>1. AnswersIn(more) = AnswersIn(out) /\ \A i \in AnswersIn(out) : more[i] = out[i]
  BY SMT, AnswersMore
<1> HIDE DEF more
<1>2. {more[i].to : i \in AnswersIn(more)} = {out[i].to : i \in AnswersIn(out)}
  BY Zenon, <1>1
<1>3. ASSUME NEW i \in AnswersIn(more), NEW j \in AnswersIn(more), i < j
      PROVE  more[i].to < more[j].to
  <2>1. i \in AnswersIn(out) /\ j \in AnswersIn(out) /\ more[i] = out[i] /\ more[j] = out[j]
    BY Zenon, <1>1
  <2>2. out[i].to < out[j].to
    BY Zenon, <1>3, <2>1 DEF Paired
  <2> QED
    BY Zenon, <2>1, <2>2
<1>4. ASSUME NEW i \in AnswersIn(more)
      PROVE  more[i].to \in RequestsIn(sent, n) \ open /\ Answers1(sent, more[i])
  BY Zenon, <1>1 DEF Paired
<1>5. ~gone => RequestsIn(sent, n) \ open \subseteq {more[i].to : i \in AnswersIn(more)}
  BY Zenon, <1>2 DEF Paired
<1> QED
  BY Zenon, <1>3, <1>4, <1>5 DEF Paired, more

\* The answer to the last frame taken
LEMMA PairedAnswer ==
    ASSUME NEW sent, NEW n \in Nat, NEW out, IsSeq(out), NEW o, NEW gone, o.k = "answer", o.to = n,
           n \in RequestsIn(sent, n), Answers1(sent, o), Paired(sent, n, {n}, out, gone)
    PROVE  Paired(sent, n, {}, Append(out, o), gone)
<1> DEFINE more == Append(out, o)
           last == Len(out) + 1
<1>1. /\ AnswersIn(more) = AnswersIn(out) \cup {last} /\ more[last] = o /\ last \in Nat
      /\ \A i \in AnswersIn(out) : more[i] = out[i] /\ i < last
  <2>1. AnswersIn(more) = AnswersIn(out) \cup {last}
    BY Zenon, AnswersMore
  <2>2. more[last] = o /\ last \in Nat
    BY Zenon, AnswersMore
  <2>3. ASSUME NEW i \in AnswersIn(out)
        PROVE  more[i] = out[i] /\ i < last
    BY AnswersMore
  <2> QED
    BY Zenon, <2>1, <2>2, <2>3
<1> HIDE DEF more
<1>2. ASSUME NEW i \in AnswersIn(out)
      PROVE  /\ more[i].to \in RequestsIn(sent, n) \ {n} /\ more[i].to < n /\ Answers1(sent, more[i])
             /\ i \in Nat /\ ~(last < i)
  <2>1. out[i].to \in RequestsIn(sent, n) \ {n} /\ Answers1(sent, out[i])
    BY Zenon DEF Paired
  <2>2. \A k \in RequestsIn(sent, n) \ {n} : k < n
    BY DEF RequestsIn
  <2>3. Len(out) \in Nat
    BY Zenon, SeqFacts
  <2>4. i \in 1..Len(out)
    BY Zenon DEF AnswersIn
  <2>5. i \in Nat /\ ~(last < i)
    BY <2>3, <2>4
  <2> QED
    BY Zenon, <1>1, <2>1, <2>2, <2>5
<1>3. ASSUME NEW i \in AnswersIn(more), NEW j \in AnswersIn(more), i < j
      PROVE  more[i].to < more[j].to
  <2> HIDE DEF last
  <2>1. CASE i \in AnswersIn(out) /\ j \in AnswersIn(out)
    BY Zenon, <1>1, <1>3, <2>1 DEF Paired
  <2>2. CASE i \in AnswersIn(out) /\ j = last
    BY Zenon, <1>1, <1>2, <2>2
  <2>3. CASE i = last
    <3>1. ~(last < last)
      BY <1>1
    <3> QED
      BY Zenon, <1>1, <1>2, <1>3, <2>3, <3>1
  <2> QED
    BY Zenon, <1>1, <2>1, <2>2, <2>3
<1>4. ASSUME NEW i \in AnswersIn(more)
      PROVE  more[i].to \in RequestsIn(sent, n) \ {} /\ Answers1(sent, more[i])
  BY Zenon, <1>1, <1>2
<1>5. ASSUME ~gone, NEW k \in RequestsIn(sent, n) \ {}
      PROVE  k \in {more[i].to : i \in AnswersIn(more)}
  <2>1. CASE k = n
    BY Zenon, <1>1, <2>1
  <2>2. CASE k # n
    <3>1. k \in {out[i].to : i \in AnswersIn(out)}
      BY Zenon, <1>5, <2>2 DEF Paired
    <3> QED
      BY Zenon, <1>1, <3>1
  <2> QED
    BY Zenon, <2>1, <2>2
<1> QED
  BY Zenon, <1>3, <1>4, <1>5 DEF Paired, more

\* Another frame taken, a request or not
LEMMA PairedTaken ==
    ASSUME NEW sent, NEW n \in Nat, NEW out, NEW gone, Paired(sent, n, {}, out, gone)
    PROVE  Paired(sent, n + 1, IF IsRequest(sent[n + 1]) THEN {n + 1} ELSE {}, out, gone)
<1>1. 1..(n + 1) = 1..n \cup {n + 1} /\ n + 1 \notin 1..n
  OBVIOUS
<1>2. RequestsIn(sent, n + 1) \ (IF IsRequest(sent[n + 1]) THEN {n + 1} ELSE {}) = RequestsIn(sent, n)
  BY Zenon, <1>1 DEF RequestsIn
<1>3. RequestsIn(sent, n) \ {} = RequestsIn(sent, n)
  BY Zenon
<1> QED
  BY Zenon, <1>2, <1>3 DEF Paired

\* The client has gone.
LEMMA PairedGone ==
    ASSUME NEW sent, NEW n, NEW open, NEW out, NEW gone, Paired(sent, n, open, out, gone)
    PROVE  Paired(sent, n, open, out, TRUE) /\ Paired(sent, n, {}, out, TRUE)
BY Zenon DEF Paired

-----------------------------------------------------------------------------
(* The states of the connection *)

\* The frames on their way are the last ones sent.
Queued(sent, net) ==
    /\ Len(net) <= Len(sent)
    /\ \A i \in 1..Len(net) : net[i] = sent[Len(sent) - Len(net) + i]

Open(st, busy, n) == IF busy # NoFrame \/ st = "crashed" THEN {n} ELSE {}

WsGood(st, net, busy, out, sent, gone) ==
    /\ st \in {"new", "open", "closed", "crashed"}
    /\ IsSeq(net) /\ IsSeq(out) /\ IsSeq(sent) /\ Len(sent) <= MaxFrames
    /\ Queued(sent, net) /\ \A i \in 1..Len(sent) : sent[i] \in Frames
    /\ st = "new" => out = <<>>
    /\ st # "open" => busy = NoFrame
    /\ busy # NoFrame =>
          /\ Len(sent) - Len(net) \in RequestsIn(sent, Len(sent) - Len(net))
          /\ busy = sent[Len(sent) - Len(net)]
    /\ Paired(sent, Len(sent) - Len(net), Open(st, busy, Len(sent) - Len(net)), out, gone)

WsRecord(st, net, busy, out, sent, gone) ==
    [st |-> st, net |-> net, busy |-> busy, out |-> out, sent |-> sent, gone |-> gone]

WsInv ==
    /\ ws = WsRecord(ws.st, ws.net, ws.busy, ws.out, ws.sent, ws.gone)
    /\ WsGood(ws.st, ws.net, ws.busy, ws.out, ws.sent, ws.gone)

\* How many frames were taken
LEMMA TakenIs ==
    ASSUME NEW net, IsSeq(net), NEW sent, IsSeq(sent), Queued(sent, net)
    PROVE  Len(net) \in Nat /\ Len(sent) \in Nat /\ Len(sent) - Len(net) \in 0..Len(sent)
<1>1. Len(net) \in Nat /\ Len(sent) \in Nat /\ Len(net) <= Len(sent)
  BY Zenon, SeqFacts DEF Queued
<1> QED
  BY <1>1

\* The handler has left its loop, or the client has.
LEMMA GoodClosed ==
    ASSUME NEW st, NEW net, NEW out, NEW sent, NEW gone, WsGood(st, net, NoFrame, out, sent, gone), st # "crashed"
    PROVE  WsGood("closed", net, NoFrame, out, sent, gone)
<1>1. Open(st, NoFrame, Len(sent) - Len(net)) = Open("closed", NoFrame, Len(sent) - Len(net))
  BY DEF Open
<1>2. "closed" \in {"new", "open", "closed", "crashed"} /\ "closed" # "new"
  OBVIOUS
<1> QED
  BY Zenon, <1>1, <1>2 DEF WsGood

LEMMA GoodGone ==
    ASSUME NEW st, NEW net, NEW busy, NEW out, NEW sent, NEW gone, WsGood(st, net, busy, out, sent, gone)
    PROVE  WsGood(st, net, busy, out, sent, TRUE)
BY Zenon, PairedGone DEF WsGood

\* The handler sends a frame that is no answer.
LEMMA GoodOther ==
    ASSUME NEW net, NEW busy, NEW out, NEW sent, NEW gone, NEW o,
           WsGood("open", net, busy, out, sent, gone), o.k # "answer"
    PROVE  WsGood("open", net, busy, Append(out, o), sent, gone)
<1>1. IsSeq(Append(out, o))
  BY Zenon, Appended DEF WsGood
<1>2. Paired(sent, Len(sent) - Len(net), Open("open", busy, Len(sent) - Len(net)), Append(out, o), gone)
  BY Zenon, PairedOther DEF WsGood
<1>3. "open" # "new"
  OBVIOUS
<1> QED
  BY Zenon, <1>1, <1>2, <1>3 DEF WsGood

LEMMA GoodOpened ==
    ASSUME NEW net, NEW busy, NEW out, NEW sent, NEW gone, NEW o,
           WsGood("new", net, busy, out, sent, gone), o.k # "answer"
    PROVE  WsGood("open", net, busy, <<o>>, sent, gone)
<1>1. out = <<>> /\ busy = NoFrame
  <2>1. "new" # "open"
    OBVIOUS
  <2> QED
    BY Zenon, <2>1 DEF WsGood
<1>2. <<o>> = Append(out, o)
  BY <1>1
<1>3. Open("new", busy, Len(sent) - Len(net)) = Open("open", busy, Len(sent) - Len(net))
  BY DEF Open
<1>4. Paired(sent, Len(sent) - Len(net), Open("open", busy, Len(sent) - Len(net)), <<o>>, gone)
  BY Zenon, <1>2, <1>3, PairedOther DEF WsGood
<1>5. "open" \in {"new", "open", "closed", "crashed"} /\ "open" # "new" /\ IsSeq(<<o>>)
  BY Zenon, OneSeq
<1> QED
  BY Zenon, <1>1, <1>4, <1>5 DEF WsGood

\* The client sends a frame.
LEMMA GoodSent ==
    ASSUME NEW st, NEW net, NEW busy, NEW out, NEW sent, NEW gone, NEW f \in Frames,
           WsGood(st, net, busy, out, sent, gone), Len(sent) < MaxFrames
    PROVE  WsGood(st, Append(net, f), busy, out, Append(sent, f), gone)
<1> DEFINE net2 == Append(net, f)
           sent2 == Append(sent, f)
<1>1. /\ IsSeq(net2) /\ Len(net2) = Len(net) + 1 /\ net2[Len(net) + 1] = f
      /\ \A i \in 1..Len(net) : net2[i] = net[i]
  BY SMT, Appended DEF WsGood
<1>2. /\ IsSeq(sent2) /\ Len(sent2) = Len(sent) + 1 /\ sent2[Len(sent) + 1] = f
      /\ \A i \in 1..Len(sent) : sent2[i] = sent[i]
  BY SMT, Appended DEF WsGood
<1>3. Paired(sent2, Len(sent) - Len(net), Open(st, busy, Len(sent) - Len(net)), out, gone)
  BY Zenon, TakenIs, PairedSent DEF WsGood
<1> HIDE DEF net2, sent2
<1>4. /\ Len(net) \in Nat /\ Len(sent) \in Nat /\ Len(net) <= Len(sent)
      /\ \A i \in 1..Len(net) : net[i] = sent[Len(sent) - Len(net) + i]
  BY Zenon, SeqFacts DEF WsGood, Queued
<1>5. Len(sent2) - Len(net2) = Len(sent) - Len(net) /\ Len(net2) <= Len(sent2) /\ Len(sent2) <= MaxFrames
  BY <1>1, <1>2, <1>4, MaxFramesAssumption
<1>6. ASSUME NEW i \in 1..Len(net2)
      PROVE  net2[i] = sent2[Len(sent) - Len(net) + i]
  <2>1. CASE i = Len(net) + 1
    <3>1. Len(sent) - Len(net) + i = Len(sent) + 1
      BY <1>4, <2>1
    <3> QED
      BY Zenon, <1>1, <1>2, <2>1, <3>1
  <2>2. CASE i # Len(net) + 1
    <3>1. i \in 1..Len(net) /\ Len(sent) - Len(net) + i \in 1..Len(sent)
      BY <1>1, <1>4, <2>2
    <3> QED
      BY Zenon, <1>1, <1>2, <1>4, <3>1
  <2> QED
    BY Zenon, <2>1, <2>2
<1>7. ASSUME NEW i \in 1..Len(sent2)
      PROVE  sent2[i] \in Frames
  <2>1. i = Len(sent) + 1 \/ i \in 1..Len(sent)
    BY <1>2, <1>4
  <2> QED
    BY Zenon, <1>2, <2>1 DEF WsGood
<1>8. ASSUME busy # NoFrame
      PROVE  /\ Len(sent) - Len(net) \in RequestsIn(sent2, Len(sent) - Len(net))
             /\ busy = sent2[Len(sent) - Len(net)]
  <2>1. /\ Len(sent) - Len(net) \in 1..(Len(sent) - Len(net)) /\ IsRequest(sent[Len(sent) - Len(net)])
        /\ busy = sent[Len(sent) - Len(net)]
    BY Zenon, <1>8 DEF WsGood, RequestsIn
  <2>2. Len(sent) - Len(net) \in 1..Len(sent)
    BY <1>4, <2>1
  <2> QED
    BY Zenon, <1>2, <2>1, <2>2 DEF RequestsIn
<1>9. Queued(sent2, net2)
  BY Zenon, <1>5, <1>6 DEF Queued
<1>10. WsGood(st, net2, busy, out, sent2, gone)
  BY Zenon, <1>1, <1>2, <1>3, <1>5, <1>7, <1>8, <1>9 DEF WsGood
<1> QED
  BY Zenon, <1>10 DEF net2, sent2

\* The handler takes a frame from the socket.
LEMMA GoodTaken ==
    ASSUME NEW net, NEW out, NEW sent, NEW gone, WsGood("open", net, NoFrame, out, sent, gone), net # <<>>
    PROVE  /\ net[1] \in Frames
           /\ IsRequest(net[1]) => WsGood("open", Tail(net), net[1], out, sent, gone)
           /\ ~IsRequest(net[1]) => WsGood("open", Tail(net), NoFrame, out, sent, gone)
<1> DEFINE n == Len(sent) - Len(net)
           rest == Tail(net)
<1>1. /\ IsSeq(rest) /\ Len(rest) = Len(net) - 1 /\ Len(net) \in Nat \ {0}
      /\ \A i \in 1..Len(rest) : rest[i] = net[i + 1]
  BY Zenon, Tailed DEF WsGood
<1> HIDE DEF rest
<1>2. /\ Len(sent) \in Nat /\ Len(net) <= Len(sent)
      /\ \A i \in 1..Len(net) : net[i] = sent[n + i]
  BY Zenon, SeqFacts DEF WsGood, Queued
<1>3. n \in Nat /\ n + 1 \in 1..Len(sent) /\ Len(sent) - Len(rest) = n + 1 /\ 1 \in 1..Len(net) /\ Len(rest) <= Len(sent)
      /\ n + 1 \in 1..(n + 1)
  BY <1>1, <1>2
<1>4. net[1] = sent[n + 1] /\ net[1] \in Frames
  BY Zenon, <1>2, <1>3 DEF WsGood
<1>5. Queued(sent, rest)
  <2>1. ASSUME NEW i \in 1..Len(rest)
        PROVE  i + 1 \in 1..Len(net) /\ n + (i + 1) = (n + 1) + i
    BY <1>1, <1>3
  <2> HIDE DEF n
  <2>2. ASSUME NEW i \in 1..Len(rest)
        PROVE  rest[i] = sent[(n + 1) + i]
    BY Zenon, <1>1, <1>2, <2>1
  <2> QED
    BY Zenon, <1>3, <2>2 DEF Queued
<1> HIDE DEF n
<1>6. Paired(sent, n + 1, IF IsRequest(sent[n + 1]) THEN {n + 1} ELSE {}, out, gone)
  <2>1. Open("open", NoFrame, n) = {}
    BY DEF Open
  <2> QED
    BY Zenon, <1>3, <2>1, PairedTaken DEF WsGood, n
<1>7. ASSUME IsRequest(net[1])
      PROVE  WsGood("open", rest, net[1], out, sent, gone)
  <2>1. net[1] # NoFrame
    BY <1>7 DEF IsRequest, NoFrame
  <2>2. Open("open", net[1], n + 1) = IF IsRequest(sent[n + 1]) THEN {n + 1} ELSE {}
    BY Zenon, <1>4, <1>7, <2>1 DEF Open
  <2>3. n + 1 \in RequestsIn(sent, n + 1)
    BY Zenon, <1>3, <1>4, <1>7 DEF RequestsIn
  <2> QED
    BY Zenon, <1>1, <1>3, <1>4, <1>5, <1>6, <2>2, <2>3 DEF WsGood
<1>8. ASSUME ~IsRequest(net[1])
      PROVE  WsGood("open", rest, NoFrame, out, sent, gone)
  <2>1. Open("open", NoFrame, n + 1) = IF IsRequest(sent[n + 1]) THEN {n + 1} ELSE {}
    <3>1. Open("open", NoFrame, n + 1) = {}
      BY DEF Open
    <3> QED
      BY Zenon, <1>4, <1>8, <3>1
  <2> QED
    BY Zenon, <1>1, <1>3, <1>5, <1>6, <2>1 DEF WsGood
<1> QED
  BY Zenon, <1>4, <1>7, <1>8 DEF rest

\* The operation panics, or its answer cannot be sent.
LEMMA GoodCrashed ==
    ASSUME NEW net, NEW busy, NEW out, NEW sent, NEW gone, WsGood("open", net, busy, out, sent, gone), busy # NoFrame
    PROVE  WsGood("crashed", net, NoFrame, out, sent, gone)
<1>1. Open("open", busy, Len(sent) - Len(net)) = Open("crashed", NoFrame, Len(sent) - Len(net))
  BY Zenon DEF Open
<1>2. "crashed" \in {"new", "open", "closed", "crashed"} /\ "crashed" # "new"
  OBVIOUS
<1> QED
  BY Zenon, <1>1, <1>2 DEF WsGood

LEMMA GoodLost ==
    ASSUME NEW net, NEW busy, NEW out, NEW sent, NEW gone, WsGood("open", net, busy, out, sent, gone), gone
    PROVE  WsGood("closed", net, NoFrame, out, sent, gone)
<1>1. Open("closed", NoFrame, Len(sent) - Len(net)) = {}
  BY DEF Open
<1>2. Paired(sent, Len(sent) - Len(net), {}, out, gone)
  BY Zenon DEF WsGood, Paired
<1>3. "closed" \in {"new", "open", "closed", "crashed"} /\ "closed" # "new"
  OBVIOUS
<1> QED
  BY Zenon, <1>1, <1>2, <1>3 DEF WsGood

\* The answer is sent.
LEMMA GoodAnswered ==
    ASSUME NEW net, NEW busy, NEW out, NEW sent, NEW gone, WsGood("open", net, busy, out, sent, gone), busy # NoFrame,
           NEW o, o.k = "answer", o.to = Len(sent) - Len(net), Answers1(sent, o)
    PROVE  WsGood("open", net, NoFrame, Append(out, o), sent, gone)
<1>1. IsSeq(Append(out, o))
  BY Zenon, Appended DEF WsGood
<1>2. Len(sent) - Len(net) \in Nat
  <2>1. Len(net) \in Nat /\ Len(sent) \in Nat /\ Len(sent) - Len(net) \in 0..Len(sent)
    BY Zenon, TakenIs DEF WsGood
  <2> QED
    BY <2>1
<1>3. /\ Open("open", busy, Len(sent) - Len(net)) = {Len(sent) - Len(net)}
      /\ Open("open", NoFrame, Len(sent) - Len(net)) = {}
  BY DEF Open
<1>4. Paired(sent, Len(sent) - Len(net), {}, Append(out, o), gone)
  BY Zenon, <1>2, <1>3, PairedAnswer DEF WsGood
<1>5. "open" # "new"
  OBVIOUS
<1> QED
  BY Zenon, <1>1, <1>3, <1>4, <1>5 DEF WsGood

LEMMA WsInitially == Init => WsInv
<1> SUFFICES ASSUME Init PROVE WsInv
  OBVIOUS
<1>1. ws = WsRecord("new", <<>>, NoFrame, <<>>, <<>>, FALSE)
  BY Zenon DEF Init, WsRecord
<1>2. /\ ws.st = "new" /\ ws.net = <<>> /\ ws.busy = NoFrame /\ ws.out = <<>> /\ ws.sent = <<>>
      /\ ws.gone = FALSE
  BY Zenon, <1>1 DEF WsRecord
<1>3. PICK e : e = <<>>
  OBVIOUS
<1>4. IsSeq(e) /\ Len(e) = 0
  BY Zenon, <1>3, EmptyIsSeq
<1>5. Len(e) - Len(e) = 0 /\ 1..Len(e) = {} /\ Len(e) <= Len(e) /\ Len(e) <= MaxFrames /\ 1..0 = {}
  BY <1>4, MaxFramesAssumption
<1>6. Paired(e, 0, Open("new", NoFrame, 0), e, FALSE)
  BY Zenon, <1>5 DEF Paired, RequestsIn, AnswersIn
<1>7. WsGood("new", e, NoFrame, e, e, FALSE)
  BY Zenon, <1>3, <1>4, <1>5, <1>6 DEF WsGood, Queued
<1> QED
  BY Zenon, <1>1, <1>2, <1>3, <1>7 DEF WsInv

LEMMA WsStep == WsInv /\ [Next]_vars => WsInv'
<1> SUFFICES ASSUME WsInv, [Next]_vars PROVE WsInv'
  OBVIOUS
<1>1. CASE UNCHANGED ws
  BY Zenon, <1>1 DEF WsInv
<1>2. PICK st, net, busy, out, sent, gone :
        ws = WsRecord(st, net, busy, out, sent, gone) /\ WsGood(st, net, busy, out, sent, gone)
  BY Zenon DEF WsInv
<1>3. ws.st = st /\ ws.net = net /\ ws.busy = busy /\ ws.out = out /\ ws.sent = sent /\ ws.gone = gone
  BY Zenon, <1>2 DEF WsRecord
<1>4. ASSUME NEW st2, NEW net2, NEW busy2, NEW out2, NEW sent2, NEW gone2,
             ws' = WsRecord(st2, net2, busy2, out2, sent2, gone2), WsGood(st2, net2, busy2, out2, sent2, gone2)
      PROVE  WsInv'
  <2>1. /\ ws'.st = st2 /\ ws'.net = net2 /\ ws'.busy = busy2 /\ ws'.out = out2 /\ ws'.sent = sent2
        /\ ws'.gone = gone2
    BY Zenon, <1>4 DEF WsRecord
  <2> QED
    BY Zenon, <1>4, <2>1 DEF WsInv
<1>5. CASE WsOpen
  <2>1. st = "new"
    BY Zenon, <1>3, <1>5 DEF WsOpen
  <2>2. CASE gone
    <3>1. ws' = [ws EXCEPT !.st = "closed"]
      BY Zenon, <1>3, <1>5, <2>2 DEF WsOpen
    <3>2. ws' = WsRecord("closed", net, busy, out, sent, gone)
      BY Zenon, <1>2, <3>1 DEF WsRecord
    <3>3. busy = NoFrame /\ st # "crashed"
      BY <1>2, <2>1 DEF WsGood
    <3> QED
      BY Zenon, <1>2, <1>4, <3>2, <3>3, GoodClosed
  <2>3. CASE ~gone
    <3>1. PICK o : o = Reply("welcome", WriteBody("json", Welcome), 0)
      OBVIOUS
    <3>2. ws' = [ws EXCEPT !.st = "open", !.out = <<o>>]
      BY Zenon, <1>3, <1>5, <2>3, <3>1 DEF WsOpen
    <3>3. ws' = WsRecord("open", net, busy, <<o>>, sent, gone)
      BY Zenon, <1>2, <3>2 DEF WsRecord
    <3>4. o.k # "answer"
      BY <3>1 DEF Reply
    <3> QED
      BY <1>2, <1>4, <2>1, <3>3, <3>4, GoodOpened
  <2> QED
    BY Zenon, <2>2, <2>3
<1>6. CASE WsSend
  <2>1. PICK f \in Frames : ws' = [ws EXCEPT !.net = Append(@, f), !.sent = Append(@, f)]
    BY Zenon, <1>6 DEF WsSend
  <2>2. ws' = WsRecord(st, Append(net, f), busy, out, Append(sent, f), gone)
    BY Zenon, <1>2, <1>3, <2>1 DEF WsRecord
  <2>3. Len(sent) < MaxFrames
    BY Zenon, <1>3, <1>6 DEF WsSend
  <2> QED
    BY <1>2, <1>4, <2>2, <2>3, GoodSent
<1>7. CASE WsLeave
  <2>1. ws' = WsRecord(st, net, busy, out, sent, TRUE)
    BY Zenon, <1>2, <1>7 DEF WsLeave, WsRecord
  <2> QED
    BY Zenon, <1>2, <1>4, <2>1, GoodGone
<1>8. CASE WsReceive
  <2>1. st = "open" /\ busy = NoFrame
    BY Zenon, <1>3, <1>8 DEF WsReceive
  <2>2. WsGood("open", net, NoFrame, out, sent, gone)
    BY Zenon, <1>2, <2>1
  <2>3. CASE net = <<>>
    <3>1. ws' = [ws EXCEPT !.st = "closed"]
      BY Zenon, <1>3, <1>8, <2>3 DEF WsReceive
    <3>2. ws' = WsRecord("closed", net, NoFrame, out, sent, gone)
      BY Zenon, <1>2, <2>1, <3>1 DEF WsRecord
    <3>3. "open" # "crashed"
      OBVIOUS
    <3> QED
      BY Zenon, <1>4, <2>2, <3>2, <3>3, GoodClosed
  <2>4. CASE net # <<>>
    <3>1. PICK f, rest : f = net[1] /\ rest = Tail(net)
      BY Zenon
    <3>2. /\ f \in Frames
          /\ IsRequest(f) => WsGood("open", rest, f, out, sent, gone)
          /\ ~IsRequest(f) => WsGood("open", rest, NoFrame, out, sent, gone)
      BY Zenon, <2>2, <2>4, <3>1, GoodTaken
    <3>3. ws' = CASE IsRequest(f) -> [[ws EXCEPT !.net = rest] EXCEPT !.busy = f]
                  [] f.k = "ping" -> IF gone THEN [[ws EXCEPT !.net = rest] EXCEPT !.st = "closed"]
                                     ELSE [[ws EXCEPT !.net = rest] EXCEPT !.out = Append(@, Reply("pong", f.body, 0))]
                  [] f.k = "pong" -> [ws EXCEPT !.net = rest]
                  [] f.k = "close" -> [[ws EXCEPT !.net = rest] EXCEPT !.st = "closed"]
      BY Zenon, <1>3, <1>8, <2>4, <3>1 DEF WsReceive
    <3>4. [ws EXCEPT !.net = rest] = WsRecord("open", rest, NoFrame, out, sent, gone)
      BY <1>2, <2>1 DEF WsRecord
    <3>5. CASE IsRequest(f)
      <4>1. f.k # "ping" /\ f.k # "pong" /\ f.k # "close"
        BY <3>5 DEF IsRequest
      <4>2. ws' = [[ws EXCEPT !.net = rest] EXCEPT !.busy = f]
        BY Zenon, <3>3, <3>5, <4>1
      <4>3. ws' = WsRecord("open", rest, f, out, sent, gone)
        BY Zenon, <3>4, <4>2 DEF WsRecord
      <4> QED
        BY Zenon, <1>4, <3>2, <3>5, <4>3
    <3>6. CASE ~IsRequest(f)
      <4>1. WsGood("open", rest, NoFrame, out, sent, gone) /\ WsGood("closed", rest, NoFrame, out, sent, gone)
        <5>1. "open" # "crashed"
          OBVIOUS
        <5> QED
          BY Zenon, <3>2, <3>6, <5>1, GoodClosed
      <4>2. f.k \in {"ping", "pong", "close"}
        BY Zenon, <3>2, <3>6, FramesAssumption DEF IsRequest
      <4>3. PICK o : o = Reply("pong", f.body, 0)
        OBVIOUS
      <4>4. \/ ws' = [[ws EXCEPT !.net = rest] EXCEPT !.st = "closed"]
            \/ ws' = [[ws EXCEPT !.net = rest] EXCEPT !.out = Append(@, o)]
            \/ ws' = [ws EXCEPT !.net = rest]
        <5>1. PICK k : k = f.k
          OBVIOUS
        <5>2. CASE k = "ping"
          BY Zenon, <3>3, <3>6, <4>3, <5>1, <5>2
        <5>3. CASE k = "pong"
          BY <3>3, <3>6, <5>1, <5>3
        <5>4. CASE k = "close"
          BY <3>3, <3>6, <5>1, <5>4
        <5> QED
          BY Zenon, <4>2, <5>1, <5>2, <5>3, <5>4
      <4>5. \/ ws' = WsRecord("closed", rest, NoFrame, out, sent, gone)
            \/ ws' = WsRecord("open", rest, NoFrame, Append(out, o), sent, gone)
            \/ ws' = WsRecord("open", rest, NoFrame, out, sent, gone)
        BY ZenonT(60), <3>4, <4>4 DEF WsRecord
      <4>6. o.k # "answer"
        BY <4>3 DEF Reply
      <4>7. WsGood("open", rest, NoFrame, Append(out, o), sent, gone)
        BY Zenon, <4>1, <4>6, GoodOther
      <4> QED
        BY Zenon, <1>4, <4>1, <4>5, <4>7
    <3> QED
      BY Zenon, <3>5, <3>6
  <2> QED
    BY Zenon, <2>3, <2>4
<1>9. CASE WsAnswer
  <2>1. st = "open" /\ busy # NoFrame
    BY Zenon, <1>3, <1>9 DEF WsAnswer
  <2>2. WsGood("open", net, busy, out, sent, gone)
    BY Zenon, <1>2, <2>1
  <2>3. PICK end \in Handled(FrameOp[busy], dbs) : Answering(end)
    BY Zenon, <1>3, <1>9 DEF WsAnswer
  <2>4. PICK o : o = Reply("answer", FrameReply(busy, end.answer), Taken)
    OBVIOUS
  <2>5. \/ ws' = [ws EXCEPT !.busy = NoFrame, !.st = "crashed"]
        \/ gone /\ ws' = [ws EXCEPT !.busy = NoFrame, !.st = "closed"]
        \/ ws' = [ws EXCEPT !.busy = NoFrame, !.out = Append(@, o)]
    BY Zenon, <1>3, <2>3, <2>4 DEF Answering
  <2>6. \/ ws' = WsRecord("crashed", net, NoFrame, out, sent, gone)
        \/ gone /\ ws' = WsRecord("closed", net, NoFrame, out, sent, gone)
        \/ ws' = WsRecord("open", net, NoFrame, Append(out, o), sent, gone)
    BY Zenon, <1>2, <2>1, <2>5 DEF WsRecord
  <2>7. o.k = "answer" /\ o.to = Taken /\ o.body = FrameReply(busy, end.answer) /\ o.dbs = dbs
    BY <2>4 DEF Reply
  <2>8. o.to = Len(sent) - Len(net)
    BY Zenon, <1>3, <2>7 DEF Taken
  <2>9. busy = sent[o.to]
    BY Zenon, <2>1, <2>2, <2>8 DEF WsGood
  <2>10. Answers1(sent, o)
    BY Zenon, <2>3, <2>7, <2>9 DEF Answers1
  <2>11. WsGood("open", net, NoFrame, Append(out, o), sent, gone)
    BY Zenon, <2>1, <2>2, <2>7, <2>8, <2>10, GoodAnswered
  <2>12. WsGood("crashed", net, NoFrame, out, sent, gone)
    BY Zenon, <2>1, <2>2, GoodCrashed
  <2>13. gone => WsGood("closed", net, NoFrame, out, sent, gone)
    BY Zenon, <2>2, GoodLost
  <2> QED
    BY Zenon, <1>4, <2>6, <2>11, <2>12, <2>13
<1>10. CASE WsIdle
  <2>1. st = "open" /\ busy = NoFrame
    BY Zenon, <1>3, <1>10 DEF WsIdle
  <2>2. PICK o : o = Reply("timeout", WriteBody("json", IdleAnomaly), 0)
    OBVIOUS
  <2>3. ws' = WsRecord("closed", net, NoFrame, Append(out, o), sent, gone)
    BY Zenon, <1>2, <1>10, <2>1, <2>2 DEF WsIdle, WsRecord
  <2>4. o.k # "answer"
    BY <2>2 DEF Reply
  <2>5. WsGood("open", net, NoFrame, Append(out, o), sent, gone) /\ "open" # "crashed"
    BY Zenon, <1>2, <2>1, <2>4, GoodOther
  <2> QED
    BY Zenon, <1>4, <2>3, <2>5, GoodClosed
<1> QED
  BY Zenon, <1>1, <1>5, <1>6, <1>7, <1>8, <1>9, <1>10
     DEF Next, vars, HttpParse, HttpAnswer, HttpNext, SseStart, SseBatch, SseDone, SseDrop

-----------------------------------------------------------------------------
(* The theorems *)

LEMMA HttpInitially == Init => HttpInv
<1> SUFFICES ASSUME Init PROVE HttpInv
  OBVIOUS
<1>1. http.st = "idle"
  BY Zenon DEF Init, NoExchange
<1> QED
  BY <1>1 DEF HttpInv

LEMMA ChannelStep == channel \in {"http", "ws", "sse"} /\ [Next]_vars => (channel \in {"http", "ws", "sse"})'
BY Zenon DEF Next, vars, HttpParse, HttpAnswer, HttpNext, WsOpen, WsSend, WsLeave, WsReceive, WsAnswer, WsIdle,
             SseStart, SseBatch, SseDone, SseDrop

LEMMA WsTyped ==
    ASSUME WsInv
    PROVE  /\ ws.st \in {"new", "open", "closed", "crashed"} /\ Len(ws.net) <= Len(ws.sent)
           /\ Len(ws.sent) <= MaxFrames /\ (ws.st # "open" => ws.busy = NoFrame)
BY Zenon DEF WsInv, WsGood, Queued

LEMMA WsPairs == WsInv => AnswersPair
<1> SUFFICES ASSUME WsInv PROVE AnswersPair
  OBVIOUS
<1>1. Unanswered = Open(ws.st, ws.busy, Taken)
  BY Zenon DEF Unanswered, Open
<1>2. Paired(ws.sent, Taken, Unanswered, ws.out, ws.gone)
  BY Zenon, <1>1 DEF WsInv, WsGood, Taken
<1> QED
  BY Zenon, <1>2, PairedIs

LEMMA AsksAlike == SseInv => StreamAsksAlike
<1> SUFFICES ASSUME SseInv, sse.st = "sending", sse.op.op = "q" => Arg(sse.op, "db-id") = None
             PROVE  sse.call = QueryCall(sse.op, 0)
  BY Zenon DEF StreamAsksAlike
<1>1. sse.op.op \in Queries /\ sse.call = StreamCall(sse.op)
  BY Zenon DEF SseInv
<1> QED
  BY Zenon, <1>1 DEF StreamCall, QueryCall, Queries

\* A connection's state is what its handler can be in: the queue of a socket holds
\* no frame that was not sent, no frame is worked on once handle_ws_connection has
\* left its loop, and a stream never runs past its rows by more than a batch.
THEOREM TypeCorrect == Spec => []TypeOK
<1> DEFINE Typed == channel \in {"http", "ws", "sse"} /\ HttpInv /\ WsInv /\ SseInv
<1>1. Init => Typed
  BY Zenon, HttpInitially, WsInitially, SseInitially DEF Init
<1>2. Typed /\ [Next]_vars => Typed'
  BY Zenon, ChannelStep, HttpStep, WsStep, SseStep
<1>3. Typed => TypeOK
  BY Zenon, WsTyped DEF HttpInv, SseInv, TypeOK
<1> QED
  BY <1>1, <1>2, <1>3, PTL DEF Spec

\* On a WebSocket the answers pair with the requests: in order, none twice, each
\* one an answer its own request may get, under that request's id, and none
\* missing while the client is there but for the one the handler works on or
\* panicked on (handle_ws_connection, process_ws_message).
THEOREM AnswersArePaired == Spec => []AnswersPair
<1>1. WsInv => AnswersPair
  BY Zenon, WsPairs
<1> QED
  BY <1>1, WsInitially, WsStep, PTL DEF Spec

\* The batches of a stream that says done, and the chunks of a qseq, hold every
\* row of the answer once and in order, none is empty or too large, and the counts
\* given with them are right, for every batch size, chunk size and number of rows
\* (execute_streaming_query, Operation::Qseq).
THEOREM PiecesAreComplete == Spec => []PiecesComplete
<1>1. Init => HttpInv /\ SseInv
  BY Zenon, HttpInitially, SseInitially
<1>2. HttpInv /\ SseInv /\ [Next]_vars => HttpInv' /\ SseInv'
  BY Zenon, HttpStep, SseStep
<1>3. HttpInv /\ SseInv => PiecesComplete
  BY Zenon, StreamWhole, QseqWhole DEF PiecesComplete
<1> QED
  BY <1>1, <1>2, <1>3, PTL DEF Spec

\* A query that is streamed calls the PostgreSQL function that the same request
\* over HTTP calls, with the same arguments, unless it names a database value
\* (the input building of execute_streaming_query and of Operation::Q).
THEOREM StreamsAskAlike == Spec => []StreamAsksAlike
BY SseInitially, SseStep, AsksAlike, PTL DEF Spec

=============================================================================
