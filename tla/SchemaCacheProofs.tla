------------------------- MODULE SchemaCacheProofs -------------------------
(***************************************************************************)
(* Proofs about SchemaCache, for any connections, names, types and jobs.   *)
(*                                                                         *)
(* Both theorems rest on one fact: a connection that holds rows of the     *)
(* schema tables has bumped the generation, or is between writing them and *)
(* bumping, where it cannot commit (RowsCounted).  So a commit that leaves *)
(* the generation leaves the tables, and what a load sees at a generation  *)
(* never changes (OneGeneration).                                          *)
(***************************************************************************)
EXTENDS SchemaCache, TLAPS

Partial(D, R) == UNION {[X -> R] : X \in SUBSET D}

Attribute == [ident : Ident, type : Type]
Tables == [idents : Partial(Ident, Entid), schema : Partial(Entid, Attribute),
           owner : Partial(Ident, Entid), gen : Nat]
Rows == [idents : Partial(Ident, Entid), schema : Partial(Entid, Attribute),
         owner : Partial(Ident, Entid), bumps : Nat]
CacheMaps == [warmed : BOOLEAN, gen : Nat, attrs : Partial(Entid, Type),
              idents : Partial(Ident, Entid), entids : Partial(Entid, Ident)]

Typed ==
    /\ db \in Tables /\ seq \in 0..MaxEntid
    /\ mine \in [Backend -> Rows] /\ saved \in [Backend -> Rows]
    /\ cache \in [Backend -> CacheMaps] /\ job \in [Backend -> Job]
    /\ pc \in [Backend -> {"idle", "open", "check", "loadschema", "loadidents", "loadgen", "install", "pass2"}]
    /\ then \in [Backend -> {"open", "install", "pass2"}]
    /\ filled \in [Backend -> {"none", "query", "tx", "mixed"}]
    /\ \A b \in Backend : job[b].ident # NoIdent => job[b].e \in Entid

\* b has written the rows of its job and has not bumped the generation.
Written(b) == pc[b] = "pass2" \/ (pc[b] \in {"loadschema", "loadidents", "loadgen"} /\ then[b] = "pass2")

Counted(rows) == rows.bumps = 0 => rows.idents = Empty /\ rows.schema = Empty

RowsCounted ==
    \A b \in Backend :
        /\ Counted(mine[b]) \/ (Written(b) /\ TouchesSchema(job[b]))
        /\ Counted(saved[b])

OneGeneration ==
    /\ db.gen \in DOMAIN hist /\ hist[db.gen] = Warm(EmptyCache, db)
    /\ \A b \in Backend : filled[b] = "query" /\ cache[b].warmed =>
          /\ cache[b].gen \in DOMAIN hist /\ cache[b].gen <= db.gen
          /\ cache[b] = hist[cache[b].gen]

\* What a query uses is what the tables hold, unless a transaction filled the
\* cache.
QueryUsesCommitted ==
    [][\A b \in Backend : Query(b) /\ filled'[b] = "query" => cache'[b] = Warm(EmptyCache, db)]_vars

-----------------------------------------------------------------------------
(* Partial functions *)

LEMMA PartialIs ==
    ASSUME NEW D, NEW R, NEW f
    PROVE  f \in Partial(D, R) <=> \E X \in SUBSET D : f \in [X -> R]
BY Zenon DEF Partial

LEMMA PartialFacts ==
    ASSUME NEW D, NEW R, NEW f \in Partial(D, R)
    PROVE  f \in [DOMAIN f -> R] /\ DOMAIN f \subseteq D
BY PartialIs

LEMMA EmptyPartial == ASSUME NEW D, NEW R PROVE Empty \in Partial(D, R)
<1>1. Empty \in [{} -> R]
  BY Zenon DEF Empty
<1> QED
  BY Zenon, <1>1, PartialIs

LEMMA OverPartial ==
    ASSUME NEW D, NEW R, NEW f \in Partial(D, R), NEW g \in Partial(D, R)
    PROVE  Over(f, g) \in Partial(D, R)
<1>1. Over(f, g) \in [DOMAIN f \cup DOMAIN g -> R] /\ DOMAIN f \cup DOMAIN g \in SUBSET D
  BY PartialFacts DEF Over
<1> QED
  BY Zenon, <1>1, PartialIs

LEMMA ExtendPartial ==
    ASSUME NEW D, NEW R, NEW f \in Partial(D, R), NEW k \in D, NEW v \in R
    PROVE  Extend(f, k, v) \in Partial(D, R)
<1>1. Extend(f, k, v) \in [DOMAIN f \cup {k} -> R] /\ DOMAIN f \cup {k} \in SUBSET D
  BY PartialFacts DEF Extend
<1> QED
  BY Zenon, <1>1, PartialIs

LEMMA OverEmpty ==
    ASSUME NEW D, NEW R, NEW g \in Partial(D, R)
    PROVE  Over(Empty, g) = g
<1>1. g \in [DOMAIN g -> R]
  BY Zenon, PartialFacts
<1>2. Over(Empty, g) = [x \in DOMAIN g |-> g[x]]
  BY Zenon DEF Over, Empty
<1> QED
  BY Zenon, <1>1, <1>2

-----------------------------------------------------------------------------
(* Loads *)

LEMMA ViewTyped == ASSUME Typed, NEW b \in Backend PROVE View(b) \in Tables
<1>1. PICK r, d : r = mine[b] /\ d = db /\ r \in Rows /\ d \in Tables
  BY Zenon DEF Typed
<1>2. /\ Over(r.idents, d.idents) \in Partial(Ident, Entid)
      /\ Over(r.schema, d.schema) \in Partial(Entid, Attribute)
      /\ Over(r.owner, d.owner) \in Partial(Ident, Entid)
  BY Zenon, <1>1, OverPartial DEF Rows, Tables
<1>3. d.gen + r.bumps \in Nat
  BY <1>1 DEF Rows, Tables
<1> QED
  BY Zenon, <1>1, <1>2, <1>3 DEF View, Tables

LEMMA MapsTyped ==
    ASSUME NEW schema \in Partial(Entid, Attribute), NEW names \in Partial(Ident, Entid)
    PROVE  /\ NamesOf(schema) \in Partial(Ident, Entid)
           /\ Reverse(names) \in Partial(Entid, Ident)
           /\ [e \in DOMAIN schema |-> schema[e].type] \in Partial(Entid, Type)
           /\ [e \in DOMAIN schema |-> schema[e].ident] \in Partial(Entid, Ident)
<1>1. schema \in [DOMAIN schema -> Attribute] /\ DOMAIN schema \subseteq Entid
  BY Zenon, PartialFacts
<1>2. names \in [DOMAIN names -> Entid] /\ DOMAIN names \subseteq Ident
  BY Zenon, PartialFacts
<1>3. \A e \in DOMAIN schema : schema[e].ident \in Ident /\ schema[e].type \in Type
  BY Zenon, <1>1 DEF Attribute
<1>4. /\ [e \in DOMAIN schema |-> schema[e].type] \in [DOMAIN schema -> Type]
      /\ [e \in DOMAIN schema |-> schema[e].ident] \in [DOMAIN schema -> Ident]
  BY Zenon, <1>3
<1>5. /\ [e \in DOMAIN schema |-> schema[e].type] \in Partial(Entid, Type)
      /\ [e \in DOMAIN schema |-> schema[e].ident] \in Partial(Entid, Ident)
  BY Zenon, <1>1, <1>4, PartialIs
<1>6. NamesOf(schema) \in Partial(Ident, Entid)
  <2>1. {schema[e].ident : e \in DOMAIN schema} \in SUBSET Ident
    BY Zenon, <1>3
  <2>2. \A i \in {schema[e].ident : e \in DOMAIN schema} :
           (CHOOSE e \in DOMAIN schema : schema[e].ident = i) \in Entid
    BY Zenon, <1>1
  <2>3. NamesOf(schema) \in [{schema[e].ident : e \in DOMAIN schema} -> Entid]
    BY Zenon, <2>2 DEF NamesOf
  <2> QED
    BY Zenon, <2>1, <2>3, PartialIs
<1>7. Reverse(names) \in Partial(Entid, Ident)
  <2>1. {names[i] : i \in DOMAIN names} \in SUBSET Entid
    BY Zenon, <1>2
  <2>2. \A e \in {names[i] : i \in DOMAIN names} : (CHOOSE i \in DOMAIN names : names[i] = e) \in Ident
    BY Zenon, <1>2
  <2>3. Reverse(names) \in [{names[i] : i \in DOMAIN names} -> Ident]
    BY Zenon, <2>2 DEF Reverse
  <2> QED
    BY Zenon, <2>1, <2>3, PartialIs
<1> QED
  BY Zenon, <1>5, <1>6, <1>7

LEMMA EmptyCacheTyped == EmptyCache \in CacheMaps /\ NoRows \in Rows
BY Zenon, EmptyPartial DEF EmptyCache, CacheMaps, NoRows, Rows

LEMMA LoadsTyped ==
    ASSUME NEW c \in CacheMaps, NEW v \in Tables
    PROVE  /\ LoadSchema(c, v) \in CacheMaps /\ LoadIdents(c, v) \in CacheMaps
           /\ LoadGeneration(c, v) \in CacheMaps
<1>1. v.schema \in Partial(Entid, Attribute) /\ v.idents \in Partial(Ident, Entid) /\ v.gen \in Nat
  BY Zenon DEF Tables
<1>2. /\ c.attrs \in Partial(Entid, Type) /\ c.idents \in Partial(Ident, Entid)
      /\ c.entids \in Partial(Entid, Ident) /\ c.gen \in Nat
  BY Zenon DEF CacheMaps
<1>3. /\ Over([e \in DOMAIN v.schema |-> v.schema[e].type], c.attrs) \in Partial(Entid, Type)
      /\ Over(NamesOf(v.schema), c.idents) \in Partial(Ident, Entid)
      /\ Over([e \in DOMAIN v.schema |-> v.schema[e].ident], c.entids) \in Partial(Entid, Ident)
      /\ Over(c.idents, v.idents) \in Partial(Ident, Entid)
      /\ Over(c.entids, Reverse(v.idents)) \in Partial(Entid, Ident)
  BY Zenon, <1>1, <1>2, MapsTyped, OverPartial
<1>4. LoadSchema(c, v) \in CacheMaps
  BY <1>3, Zenon DEF LoadSchema, CacheMaps
<1>5. LoadIdents(c, v) \in CacheMaps
  BY <1>3, Zenon DEF LoadIdents, CacheMaps
<1>6. LoadGeneration(c, v) \in CacheMaps
  BY <1>1, Zenon DEF LoadGeneration, CacheMaps
<1> QED
  BY Zenon, <1>4, <1>5, <1>6

\* The maps are empty and the cache has nothing loaded.
Cold(c) == ~c.warmed /\ c.attrs = Empty /\ c.idents = Empty /\ c.entids = Empty

LEMMA InvalidateCold ==
    ASSUME NEW c \in CacheMaps
    PROVE  Invalidate(c) \in CacheMaps /\ Cold(Invalidate(c)) /\ ~Invalidate(c).warmed
<1>1. EmptyCache \in CacheMaps /\ Cold(EmptyCache)
  BY Zenon, EmptyCacheTyped DEF EmptyCache, Cold
<1>2. Invalidate(c) \in CacheMaps
  BY Zenon, EmptyCacheTyped DEF Invalidate, CacheMaps
<1> QED
  BY Zenon, <1>1, <1>2 DEF Invalidate, Cold, CacheMaps

LEMMA WarmTyped ==
    ASSUME NEW c \in CacheMaps, NEW v \in Tables
    PROVE  Warm(c, v) \in CacheMaps /\ EnsureFresh(c, v) \in CacheMaps
<1>1. \A x \in CacheMaps : Warm(x, v) \in CacheMaps
  BY Zenon, LoadsTyped DEF Warm
<1>2. (IF c.warmed /\ Stale(c, v) THEN Invalidate(c) ELSE c) \in CacheMaps
  BY Zenon, InvalidateCold
<1> QED
  BY Zenon, <1>1, <1>2 DEF EnsureFresh

LEMMA SameCache ==
    ASSUME NEW c \in CacheMaps, NEW d \in CacheMaps, c.warmed = d.warmed, c.gen = d.gen,
           c.attrs = d.attrs, c.idents = d.idents, c.entids = d.entids
    PROVE  c = d
BY DEF CacheMaps

LEMMA LoadFields ==
    ASSUME NEW c \in CacheMaps, NEW v \in Tables
    PROVE  /\ LoadSchema(c, v).attrs = Over([e \in DOMAIN v.schema |-> v.schema[e].type], c.attrs)
           /\ LoadSchema(c, v).idents = Over(NamesOf(v.schema), c.idents)
           /\ LoadSchema(c, v).entids = Over([e \in DOMAIN v.schema |-> v.schema[e].ident], c.entids)
           /\ LoadIdents(c, v).attrs = c.attrs
           /\ LoadIdents(c, v).idents = Over(c.idents, v.idents)
           /\ LoadIdents(c, v).entids = Over(c.entids, Reverse(v.idents))
           /\ LoadGeneration(c, v).warmed /\ LoadGeneration(c, v).gen = v.gen
           /\ LoadGeneration(c, v).attrs = c.attrs /\ LoadGeneration(c, v).idents = c.idents
           /\ LoadGeneration(c, v).entids = c.entids
<1>1. c \in CacheMaps
  BY Zenon
<1>2. LoadSchema(c, v).attrs = Over([e \in DOMAIN v.schema |-> v.schema[e].type], c.attrs)
  BY Zenon, <1>1 DEF LoadSchema, CacheMaps
<1>3. LoadSchema(c, v).idents = Over(NamesOf(v.schema), c.idents)
  BY Zenon, <1>1 DEF LoadSchema, CacheMaps
<1>4. LoadSchema(c, v).entids = Over([e \in DOMAIN v.schema |-> v.schema[e].ident], c.entids)
  BY Zenon, <1>1 DEF LoadSchema, CacheMaps
<1>5. /\ LoadIdents(c, v).attrs = c.attrs
      /\ LoadIdents(c, v).idents = Over(c.idents, v.idents)
      /\ LoadIdents(c, v).entids = Over(c.entids, Reverse(v.idents))
  BY Zenon, <1>1 DEF LoadIdents, CacheMaps
<1>6. /\ LoadGeneration(c, v).warmed /\ LoadGeneration(c, v).gen = v.gen
      /\ LoadGeneration(c, v).attrs = c.attrs /\ LoadGeneration(c, v).idents = c.idents
      /\ LoadGeneration(c, v).entids = c.entids
  BY Zenon, <1>1 DEF LoadGeneration, CacheMaps
<1> QED
  BY Zenon, <1>2, <1>3, <1>4, <1>5, <1>6

\* A load into empty maps gives what the tables hold, whatever generation the
\* cache had recorded.
LEMMA ColdLoad ==
    ASSUME NEW c \in CacheMaps, NEW v \in Tables, Cold(c)
    PROVE  Warm(c, v) = Warm(EmptyCache, v) /\ Warm(c, v).warmed /\ Warm(c, v).gen = v.gen
<1>1. PICK attrs, idents, entids :
         /\ attrs = Over([e \in DOMAIN v.schema |-> v.schema[e].type], Empty)
         /\ idents = Over(Over(NamesOf(v.schema), Empty), v.idents)
         /\ entids = Over(Over([e \in DOMAIN v.schema |-> v.schema[e].ident], Empty), Reverse(v.idents))
  BY Zenon
<1>2. ASSUME NEW d \in CacheMaps, Cold(d)
      PROVE  /\ Warm(d, v) \in CacheMaps /\ Warm(d, v).warmed /\ Warm(d, v).gen = v.gen
             /\ Warm(d, v).attrs = attrs /\ Warm(d, v).idents = idents /\ Warm(d, v).entids = entids
  <2>1. PICK e : e = LoadSchema(d, v)
    BY Zenon
  <2>2. PICK f : f = LoadIdents(e, v)
    BY Zenon
  <2>3. e \in CacheMaps /\ f \in CacheMaps /\ LoadGeneration(f, v) \in CacheMaps
    BY Zenon, <1>2, <2>1, <2>2, LoadsTyped
  <2>4. Warm(d, v) = LoadGeneration(f, v)
    BY Zenon, <1>2, <2>1, <2>2 DEF Warm, Cold
  <2>5. /\ e.attrs = Over([x \in DOMAIN v.schema |-> v.schema[x].type], d.attrs)
        /\ e.idents = Over(NamesOf(v.schema), d.idents)
        /\ e.entids = Over([x \in DOMAIN v.schema |-> v.schema[x].ident], d.entids)
    BY Zenon, <1>2, <2>1, LoadFields
  <2>6. f.attrs = e.attrs /\ f.idents = Over(e.idents, v.idents) /\ f.entids = Over(e.entids, Reverse(v.idents))
    BY ZenonT(30), <2>2, <2>3, LoadFields
  <2>7. f.attrs = attrs /\ f.idents = idents /\ f.entids = entids
    BY Zenon, <1>1, <1>2, <2>5, <2>6 DEF Cold
  <2>8. /\ LoadGeneration(f, v).warmed /\ LoadGeneration(f, v).gen = v.gen
        /\ LoadGeneration(f, v).attrs = f.attrs /\ LoadGeneration(f, v).idents = f.idents
        /\ LoadGeneration(f, v).entids = f.entids
    BY Zenon, <2>3, LoadFields
  <2> QED
    BY Zenon, <2>3, <2>4, <2>7, <2>8
<1>3. Cold(EmptyCache)
  BY Zenon DEF EmptyCache, Cold
<1>4. /\ Warm(c, v).warmed \in BOOLEAN /\ Warm(EmptyCache, v).warmed \in BOOLEAN
  BY Zenon, <1>2, <1>3, EmptyCacheTyped DEF CacheMaps
<1>5. Warm(c, v).warmed = Warm(EmptyCache, v).warmed
  BY <1>2, <1>3, <1>4, EmptyCacheTyped
<1> QED
  BY <1>2, <1>3, <1>5, EmptyCacheTyped, SameCache

-----------------------------------------------------------------------------
(* Types *)

\* A definition whose name goes to an entity.
Named(j) == j.ident # NoIdent => j.e \in Entid

LEMMA InstallTyped ==
    ASSUME NEW rows \in Rows, NEW j \in Job, Named(j)
    PROVE  InstallRows(rows, j) \in Rows
<1>1. CASE j.ident = NoIdent
  BY Zenon, <1>1 DEF InstallRows
<1>2. CASE j.ident # NoIdent
  <2>1. j.ident \in Ident /\ j.e \in Entid /\ (IsDefinition(j) => j.type \in Type)
    BY Zenon, <1>2 DEF Job, Named, IsDefinition
  <2>2. rows.idents \in Partial(Ident, Entid) /\ rows.schema \in Partial(Entid, Attribute)
    BY Zenon DEF Rows
  <2>3. Extend(rows.idents, j.ident, j.e) \in Partial(Ident, Entid)
    BY Zenon, <2>1, <2>2, ExtendPartial
  <2>4. (IF IsDefinition(j) THEN Extend(rows.schema, j.e, [ident |-> j.ident, type |-> j.type]) ELSE rows.schema)
          \in Partial(Entid, Attribute)
    <3>1. ASSUME IsDefinition(j) PROVE [ident |-> j.ident, type |-> j.type] \in Attribute
      BY Zenon, <2>1, <3>1 DEF Attribute
    <3> QED
      BY Zenon, <2>1, <2>2, <3>1, ExtendPartial
  <2>5. PICK schema : schema = IF IsDefinition(j) THEN Extend(rows.schema, j.e, [ident |-> j.ident, type |-> j.type])
                                                  ELSE rows.schema
    BY Zenon
  <2>6. InstallRows(rows, j) = [rows EXCEPT !.idents = Extend(rows.idents, j.ident, j.e), !.schema = schema]
    BY Zenon, <1>2, <2>5 DEF InstallRows
  <2> QED
    BY <2>3, <2>4, <2>5, <2>6, Zenon DEF Rows
<1> QED
  BY Zenon, <1>1, <1>2

LEMMA DatomsTyped ==
    ASSUME NEW rows \in Rows, NEW owner, NEW j \in Job, Named(j)
    PROVE  /\ WriteDatoms(rows, owner, j) \in Rows
           /\ WriteDatoms(rows, owner, j).bumps = rows.bumps
           /\ WriteDatoms(rows, owner, j).idents = rows.idents
           /\ WriteDatoms(rows, owner, j).schema = rows.schema
<1>1. CASE j.ident = NoIdent \/ j.ident \in DOMAIN owner
  BY Zenon, <1>1 DEF WriteDatoms
<1>2. CASE ~(j.ident = NoIdent \/ j.ident \in DOMAIN owner)
  <2>1. j.ident \in Ident /\ j.e \in Entid /\ rows.owner \in Partial(Ident, Entid)
    BY Zenon, <1>2 DEF Job, Named, Rows
  <2>2. PICK owns : owns = Extend(rows.owner, j.ident, j.e) /\ owns \in Partial(Ident, Entid)
    BY Zenon, <2>1, ExtendPartial
  <2>3. WriteDatoms(rows, owner, j) = [rows EXCEPT !.owner = owns]
    BY Zenon, <1>2, <2>2 DEF WriteDatoms
  <2> QED
    BY Zenon, <2>2, <2>3 DEF Rows
<1> QED
  BY Zenon, <1>1, <1>2

LEMMA BumpTyped ==
    ASSUME NEW rows \in Rows, NEW j
    PROVE  /\ BumpGeneration(rows, j) \in Rows
           /\ TouchesSchema(j) => BumpGeneration(rows, j).bumps # 0
           /\ ~TouchesSchema(j) => BumpGeneration(rows, j) = rows
BY DEF BumpGeneration, Rows

\* What the rows of b are after its transaction has ended.
LEMMA EndRows ==
    ASSUME Typed, NEW b \in Backend, EndTransact(b)
    PROVE  /\ mine'[b] \in Rows
           /\ \/ mine'[b] = saved[b]
              \/ TouchesSchema(job[b]) /\ mine'[b].bumps # 0
              \/ /\ ~TouchesSchema(job[b]) /\ mine'[b].bumps = mine[b].bumps
                 /\ mine'[b].idents = mine[b].idents /\ mine'[b].schema = mine[b].schema
<1>1. PICK j, r, owner : j = job[b] /\ r = mine[b] /\ owner = View(b).owner
  BY Zenon
<1>2. j \in Job /\ r \in Rows /\ Named(j) /\ saved[b] \in Rows
  BY Zenon, <1>1 DEF Typed, Named
<1>3. PICK w : w = WriteDatoms(r, owner, j) /\ w \in Rows
               /\ w.bumps = r.bumps /\ w.idents = r.idents /\ w.schema = r.schema
  BY <1>2, DatomsTyped
<1>4. PICK u : u = BumpGeneration(w, j) /\ u \in Rows /\ (TouchesSchema(j) => u.bumps # 0)
               /\ (~TouchesSchema(j) => u = w)
  BY Zenon, <1>3, BumpTyped
<1>5. mine'[b] = IF j.dry THEN saved[b] ELSE u
  BY Zenon, <1>1, <1>3, <1>4 DEF EndTransact, Typed
<1> QED
  BY Zenon, <1>1, <1>2, <1>3, <1>4, <1>5

LEMMA TypedStep == ASSUME Typed, [Next]_vars PROVE Typed'
<1>1. CASE UNCHANGED vars
  BY Zenon, <1>1 DEF vars, Typed
<1>2. ASSUME NEW b \in Backend, Query(b) \/ Disconnect(b) PROVE Typed'
  <2>1. PICK c, d : c = EnsureFresh(cache[b], db) /\ d = EmptyCache /\ c \in CacheMaps /\ d \in CacheMaps
    BY Zenon, WarmTyped, EmptyCacheTyped DEF Typed
  <2>2. cache' \in [Backend -> CacheMaps]
    BY Zenon, <1>2, <2>1 DEF Query, Disconnect, Typed
  <2>3. filled' \in [Backend -> {"none", "query", "tx", "mixed"}]
    BY Zenon, <1>2 DEF Query, Disconnect, Typed
  <2> QED
    BY Zenon, <1>2, <2>2, <2>3 DEF Query, Disconnect, Typed
<1>3. ASSUME NEW b \in Backend, NEW next \in {"open", "install", "pass2"}, Lookup(b, next)
      PROVE  /\ pc' \in [Backend -> {"idle", "open", "check", "loadschema", "loadidents", "loadgen", "install", "pass2"}]
             /\ then' \in [Backend -> {"open", "install", "pass2"}]
  BY Zenon, <1>3 DEF Lookup, Typed
<1>4. ASSUME NEW b \in Backend, QueryInTransaction(b) PROVE Typed'
  BY Zenon, <1>3, <1>4 DEF QueryInTransaction, Typed
<1>5. ASSUME NEW b \in Backend, NEW j \in Jobs, Transact(b, j) PROVE Typed'
  <2>1. PICK i \in Job : job' = [job EXCEPT ![b] = i] /\ Named(i) /\ seq' \in 0..MaxEntid
    <3>1. j \in Job
      BY Zenon, SchemaCacheAssumption
    <3>2. CASE j.e = 0 /\ j.ident # NoIdent
      <4>1. seq < MaxEntid /\ seq' = seq + 1 /\ job' = [job EXCEPT ![b] = [j EXCEPT !.e = seq + 1]]
        BY Zenon, <1>5, <3>2 DEF Transact
      <4>2. PICK n : n = seq + 1 /\ n \in Entid /\ n \in 0..MaxEntid
        BY <4>1, SchemaCacheAssumption DEF Typed, Entid
      <4>3. PICK i : i = [j EXCEPT !.e = n]
        BY Zenon
      <4>4. i \in Job /\ i.e = n
        BY Zenon, <3>1, <4>2, <4>3 DEF Job
      <4> QED
        BY <4>1, <4>2, <4>3, <4>4, Zenon DEF Named
    <3>3. CASE ~(j.e = 0 /\ j.ident # NoIdent)
      <4>1. seq' = seq /\ job' = [job EXCEPT ![b] = j]
        BY Zenon, <1>5, <3>3 DEF Transact
      <4>2. Named(j)
        BY Zenon, <3>1, <3>3 DEF Named, Job
      <4> QED
        BY <3>1, <4>1, <4>2, Zenon DEF Typed
    <3> QED
      BY Zenon, <3>2, <3>3
  <2>2. job' \in [Backend -> Job] /\ \A c \in Backend : job'[c].ident # NoIdent => job'[c].e \in Entid
    BY Zenon, <2>1 DEF Typed, Named
  <2>3. saved' \in [Backend -> Rows]
    BY Zenon, <1>5 DEF Transact, Typed
  <2>4. Lookup(b, "install")
    BY Zenon, <1>5 DEF Transact
  <2> QED
    BY Zenon, <1>3, <1>5, <2>1, <2>2, <2>3, <2>4 DEF Transact, Typed
<1>6. ASSUME NEW b \in Backend, CheckGeneration(b) PROVE Typed'
  <2>1. PICK c : c = Invalidate(cache[b]) /\ c \in CacheMaps
    BY Zenon, InvalidateCold DEF Typed
  <2> QED
    BY <1>6, <2>1 DEF CheckGeneration, Proceed, Typed
<1>7. ASSUME NEW b \in Backend, ReadSchema(b) \/ ReadIdents(b) \/ ReadGeneration(b) PROVE Typed'
  <2>1. PICK c, d, e : /\ c = LoadSchema(cache[b], View(b)) /\ d = LoadIdents(cache[b], View(b))
                       /\ e = LoadGeneration(cache[b], View(b)) /\ {c, d, e} \subseteq CacheMaps
    BY ViewTyped, LoadsTyped DEF Typed
  <2> QED
    BY <1>7, <2>1 DEF ReadSchema, ReadIdents, ReadGeneration, LoadStep, Proceed, Typed
<1>8. ASSUME NEW b \in Backend, Install(b) PROVE Typed'
  <2>1. PICK c : c = Invalidate(cache[b]) /\ c \in CacheMaps
    BY Zenon, InvalidateCold DEF Typed
  <2>2. PICK r : r = InstallRows(mine[b], job[b]) /\ r \in Rows
    BY Zenon, InstallTyped DEF Typed, Named
  <2> QED
    BY Zenon, <1>8, <2>1, <2>2 DEF Install, Typed
<1>9. PlainData \in Job /\ PlainData.ident = NoIdent
  BY Zenon DEF PlainData, Job
<1>10. PICK plain, none : plain = PlainData /\ none = NoRows /\ none \in Rows
  BY Zenon, EmptyCacheTyped
<1>11. ASSUME NEW b \in Backend, EndTransact(b) PROVE Typed'
  <2>1. PICK c : c = Invalidate(cache[b]) /\ c \in CacheMaps
    BY Zenon, InvalidateCold DEF Typed
  <2>2. mine' \in [Backend -> Rows]
    BY <1>11, EndRows, Zenon DEF EndTransact, Typed
  <2>3. cache' \in [Backend -> CacheMaps]
    BY Zenon, <1>11, <2>1 DEF EndTransact, Typed
  <2>4. /\ saved' = [saved EXCEPT ![b] = none] /\ job' = [job EXCEPT ![b] = plain]
        /\ pc' = [pc EXCEPT ![b] = "open"] /\ UNCHANGED <<db, seq, then, filled>>
    BY Zenon, <1>10, <1>11 DEF EndTransact
  <2> QED
    BY Zenon, <1>9, <1>10, <2>2, <2>3, <2>4 DEF Typed
<1>12. ASSUME NEW b \in Backend, EndTx(b), db' \in Tables, cache' \in [Backend -> CacheMaps] PROVE Typed'
  <2>1. /\ mine' = [mine EXCEPT ![b] = none] /\ saved' = [saved EXCEPT ![b] = none]
        /\ job' = [job EXCEPT ![b] = plain] /\ pc' = [pc EXCEPT ![b] = "idle"]
        /\ then' = [then EXCEPT ![b] = "open"] /\ UNCHANGED <<seq, filled>>
    BY Zenon, <1>10, <1>12 DEF EndTx
  <2> QED
    BY Zenon, <1>9, <1>10, <1>12, <2>1 DEF Typed
<1>13. ASSUME NEW b \in Backend, Commit(b) \/ Pass2Fails(b) \/ Rollback(b) PROVE Typed'
  <2>1. PICK c : c = Invalidate(cache[b]) /\ c \in CacheMaps
    BY Zenon, InvalidateCold DEF Typed
  <2>2. db' \in Tables /\ cache' \in [Backend -> CacheMaps] /\ EndTx(b)
    BY <1>13, <2>1, ViewTyped DEF Commit, Pass2Fails, Rollback, Typed
  <2> QED
    BY Zenon, <1>12, <2>2
<1> QED
  BY Zenon, <1>1, <1>2, <1>4, <1>5, <1>6, <1>7, <1>8, <1>11, <1>13 DEF Next

-----------------------------------------------------------------------------
(* Rows without a bump are not committed *)

LEMMA RowsFrom ==
    ASSUME RowsCounted, NEW b \in Backend,
           \A c \in Backend \ {b} : /\ mine'[c] = mine[c] /\ saved'[c] = saved[c] /\ job'[c] = job[c]
                                    /\ pc'[c] = pc[c] /\ then'[c] = then[c],
           Counted(mine'[b]) \/ (Written(b)' /\ TouchesSchema(job'[b])),
           Counted(saved'[b])
    PROVE  RowsCounted'
BY DEF RowsCounted, Written, Counted

LEMMA NoRowsCounted == Counted(NoRows)
BY Zenon DEF Counted, NoRows

LEMMA RowsStep == ASSUME Typed, RowsCounted, [Next]_vars PROVE RowsCounted'
<1>1. ASSUME UNCHANGED <<mine, saved, pc, then, job>> PROVE RowsCounted'
  BY Zenon, <1>1 DEF RowsCounted, Written, Counted
<1>2. ASSUME NEW b \in Backend, Query(b) \/ Disconnect(b) \/ UNCHANGED vars PROVE RowsCounted'
  BY Zenon, <1>1, <1>2 DEF Query, Disconnect, vars
<1>3. ASSUME NEW b \in Backend, pc[b] \in {"idle", "open"} PROVE Counted(mine[b]) /\ Counted(saved[b])
  BY Zenon, <1>3 DEF RowsCounted, Written
<1>4. ASSUME NEW b \in Backend, NEW j \in Jobs, Transact(b, j) PROVE RowsCounted'
  <2>1. /\ \A c \in Backend \ {b} : /\ mine'[c] = mine[c] /\ saved'[c] = saved[c] /\ job'[c] = job[c]
                                    /\ pc'[c] = pc[c] /\ then'[c] = then[c]
        /\ mine'[b] = mine[b] /\ saved'[b] = mine[b]
    BY Zenon, <1>4 DEF Transact, Lookup, Typed
  <2>2. Counted(mine[b])
    BY Zenon, <1>3, <1>4 DEF Transact
  <2> QED
    BY Zenon, <2>1, <2>2, RowsFrom
<1>5. ASSUME NEW b \in Backend, QueryInTransaction(b) PROVE RowsCounted'
  <2>1. /\ \A c \in Backend \ {b} : pc'[c] = pc[c] /\ then'[c] = then[c]
        /\ UNCHANGED <<mine, saved, job>>
    BY Zenon, <1>5 DEF QueryInTransaction, Lookup, Typed
  <2>2. Counted(mine[b]) /\ Counted(saved[b])
    BY Zenon, <1>3, <1>5 DEF QueryInTransaction
  <2> QED
    BY Zenon, <2>1, <2>2, RowsFrom
<1>6. ASSUME NEW b \in Backend, CheckGeneration(b) \/ ReadSchema(b) \/ ReadIdents(b) \/ ReadGeneration(b)
      PROVE  RowsCounted'
  <2>1. /\ \A c \in Backend \ {b} : pc'[c] = pc[c] /\ then'[c] = then[c]
        /\ UNCHANGED <<mine, saved, job>>
    BY Zenon, <1>6 DEF CheckGeneration, ReadSchema, ReadIdents, ReadGeneration, LoadStep, Proceed, Typed
  <2>2. Written(b) => Written(b)'
    BY Zenon, <1>6 DEF CheckGeneration, ReadSchema, ReadIdents, ReadGeneration, LoadStep, Proceed, Typed, Written
  <2> QED
    BY Zenon, <2>1, <2>2, RowsFrom DEF RowsCounted
<1>7. ASSUME NEW b \in Backend, Install(b) PROVE RowsCounted'
  <2>1. /\ \A c \in Backend \ {b} : mine'[c] = mine[c] /\ pc'[c] = pc[c] /\ then'[c] = then[c]
        /\ UNCHANGED <<saved, job>>
    BY Zenon, <1>7 DEF Install, Typed
  <2>2. Written(b)' /\ ~Written(b)
    BY Zenon, <1>7 DEF Install, Typed, Written
  <2>3. mine'[b] = InstallRows(mine[b], job[b])
    BY Zenon, <1>7 DEF Install, Typed
  <2>4. ~TouchesSchema(job[b]) => mine'[b] = mine[b]
    BY Zenon, <2>3 DEF InstallRows, TouchesSchema
  <2>5. Counted(mine[b]) /\ Counted(saved[b])
    BY Zenon, <2>2 DEF RowsCounted
  <2> QED
    BY Zenon, <2>1, <2>2, <2>4, <2>5, RowsFrom
<1>8. PICK none : none = NoRows /\ Counted(none)
  BY Zenon, NoRowsCounted
<1>9. ASSUME NEW b \in Backend, EndTransact(b) PROVE RowsCounted'
  <2>1. /\ \A c \in Backend \ {b} : /\ mine'[c] = mine[c] /\ saved'[c] = saved[c] /\ job'[c] = job[c]
                                    /\ pc'[c] = pc[c] /\ then'[c] = then[c]
        /\ saved'[b] = none
    BY Zenon, <1>8, <1>9 DEF EndTransact, Typed
  <2>2. Counted(mine'[b])
    BY Zenon, <1>9, EndRows DEF RowsCounted, Counted
  <2> QED
    BY Zenon, <1>8, <2>1, <2>2, RowsFrom
<1>10. ASSUME NEW b \in Backend, EndTx(b) PROVE RowsCounted'
  <2>1. /\ \A c \in Backend \ {b} : /\ mine'[c] = mine[c] /\ saved'[c] = saved[c] /\ job'[c] = job[c]
                                    /\ pc'[c] = pc[c] /\ then'[c] = then[c]
        /\ saved'[b] = none /\ mine'[b] = none
    BY Zenon, <1>8, <1>10 DEF EndTx, Typed
  <2> QED
    BY Zenon, <1>8, <2>1, RowsFrom
<1>11. ASSUME NEW b \in Backend, Commit(b) \/ Pass2Fails(b) \/ Rollback(b) PROVE RowsCounted'
  BY Zenon, <1>10, <1>11 DEF Commit, Pass2Fails, Rollback
<1>12. CASE UNCHANGED vars
  BY Zenon, <1>1, <1>12 DEF vars
<1> QED
  BY Zenon, <1>2, <1>4, <1>5, <1>6, <1>7, <1>9, <1>11, <1>12 DEF Next

\* A commit without a bump leaves the tables that a load reads.
LEMMA CommitRaises ==
    ASSUME Typed, RowsCounted, NEW b \in Backend, Commit(b)
    PROVE  /\ db' \in Tables /\ db'.gen = db.gen + mine[b].bumps /\ mine[b].bumps \in Nat
           /\ mine[b].bumps = 0 => db'.idents = db.idents /\ db'.schema = db.schema
<1>1. db' = View(b) /\ View(b) \in Tables /\ mine[b] \in Rows /\ db \in Tables
  BY Zenon, ViewTyped DEF Commit, Typed
<1>2. Counted(mine[b])
  BY Zenon DEF RowsCounted, Written, Commit
<1>3. Over(Empty, db.idents) = db.idents /\ Over(Empty, db.schema) = db.schema
  BY Zenon, <1>1, OverEmpty DEF Tables
<1>4. /\ View(b).gen = db.gen + mine[b].bumps /\ View(b).idents = Over(mine[b].idents, db.idents)
      /\ View(b).schema = Over(mine[b].schema, db.schema)
  BY Zenon DEF View
<1> QED
  BY Zenon, <1>1, <1>2, <1>3, <1>4 DEF Counted, Rows

-----------------------------------------------------------------------------
(* A query loads one generation *)

LEMMA SameLoad ==
    ASSUME NEW v \in Tables, NEW w \in Tables, v.schema = w.schema, v.idents = w.idents, v.gen = w.gen
    PROVE  Warm(EmptyCache, v) = Warm(EmptyCache, w)
<1>1. \A c : LoadSchema(c, v) = LoadSchema(c, w)
  BY Zenon DEF LoadSchema
<1>2. \A c : LoadIdents(c, v) = LoadIdents(c, w)
  BY Zenon DEF LoadIdents
<1>3. \A c : LoadGeneration(c, v) = LoadGeneration(c, w)
  BY Zenon DEF LoadGeneration
<1> QED
  BY Zenon, <1>1, <1>2, <1>3 DEF Warm

LEMMA QueryLoads ==
    ASSUME Typed, OneGeneration, NEW b \in Backend, Query(b), filled'[b] = "query"
    PROVE  cache'[b] = Warm(EmptyCache, db) /\ cache'[b].gen = db.gen
<1>1. PICK c : c = cache[b] /\ c \in CacheMaps
  BY Zenon DEF Typed
<1>2. db \in Tables /\ cache'[b] = EnsureFresh(c, db)
  BY Zenon, <1>1 DEF Query, Typed
<1>3. filled'[b] = IF ~Loaded(b) THEN filled[b] ELSE IF Clean(c) THEN "query" ELSE "mixed"
  BY Zenon, <1>1 DEF Query, Typed
<1>4. EmptyCache \in CacheMaps /\ Cold(EmptyCache) /\ Warm(EmptyCache, db).gen = db.gen
  BY Zenon, <1>2, EmptyCacheTyped, ColdLoad DEF EmptyCache, Cold
<1>5. CASE c.warmed /\ Stale(c, db)
  <2>1. cache'[b] = Warm(Invalidate(c), db)
    BY Zenon, <1>2, <1>5 DEF EnsureFresh
  <2> QED
    BY <1>1, <1>2, <2>1, InvalidateCold, ColdLoad
<1>6. CASE c.warmed /\ ~Stale(c, db)
  <2>1. cache'[b] = c
    BY Zenon, <1>2, <1>6 DEF EnsureFresh, Warm
  <2>2. filled[b] = "query"
    BY Zenon, <1>1, <1>3, <1>6, <2>1 DEF Loaded
  <2>3. c.gen <= db.gen /\ c = hist[c.gen] /\ hist[db.gen] = Warm(EmptyCache, db)
    BY Zenon, <1>1, <1>6, <2>2 DEF OneGeneration
  <2>4. c.gen = db.gen
    BY <1>1, <1>2, <1>6, <2>3 DEF Stale, CacheMaps, Tables
  <2> QED
    BY Zenon, <2>1, <2>3, <2>4
<1>7. CASE ~c.warmed
  <2>1. cache'[b] = Warm(c, db)
    BY Zenon, <1>2, <1>7 DEF EnsureFresh
  <2>2. Warm(c, db).warmed
    <3>1. PICK d : d = LoadIdents(LoadSchema(c, db), db) /\ d \in CacheMaps
      BY Zenon, <1>1, <1>2, LoadsTyped
    <3>2. Warm(c, db) = LoadGeneration(d, db)
      BY Zenon, <1>7, <3>1 DEF Warm
    <3>3. LoadGeneration(d, db).warmed
      BY <1>2, <3>1, LoadFields, Zenon
    <3> QED
      BY Zenon, <3>2, <3>3
  <2>3. Clean(c)
    BY Zenon, <1>1, <1>3, <1>7, <2>1, <2>2 DEF Loaded
  <2>4. Cold(c)
    BY Zenon, <1>7, <2>3 DEF Clean, Cold
  <2> QED
    BY Zenon, <1>1, <1>2, <2>1, <2>4, ColdLoad
<1> QED
  BY Zenon, <1>5, <1>6, <1>7

LEMMA LoadedFrom ==
    ASSUME OneGeneration, UNCHANGED <<db, hist>>, NEW b \in Backend,
           \A c \in Backend \ {b} : cache'[c] = cache[c] /\ filled'[c] = filled[c],
           (filled'[b] = "query" /\ cache'[b].warmed) =>
              \/ cache'[b] = cache[b] /\ filled[b] = "query"
              \/ cache'[b] = hist[db.gen] /\ cache'[b].gen = db.gen /\ db.gen <= db.gen
    PROVE  OneGeneration'
BY Zenon DEF OneGeneration

LEMMA OneGenerationStep == ASSUME Typed, RowsCounted, OneGeneration, [Next]_vars PROVE OneGeneration'
<1>1. ASSUME UNCHANGED <<db, hist, cache, filled>> PROVE OneGeneration'
  BY Zenon, <1>1 DEF OneGeneration
<1>2. ASSUME NEW b \in Backend, Query(b) PROVE OneGeneration'
  <2>1. UNCHANGED <<db, hist>> /\ \A c \in Backend \ {b} : cache'[c] = cache[c] /\ filled'[c] = filled[c]
    BY Zenon, <1>2 DEF Query, Typed
  <2>2. db.gen <= db.gen /\ hist[db.gen] = Warm(EmptyCache, db)
    BY DEF Typed, Tables, OneGeneration
  <2> QED
    BY <1>2, <2>1, <2>2, QueryLoads, LoadedFrom
<1>3. ASSUME NEW b \in Backend, NEW c \in CacheMaps, UNCHANGED <<db, hist, filled>>,
             cache' = [cache EXCEPT ![b] = c], ~c.warmed \/ c = cache[b]
      PROVE  OneGeneration'
  <2>1. \A d \in Backend \ {b} : cache'[d] = cache[d] /\ filled'[d] = filled[d]
    BY Zenon, <1>3 DEF Typed
  <2>2. cache'[b] = c /\ filled'[b] = filled[b]
    BY Zenon, <1>3 DEF Typed
  <2> QED
    BY Zenon, <1>3, <2>1, <2>2, LoadedFrom
<1>4. ASSUME NEW b \in Backend, Disconnect(b) PROVE OneGeneration'
  <2>1. UNCHANGED <<db, hist>> /\ \A c \in Backend \ {b} : cache'[c] = cache[c] /\ filled'[c] = filled[c]
    BY Zenon, <1>4 DEF Disconnect, Typed
  <2>2. filled'[b] = "none"
    BY Zenon, <1>4 DEF Disconnect, Typed
  <2> QED
    BY Zenon, <2>1, <2>2, LoadedFrom
<1>5. ASSUME NEW b \in Backend, ReadSchema(b) \/ ReadIdents(b) \/ ReadGeneration(b) PROVE OneGeneration'
  <2>1. UNCHANGED <<db, hist>> /\ \A c \in Backend \ {b} : cache'[c] = cache[c] /\ filled'[c] = filled[c]
    BY Zenon, <1>5 DEF ReadSchema, ReadIdents, ReadGeneration, LoadStep, Typed
  <2>2. filled'[b] = "tx"
    BY Zenon, <1>5 DEF ReadSchema, ReadIdents, ReadGeneration, LoadStep, Typed
  <2> QED
    BY Zenon, <2>1, <2>2, LoadedFrom
<1>6. ASSUME NEW b \in Backend, CheckGeneration(b) \/ Install(b) \/ EndTransact(b) \/ Pass2Fails(b)
      PROVE  OneGeneration'
  <2>1. PICK c : c = Invalidate(cache[b]) /\ c \in CacheMaps /\ ~c.warmed
    BY Zenon, InvalidateCold DEF Typed
  <2>2. cache' = cache \/ cache' = [cache EXCEPT ![b] = c] \/ cache' = [cache EXCEPT ![b] = cache[b]]
    BY Zenon, <1>6, <2>1 DEF CheckGeneration, Install, EndTransact, Pass2Fails
  <2>3. UNCHANGED <<db, hist, filled>>
    BY Zenon, <1>6 DEF CheckGeneration, Install, EndTransact, Pass2Fails, EndTx
  <2>4. cache[b] \in CacheMaps
    BY Zenon DEF Typed
  <2> QED
    BY Zenon, <1>1, <1>3, <2>1, <2>2, <2>3, <2>4
<1>7. ASSUME NEW b \in Backend, Commit(b) PROVE OneGeneration'
  <2>1. PICK g, w : g = View(b).gen /\ w = Warm(EmptyCache, View(b))
    BY Zenon
  <2>2. hist' = Extend(hist, g, w) /\ db' = View(b) /\ UNCHANGED <<cache, filled>>
    BY Zenon, <1>7, <2>1 DEF Commit, EndTx
  <2>3. /\ DOMAIN hist' = DOMAIN hist \cup {g} /\ hist'[g] = w
        /\ \A x \in DOMAIN hist : x # g => hist'[x] = hist[x]
    BY Zenon, <2>2 DEF Extend
  <2>4. db \in Tables /\ db' \in Tables /\ db.gen \in Nat /\ g \in Nat /\ db'.gen = g /\ db.gen <= g
    BY <1>7, <2>1, <2>2, CommitRaises DEF Typed, Tables
  <2>5. g = db.gen => w = hist[db.gen]
    <3>1. ASSUME g = db.gen PROVE w = Warm(EmptyCache, db)
      <4>1. mine[b].bumps = 0
        BY <1>7, <2>4, <3>1, CommitRaises
      <4>2. db'.idents = db.idents /\ db'.schema = db.schema
        BY Zenon, <1>7, <4>1, CommitRaises
      <4>3. View(b).schema = db.schema /\ View(b).idents = db.idents /\ View(b).gen = db.gen
        BY Zenon, <2>1, <2>2, <3>1, <4>2
      <4> QED
        BY Zenon, <2>1, <2>4, <4>3, SameLoad, ViewTyped
    <3> QED
      BY Zenon, <3>1 DEF OneGeneration
  <2>6. ASSUME NEW c \in Backend, filled'[c] = "query", cache'[c].warmed
        PROVE  /\ cache'[c].gen \in DOMAIN hist' /\ cache'[c].gen <= db'.gen
               /\ cache'[c] = hist'[cache'[c].gen]
    <3>1. PICK x : x = cache[c].gen /\ x \in DOMAIN hist /\ x <= db.gen /\ cache[c] = hist[x] /\ x \in Nat
      BY Zenon, <2>2, <2>6 DEF OneGeneration, Typed, CacheMaps
    <3>2. hist'[x] = hist[x]
      BY <2>3, <2>4, <2>5, <3>1
    <3> QED
      BY <2>2, <2>3, <2>4, <3>1, <3>2
  <2>7. db'.gen \in DOMAIN hist' /\ hist'[db'.gen] = Warm(EmptyCache, View(b))
    BY Zenon, <2>1, <2>3, <2>4
  <2> QED
    BY Zenon, <2>2, <2>6, <2>7 DEF OneGeneration
<1>8. ASSUME NEW b \in Backend, NEW j \in Jobs, Transact(b, j) PROVE OneGeneration'
  BY Zenon, <1>1, <1>8 DEF Transact
<1>9. ASSUME NEW b \in Backend, QueryInTransaction(b) \/ Rollback(b) PROVE OneGeneration'
  BY Zenon, <1>1, <1>9 DEF QueryInTransaction, Rollback, EndTx
<1>10. CASE UNCHANGED vars
  BY Zenon, <1>1, <1>10 DEF vars
<1> QED
  BY Zenon, <1>2, <1>4, <1>5, <1>6, <1>7, <1>8, <1>9, <1>10 DEF Next

-----------------------------------------------------------------------------
(* The theorems *)

SchemaInv == Typed /\ RowsCounted /\ OneGeneration

LEMMA SchemaInit == Init => SchemaInv
<1> SUFFICES ASSUME Init PROVE SchemaInv
  BY Zenon
<1>2. db \in Tables
  BY Zenon, EmptyPartial DEF Init, Tables
<1>3. PlainData \in Job /\ PlainData.ident = NoIdent
  BY Zenon DEF PlainData, Job
<1>4. Typed
  <2>1. mine \in [Backend -> Rows] /\ saved \in [Backend -> Rows] /\ cache \in [Backend -> CacheMaps]
    BY Zenon, EmptyCacheTyped DEF Init
  <2>2. seq \in 0..MaxEntid
    BY SchemaCacheAssumption DEF Init
  <2>3. job \in [Backend -> Job] /\ \A b \in Backend : job[b].ident # NoIdent => job[b].e \in Entid
    BY Zenon, <1>3 DEF Init
  <2> QED
    BY Zenon, <1>2, <2>1, <2>2, <2>3 DEF Init, Typed
<1>5. RowsCounted
  BY Zenon, NoRowsCounted DEF Init, RowsCounted
<1>6. OneGeneration
  <2>1. db.gen = 1 /\ DOMAIN hist = {1} /\ hist[1] = Warm(EmptyCache, db)
    BY Zenon DEF Init
  <2> QED
    BY Zenon, <2>1 DEF Init, OneGeneration
<1> QED
  BY Zenon, <1>4, <1>5, <1>6 DEF SchemaInv

LEMMA SchemaInvariant == Spec => []SchemaInv
<1>1. SchemaInv /\ [Next]_vars => SchemaInv'
  BY Zenon, TypedStep, RowsStep, OneGenerationStep DEF SchemaInv
<1> QED
  BY <1>1, SchemaInit, PTL DEF Spec

\* A cache that a query filled holds exactly what the tables held at the
\* generation it recorded, however the transactions of other connections
\* interleave with its loads and comparisons (cache.rs: warm and ensure_fresh).
THEOREM OneGenerationPerLoad == Spec => []QueryLoadsOneGeneration
<1>1. SchemaInv => QueryLoadsOneGeneration
  <2>1. SUFFICES ASSUME SchemaInv, NEW b \in Backend, filled[b] = "query", cache[b].warmed
                 PROVE  cache[b] = [hist[cache[b].gen] EXCEPT !.gen = cache[b].gen]
    BY Zenon DEF QueryLoadsOneGeneration
  <2>2. cache[b] = hist[cache[b].gen] /\ cache[b] \in CacheMaps
    BY Zenon, <2>1 DEF SchemaInv, OneGeneration, Typed
  <2>3. \A c \in CacheMaps : c = [c EXCEPT !.gen = c.gen]
    BY Zenon DEF CacheMaps
  <2> QED
    BY Zenon, <2>2, <2>3
<1> QED
  BY <1>1, SchemaInvariant, PTL

\* Every commit that changes the schema tables raises the generation, so that
\* the next comparison of any connection notices (transact.rs:
\* bump_store_generation in execute_transaction_body).
THEOREM CommitsRaiseGeneration == Spec => ChangesRaiseGeneration
<1>1. SchemaInv /\ [Next]_vars => [<<db'.schema, db'.idents>> # <<db.schema, db.idents>> => db'.gen > db.gen]_vars
  <2>1. SUFFICES ASSUME SchemaInv, [Next]_vars, <<db'.schema, db'.idents>> # <<db.schema, db.idents>>
                 PROVE  db'.gen > db.gen
    BY Zenon
  <2>2. PICK b \in Backend : Commit(b)
    BY Zenon, <2>1 DEF Next, vars, Query, Disconnect, QueryInTransaction, Transact, CheckGeneration, ReadSchema,
                ReadIdents, ReadGeneration, LoadStep, Install, EndTransact, Pass2Fails, Rollback
  <2>3. mine[b].bumps # 0 /\ mine[b].bumps \in Nat /\ db'.gen = db.gen + mine[b].bumps /\ db.gen \in Nat
    BY Zenon, <2>1, <2>2, CommitRaises DEF SchemaInv, Typed, Tables
  <2> QED
    BY <2>3
<1> QED
  BY <1>1, SchemaInvariant, PTL DEF Spec, ChangesRaiseGeneration

\* A lookup of a query uses the attributes and idents that are committed when it
\* runs, unless a transaction of the same connection filled the cache (cache.rs:
\* ensure_fresh compares with the row that every schema change has bumped).
THEOREM QueriesUseCommitted == Spec => QueryUsesCommitted
<1>1. SchemaInv => [\A b \in Backend : Query(b) /\ filled'[b] = "query" => cache'[b] = Warm(EmptyCache, db)]_vars
  BY Zenon, QueryLoads DEF SchemaInv
<1> QED
  BY <1>1, SchemaInvariant, PTL DEF QueryUsesCommitted

=============================================================================
