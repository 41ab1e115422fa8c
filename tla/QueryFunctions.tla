--------------------------- MODULE QueryFunctions ---------------------------
(***************************************************************************)
(* Where-functions and inputs: what the compiler of functions/query.rs     *)
(* makes of searches, ground, get-else, missing?, arithmetic, text         *)
(* functions, and of the :in bindings.                                     *)
(***************************************************************************)
EXTENDS QueryCompiler

-----------------------------------------------------------------------------
(* Where-functions.  An expression a function binds is kept in extra, with  *)
(* the placeholders of the builder it was compiled with.                    *)

\* keyword_to_ident keeps the colon of a keyword; an ident resolves when it is
\* registered as written, with one colon.
KeywordToIdent(a) == [colons |-> 1, a |-> a]
WithColon(id) == [id EXCEPT !.colons = @ + 1]
Resolves(id) == id.colons = 1 /\ id.a \in Attr

\* FtsJoin: a search adds a table, its conditions and its parameters, and binds
\* the entity and what it found, the column val.
Joining(st, c, al, from, where, ps, val) ==
    [st EXCEPT !.ps = @ \o ps,
               !.fts = Append(@, [al |-> al, from |-> from, e |-> c.e, where |-> where]),
               !.extra = (c.e.n :> Item(al, "e")) @@ (c.v.n :> Item(al, val)) @@ @]

\* A search of the projection of the texts.  The rank is left out.
TextSearch(st, c, al, more) ==
    LET i == Len(st.ps)
    IN  Joining(st, c, al, CurrentText(al), <<AttributeIs(al, i + 1), TextIn(al, c.hits, i + 2)>>,
                <<c.a, c.term>> \o more, "v_text")

\* build_fulltext_join: an empty term matches nothing.
Fulltext(st, c, al) ==
    IF c.term # Null THEN TextSearch(st, c, al, <<>>)
    ELSE Joining(st, c, al, CurrentText(al), <<AttributeIs(al, Len(st.ps) + 1), Never>>, <<c.a>>, "v_text")

\* build_rum_fulltext_join
RumFulltext(st, c, al) == Fulltext(st, c, al)

\* build_fuzzy_match_join: k edits, eight at most.
FuzzyMatch(st, c, al) == IF c.n \in 0..8 THEN TextSearch(st, c, al, <<c.n>>) ELSE Fail(st, "fn-arg")

\* build_similar_to_join: a similarity in (0, 1], in tenths here.
SimilarTo(st, c, al) == IF c.n \in 1..10 THEN TextSearch(st, c, al, <<c.n>>) ELSE Fail(st, "fn-arg")

\* build_vector_near_join: the k nearest of the attribute's vectors, cut off
\* inside a subquery.
VectorNear(st, c, al) ==
    CASE c.n <= 0 -> Fail(st, "fn-arg")
      [] c.n > 0 /\ c.a \notin Attr -> Fail(st, "unknown-attribute")
      [] OTHER -> Joining(st, c, al, NearestTable(al, c.near, c.n), <<>>, <<c.a, c.term, c.n>>, "dist")

\* build_infer_near_join: the k nearest of the attribute's texts.
InferNear(st, c, al) ==
    IF c.n <= 0 THEN Fail(st, "fn-arg")
    ELSE Joining(st, c, al, NearestTexts(al, c.near, c.n, Len(st.ps) + 1), <<>>, <<c.a, c.term, c.n>>, "dist")

\* build_postgis_join: the k nearest, those within a radius, or those that
\* contain or intersect a shape, which have no distance.
GeomJoin(st, c, al) ==
    CASE c.fn = "geom-near" -> Joining(st, c, al, NearestTable(al, c.near, c.n), <<>>, <<c.term, c.n>>, "dist")
      [] c.fn = "geom-within" ->
            Joining(st, c, al, NearestTable(al, c.near, Len(c.near)), <<>>, <<c.term, c.n>>, "dist")
      [] OTHER -> [Joining(st, c, al, NearestTable(al, c.near, Len(c.near)), <<>>, <<c.term>>, "dist") EXCEPT
                      !.extra = (c.v.n :> NullItem) @@ @]

Geom(st, c, al) ==
    CASE c.a \notin Attr -> Fail(st, "unknown-attribute")
      [] c.a \in Attr /\ c.fn \in {"geom-near", "geom-within"} /\ c.n <= 0 -> Fail(st, "fn-arg")
      [] OTHER -> GeomJoin(st, c, al)

\* build_pg_infer_table_join: the rows a model answers with, joined with
\* nothing.  A variable in the place of the prompt is never resolved.
InferTable(st, c, al) ==
    LET table == ModelTable(al, c.near, c.prompt.k = "var")
        s1 == IF c.prompt.k = "var" THEN st ELSE [st EXCEPT !.ps = Append(@, c.prompt.v.x)]
    IN  [s1 EXCEPT !.fts = Append(@, [al |-> al, from |-> table, e |-> Blank, where |-> <<>>]),
                   !.extra = (c.v.n :> Item(al, "dist")) @@ @]

AddSearch(st, c, i) ==
    CASE c.fn = "fulltext" -> Fulltext(st, c, <<"fts_d", i>>)
      [] c.fn = "rum-fulltext" -> RumFulltext(st, c, <<"rum_d", i>>)
      [] c.fn = "fuzzy-match" -> FuzzyMatch(st, c, <<"fuzzy_d", i>>)
      [] c.fn = "similar-to" -> SimilarTo(st, c, <<"sim_d", i>>)
      [] c.fn = "vector-near" -> VectorNear(st, c, <<"vn_d", i>>)
      [] c.fn = "infer-near" -> InferNear(st, c, <<"in_d", i>>)
      [] c.fn = "infer-walk" -> InferTable(st, c, <<"pi_d", i>>)
      [] OTHER -> Geom(st, c, <<"geo_d", i>>)

\* The argument of a text function: a text is bound, a variable resolved when
\* the SELECT list is written, and a number is allowed to metaphone only.
TextArg(st, fn, t) ==
    CASE t.k = "var" -> [st EXCEPT !.sel = Append(@, t)]
      [] t.k = "const" /\ t.v.t = "string" ->
            [st EXCEPT !.sel = Append(@, ParItem(Len(st.ps) + 1)), !.ps = Append(@, t.v.x)]
      [] t.k = "const" /\ t.v.t = "int" /\ fn = "metaphone" /\ Len(st.sel) = 1 ->
            [st EXCEPT !.sel = Append(@, NumberItem(t.v.x))]
      [] OTHER -> Fail(st, "fn-arg")

TextCall(st, c, arity) ==
    LET s1 == FoldLeft(LAMBDA s, t : TextArg(s, c.fn, t), st, c.args)
    IN  IF Len(c.args) \notin arity THEN Fail(st, "fn-arity")
        ELSE [s1 EXCEPT !.sel = <<>>, !.extra = (c.n.n :> [k |-> "callfn", table |-> c.table, args |-> s1.sel]) @@ @]

\* build_fuzzystrmatch_binding
FuzzyStr(st, c) == TextCall(st, c, IF c.fn \in {"levenshtein", "metaphone"} THEN {2} ELSE {1})

\* build_pg_infer_scalar_binding
InferScalar(st, c) == TextCall(st, c, {2, 3})

\* A scalar ground is an input, and an expression of its own.
AddGround(st, c) ==
    LET v == c.rows[1][1]
        mixed == Cardinality({c.rows[i][1].t : i \in 1..Len(c.rows)}) > 1
    IN  CASE c.form = "coll" /\ mixed -> Fail(st, "fn-arg")
          [] c.form # "scalar" /\ ~(c.form = "coll" /\ mixed) -> st
          [] c.form = "scalar" /\ v.t \in {"string", "keyword"} ->
                [st EXCEPT !.ps = Append(@, v.x), !.extra = (c.vars[1] :> ParItem(Len(st.ps) + 1)) @@ @]
          [] OTHER -> [st EXCEPT !.extra = (c.vars[1] :> NumberItem(v.x)) @@ @]

AddGetElse(st, c) ==
    [st EXCEPT !.ps = IF c.default.t \in {"string", "keyword"} THEN Append(@, c.default.x) ELSE @,
               !.extra = (c.r.n :> NullItem) @@ @]

Arithmetic(c) == [k |-> "fn", op |-> c.op, l |-> c.l, r |-> c.r]

\* The where-functions of the query itself; the number of a search is that of
\* the searches before it.
AddWhereFn(st, c, i) ==
    CASE c.k = "search" -> AddSearch(st, c, i)
      [] c.k = "get-else" -> AddGetElse(st, c)
      [] c.k = "ground" -> AddGround(st, c)
      [] c.k = "arith" -> [st EXCEPT !.extra = (c.n.n :> Arithmetic(c)) @@ @]
      [] c.k = "textfn" -> IF c.fn \in {"infer-similar", "infer-implies"} THEN InferScalar(st, c) ELSE FuzzyStr(st, c)
      [] OTHER -> st

\* Those of an arm of an OR, where only searches, arithmetic and text functions
\* are allowed.
AddArmFn(st, c, i) ==
    IF c.k \in {"search", "arith", "textfn"} THEN AddWhereFn(st, c, i) ELSE Fail(st, "unsupported-query")

FnKinds == {"search", "get-else", "ground", "arith", "textfn"}

FnsOf(cs) == SelectSeq(cs, LAMBDA c : c.k \in FnKinds)

\* The entity a search binds joins with the patterns of the query.
SearchEntities(st) ==
    FoldLeft(LAMBDA s, f : IF f.e.k # "var" \/ f.e.n \in DOMAIN s.vta THEN s
                           ELSE BindVar(s, f.e.n, f.al, "e"), st, st.fts)

SearchJoins(st) ==
    [st EXCEPT !.from = @ \o [i \in 1..Len(st.fts) |-> st.fts[i].from],
               !.where = FoldLeft(LAMBDA w, f : w \o f.where, @, st.fts)]

\* missing?: the attribute is looked up with a second colon in front of it.
Missings(st, cs) ==
    LET One(s, c) ==
            IF ~Resolves(WithColon(KeywordToIdent(c.a))) \/ ~Known(s, c.e) THEN s
            ELSE Where(s, NotExists(<<Datoms(<<"m", 1>>, Type[c.a], FALSE)>>,
                          <<Cmp("=", Col(<<"m", 1>>, "e"), Col(s.vta[c.e.n][1], s.vta[c.e.n][2])),
                            Cmp("=", Col(<<"m", 1>>, "a"), Lit(c.a)),
                            Cmp("=", Col(<<"m", 1>>, "added"), Lit(BoolValue(TRUE).x))>>))
    IN  FoldLeft(One, st, OfKind(cs, "missing?"))

-----------------------------------------------------------------------------
(* Inputs: the elements of the "inputs" array, one for each :in binding, and *)
(* the collections, tuples and relations of ground.                          *)

\* A JSON value: a number (an integer, for no input is a double), a string, or a string with a leading colon.  An
\* array where one value is expected, or a null, constrains nothing.
Json(v) == [j |-> CASE v.t \in {"ref", "long", "int"} -> "num" [] v.t = "string" -> "str"
                    [] v.t = "keyword" -> "kw" [] OTHER -> v.t, x |-> v.x]

\* bind_input_value
InputValue(st, al, v) ==
    CASE v.j = "str" -> BoundTo(st, "=", Col(al, "v_text"), v.x)
      [] v.j = "kw" -> BoundTo(st, "=", Col(al, "v_keyword"), v.x)
      [] v.j = "num" -> BoundTo(st, "=", Col(al, "v_long"), v.x)
      [] v.j = "eid" -> BoundTo(st, "=", Col(al, "v_ref"), v.x)
      [] OTHER -> st

\* bind_input_entity, and the attribute and transaction columns.
InputAt(st, n, v) ==
    LET at == st.vta[n]
    IN  CASE n \notin DOMAIN st.vta -> st
          [] n \in DOMAIN st.vta /\ at[2] = "v" -> InputValue(st, at[1], v)
          [] n \in DOMAIN st.vta /\ at[2] = "e" ->
                IF v.j \in {"num", "eid"} THEN BoundTo(st, "=", Col(at[1], "e"), v.x) ELSE st
          [] n \in DOMAIN st.vta /\ at[2] \in {"a", "tx"} ->
                IF v.j = "num" THEN BoundTo(st, "=", Col(at[1], at[2]), v.x) ELSE st
          [] OTHER -> st

\* The text of a keyword with its colon, which a code of its own stands for.
Colon(v) == IF v.j = "kw" THEN v.x + 5 ELSE v.x

\* The typed column the JSON type of a value chooses.
JsonColumn(v) == CASE v.j = "num" -> "v_long" [] v.j = "kw" -> "v_keyword" [] OTHER -> "v_text"

\* build_collection_in_clause: the first value decides the column, and values
\* of another type are dropped.
CollectionAt(st, n, vs) ==
    LET at == st.vta[n]
        column == IF at[2] = "v" THEN JsonColumn(vs[1]) ELSE at[2]
        fit == SelectSeq(vs, LAMBDA v : (v.j = "num") = (column \notin {"v_text", "v_keyword"}))
        cells == [i \in 1..Len(fit) |-> IF column = "v_text" THEN Colon(fit[i]) ELSE fit[i].x]
    IN  CASE n \notin DOMAIN st.vta -> st
          [] n \in DOMAIN st.vta /\ vs = <<>> -> Where(st, Never)
          [] n \in DOMAIN st.vta /\ vs # <<>> /\ at[2] \in {"v", "e", "tx"} ->
                IF fit = <<>> THEN st
                ELSE [Where(st, OneOf(Col(at[1], column), {Len(st.ps) + i : i \in 1..Len(fit)}))
                         EXCEPT !.ps = @ \o cells]
          [] OTHER -> st

\* build_relation_values_join: a VALUES table, whose columns are numbers (c) or
\* texts (t), joins with the variables; the first row decides the column of
\* each value, and PostgreSQL refuses a column of two types.
RelationAt(st, names, rows) ==
    LET w == Len(names)
        cells == FoldLeft(LAMBDA f, r : f \o [i \in 1..w |-> Colon(r[i])], <<>>, rows)
        name == [i \in 1..w |-> IF rows[1][i].j = "num" THEN <<"c0", "c1">>[i] ELSE <<"t0", "t1">>[i]]
        table == ValuesTable({[c \in Range(name) |-> Len(st.ps) + (r - 1) * w +
                                  CHOOSE i \in 1..w : name[i] = c] : r \in 1..Len(rows)})
        s1 == [st EXCEPT !.ps = @ \o cells, !.from = Append(@, table)]
        On(s, i) ==
            LET at == s.vta[names[i]]
            IN  IF names[i] \notin DOMAIN s.vta THEN s
                ELSE Where(s, Cmp("=", Col(at[1], IF at[2] = "v" THEN JsonColumn(rows[1][i]) ELSE at[2]),
                                       Col(<<"_in_rel", 0>>, name[i])))
        mixed == \E r \in 1..Len(rows), i \in 1..w : (rows[r][i].j = "num") # (rows[1][i].j = "num")
    IN  CASE rows = <<>> -> Where(st, Never)
          [] rows # <<>> /\ mixed -> Fail(st, "sql")
          [] OTHER -> FoldLeft(On, s1, [i \in 1..w |-> i])

\* parse_input_bindings: the scalar bindings take the first inputs, whatever
\* forms are written between them.
ScalarInputs(ins) ==
    LET scalars == SelectSeq(ins, LAMBDA b : b.form = "scalar")
    IN  FoldLeft(LAMBDA f, i : (scalars[i].vars[1] :>
                    (IF ins[i].form = "scalar" THEN Json(ins[i].rows[1][1]) ELSE [j |-> "array", x |-> Null])) @@ f,
                 <<>>, [i \in 1..Len(scalars) |-> i])

\* Mutant: a tuple binds its first variable only.
EnrichedFirst(st, b) == InputAt(st, b.vars[1], Json(b.rows[1][1]))

\* The collections, tuples and relations: parse_input_bindings_v2.  An "array"
\* is one the caller of the compiler left out.
Enriched(st, b) ==
    CASE b.form \in {"scalar", "array"} -> st
      [] b.form = "coll" -> CollectionAt(st, b.vars[1], [i \in 1..Len(b.rows) |-> Json(b.rows[i][1])])
      [] b.form = "tuple" -> FoldLeft(LAMBDA s, i : InputAt(s, b.vars[i], Json(b.rows[1][i])),
                                      st, [i \in 1..Len(b.vars) |-> i])
      [] b.form = "rel" -> RelationAt(st, b.vars, [i \in 1..Len(b.rows) |->
                                          [k \in 1..Len(b.vars) |-> Json(b.rows[i][k])]])

=============================================================================
