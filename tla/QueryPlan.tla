------------------------------ MODULE QueryPlan -----------------------------
(***************************************************************************)
(* The SQL that functions/query.rs generates, as data, and what PostgreSQL *)
(* makes of it.  A SELECT is a FROM list of aliased tables, a WHERE list   *)
(* of conditions, a SELECT list of expressions and the offset its          *)
(* placeholders were moved by.  Aliases are <<prefix, index>>.             *)
(***************************************************************************)
EXTENDS Datalog, TLC

Null == -1

\* Codes from LowText to HighText are texts and keywords, those after them the
\* idents of attributes, and those from LowDouble to HighDouble doubles; every
\* other number is a BIGINT.  SQL has no comparison of a text with a BIGINT.
LowText == 60
HighText == 79
LastIdent == 89
LowDouble == 90
HighDouble == 99
IsText(x) == x \in LowText..HighText
IsDouble(x) == x \in LowDouble..HighDouble
TextParam(x) == x \in LowText..LastIdent

-----------------------------------------------------------------------------
(* Tables *)

\* A row of build_datoms_union_subquery_opt, and of a typed single table: the
\* value in the column of its type, NULL in the others.
DatomRow(d) ==
    LET In(t) == IF d.v.t = t THEN d.v.x ELSE Null
    IN  [e |-> d.e, a |-> d.a, tag |-> d.v.t, v_ref |-> In("ref"), v_long |-> In("long"),
         v_double |-> In("double"), v_text |-> In("string"), v_keyword |-> In("keyword"), tx |-> d.tx,
         added |-> BoolValue(d.added).x]

ValueColumns == {"v_ref", "v_long", "v_double", "v_text", "v_keyword"}

\* value_type_to_table_info
TypedColumn(type) ==
    CASE type = "ref" -> "v_ref" [] type = "long" -> "v_long" [] type = "double" -> "v_double"
      [] type = "string" -> "v_text" [] type = "keyword" -> "v_keyword"

\* build_value_decode_expr
Decoded(row) ==
    IF row.v_ref # Null THEN row.v_ref
    ELSE IF row.v_long # Null THEN row.v_long
    ELSE IF row.v_double # Null THEN row.v_double
    ELSE IF row.v_text # Null THEN row.v_text ELSE row.v_keyword

Datoms(alias, type, current) == [k |-> "datoms", al |-> alias, type |-> type, current |-> current]
CurrentText(alias) == [k |-> "text", al |-> alias]
NearestTable(alias, near, n) == [k |-> "nearest", al |-> alias, near |-> near, n |-> n]
NearestTexts(alias, near, n, i) == [k |-> "neartext", al |-> alias, near |-> near, n |-> n, i |-> i]
ModelTable(alias, near, broken) == [k |-> "model", al |-> alias, near |-> near, broken |-> broken]
RuleTable(n) == [k |-> "rule", al |-> <<n, 0>>, n |-> n, rows |-> {}]
RecursiveTable(n) == [k |-> "rule", al |-> <<n, 1>>, n |-> n, rows |-> {}]
ValuesTable(rows) == [k |-> "values", al |-> <<"_in_rel", 0>>, rows |-> rows]

Least2(m, n) == IF m < n THEN m ELSE n

\* The rows of a table.  db has the log, the projection and the relation each
\* rule's CTE holds; a VALUES table takes its cells from the parameters.
RowsOf(f, db, ps) ==
    CASE f.k = "datoms" ->
            {DatomRow(d) : d \in {r \in IF f.current THEN db.cur ELSE db.log :
                                    f.type = "any" \/ r.v.t = f.type}}
      [] f.k = "text" -> {DatomRow(d) : d \in {r \in db.cur : r.v.t = "string"}}
      [] f.k = "nearest" -> {[e |-> f.near[i], dist |-> i] : i \in 1..Least2(f.n, Len(f.near))}
      [] f.k = "neartext" ->
            LET kept == SelectSeq(f.near, LAMBDA e : \E r \in db.cur : r.e = e /\ r.a = ps[f.i] /\ r.v.t = "string")
            IN  {[e |-> kept[i], dist |-> i] : i \in 1..Least2(f.n, Len(kept))}
      [] f.k = "model" -> {[e |-> 0, dist |-> f.near[i]] : i \in 1..Len(f.near)}
      [] f.k = "rule" -> db.rules[f.n]
      [] f.k = "values" -> {[c \in DOMAIN r |-> ps[r[c]]] : r \in f.rows}

\* Every way to take one row of each table.
Joined(from, db, ps) ==
    FoldLeft(LAMBDA S, f : {(f.al :> r) @@ env : r \in RowsOf(f, db, ps), env \in S},
             {<<>>}, from)

-----------------------------------------------------------------------------
(* Conditions *)

Col(alias, c) == [k |-> "col", al |-> alias, c |-> c]
Par(i) == [k |-> "par", i |-> i]
Lit(x) == [k |-> "lit", x |-> x]
AnyText(alias) == [k |-> "anytext", al |-> alias]

\* alias.a = (SELECT entid FROM schema WHERE ident = $i)
AttributeIs(al, i) == [k |-> "ident", al |-> al, i |-> i]
Cmp(op, l, r) == [k |-> "cmp", op |-> op, l |-> l, r |-> r]
SameValue(al, bl) == [k |-> "same", l |-> al, r |-> bl]
Never == [k |-> "false"]
OneOf(l, is) == [k |-> "in", l |-> l, is |-> is]
NotSuperseded(al, type, i) == [k |-> "newer", al |-> al, type |-> type, i |-> i]
NotExists(from, where) == [k |-> "notexists", from |-> from, where |-> where]
TextIn(al, hits, i) == [k |-> "matches", al |-> al, hits |-> hits, i |-> i]

\* A column, a parameter, or the TEXT COALESCE over the columns of a value
\* whose type is unknown when the query is compiled.
Operand(o, env, ps) ==
    CASE o.k = "col" -> env[o.al][o.c] [] o.k = "par" -> ps[o.i]
      [] o.k = "lit" -> o.x [] o.k = "anytext" -> Decoded(env[o.al])

\* A comparison with NULL is not true.
True2(op, x, y) == x # Null /\ y # Null /\ Compare(op, x, y)

TrueFlat(c, env, db, ps) ==
    CASE c.k = "cmp" -> True2(c.op, Operand(c.l, env, ps), Operand(c.r, env, ps))
      [] c.k = "same" -> \A f \in ValueColumns \cup {"tag"} : env[c.l][f] = env[c.r][f]
      [] c.k = "false" -> FALSE
      [] c.k = "in" -> \E i \in c.is : True2("=", Operand(c.l, env, ps), ps[i])
      [] c.k = "ident" -> env[c.al].a = ps[c.i]
      [] c.k = "matches" -> ps[c.i] \in DOMAIN c.hits /\ env[c.al].v_text \in c.hits[ps[c.i]]
      [] c.k = "newer" ->
            ~ \E d \in db.log : /\ c.type = "any" \/ d.v.t = c.type
                                /\ d.e = env[c.al].e /\ d.a = env[c.al].a /\ d.added
                                /\ d.tx > env[c.al].tx /\ d.tx <= ps[c.i]

AllTrue(where, env, db, ps) == \A i \in 1..Len(where) : TrueFlat(where[i], env, db, ps)

IsTrue(c, env, db, ps) ==
    IF c.k = "notexists"
    THEN ~ \E sub \in Joined(c.from, db, ps) : AllTrue(c.where, sub @@ env, db, ps)
    ELSE TrueFlat(c, env, db, ps)

-----------------------------------------------------------------------------
(* What PostgreSQL refuses to run: a column that no table has (the compiler *)
(* writes alias.v, or alias.computed, for a variable bound elsewhere), and  *)
(* a comparison of a number with a text.                                    *)

NoSuchColumn(o) == o.k = "col" /\ o.c \in {"v", "computed", "expr"}

TextOperand(o, ps) ==
    CASE o.k = "col" -> o.c \in {"v_text", "v_keyword", "t0", "t1"} [] o.k = "par" -> TextParam(ps[o.i])
      [] o.k = "lit" -> FALSE [] o.k = "anytext" -> TRUE

RefusedFlat(c, ps) ==
    CASE c.k = "cmp" -> \/ NoSuchColumn(c.l) \/ NoSuchColumn(c.r)
                        \/ TextOperand(c.l, ps) # TextOperand(c.r, ps)
      [] c.k = "in" -> \E i \in c.is : TextOperand(c.l, ps) # TextParam(ps[i])
      [] c.k \in {"ident", "matches"} -> ~TextParam(ps[c.i])
      [] OTHER -> FALSE

Refused(where, ps) ==
    \E i \in 1..Len(where) :
        IF where[i].k = "notexists"
        THEN \E j \in 1..Len(where[i].where) : RefusedFlat(where[i].where[j], ps)
        ELSE RefusedFlat(where[i], ps)

-----------------------------------------------------------------------------
(* SELECT expressions, all of them cast to TEXT *)

\* A column, or the CASE over the typed columns of build_value_decode_expr.
Item(alias, c) == [k |-> "item", al |-> alias, c |-> c]
NullItem == [k |-> "null"]
ParItem(i) == [k |-> "par", i |-> i]
NumberItem(i) == [k |-> "number", i |-> i]
CallItem(table, args) == [k |-> "call", table |-> table, args |-> args]
ArithItem(op, l, r) == [k |-> "arith", op |-> op, l |-> l, r |-> r]

\* The number of a value in the arithmetic of a rule: 0 for a text.
NumberOrZero(alias) == [k |-> "orzero", al |-> alias]

\* build_numeric_value_decode_expr: references, longs and rounded doubles (the
\* double LowDouble + i rounds to i), NULL for a text.
NumericDecoded(row) ==
    IF row.v_ref # Null THEN row.v_ref
    ELSE IF row.v_double # Null THEN row.v_double - LowDouble ELSE row.v_long

NumericOf(x, env, ps) ==
    CASE x.k = "item" -> IF x.c = "v" THEN NumericDecoded(env[x.al]) ELSE env[x.al][x.c]
      [] x.k = "number" -> x.i
      [] x.k = "orzero" -> IF NumericDecoded(env[x.al]) = Null THEN 0 ELSE NumericDecoded(env[x.al])
      [] OTHER -> Null

PlainValue(x, env, ps) ==
    CASE x.k = "item" -> IF x.c = "v" THEN Decoded(env[x.al]) ELSE env[x.al][x.c]
      [] x.k = "null" -> Null
      [] x.k = "par" -> ps[x.i]
      [] x.k = "number" -> x.i

ItemValue(x, env, ps) ==
    CASE x.k \in {"item", "null", "par", "number"} -> PlainValue(x, env, ps)
      [] x.k = "call" ->
            LET args == [i \in 1..Len(x.args) |-> PlainValue(x.args[i], env, ps)]
            IN  IF args \in DOMAIN x.table THEN x.table[args] ELSE Null
      [] x.k = "arith" ->
            LET l == NumericOf(x.l, env, ps)
                r == NumericOf(x.r, env, ps)
            IN  IF l = Null \/ r = Null THEN Null ELSE Computed(x.op, l, r)

=============================================================================
