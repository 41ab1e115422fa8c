----------------------------- MODULE QueryEngine ----------------------------
(***************************************************************************)
(* mentat_query: a Datalog query compiled to SQL (QueryCompiler,           *)
(* QueryFunctions), run over the log or the projection, ordered, limited   *)
(* and turned into JSON; and mentat_query_view, which gives the rows as a  *)
(* table of texts.  Each is one action, for the whole call reads a single  *)
(* snapshot of the store.                                                  *)
(***************************************************************************)
EXTENDS QueryFunctions

CONSTANTS
    Seeds,      \* the facts a store may start with, asserted by transaction 100
    Changes,    \* the facts later transactions assert and retract
    Numerals,   \* the texts that read as numbers, and the numbers
    Queries,    \* the sequence of the queries asked
    MaxTx,      \* bound: transactions after the first
    MaxRows,    \* mentat.max_result_rows
    MaxColumns, \* the columns of a view (8)
    RuleDepth   \* bound: rounds of a recursive rule

VARIABLES
    log,        \* datoms_<type>_new
    cur,        \* current_<type>
    order,      \* the ids of the committed transactions, in the order they committed
    asked,      \* the function called and the number of its query, or NoQuery
    answer      \* its response

vars == <<log, cur, order, asked, answer>>

NoQuery == [fn |-> "none", i |-> 0]

-----------------------------------------------------------------------------
(* SELECT *)

\* resolve_var_refs, in a numeric context and for a whole expression.
NumberOf(st, t) ==
    CASE t.k = "const" -> NumberItem(t.v.x)
      [] Known(st, t) -> Item(st.vta[t.n][1], st.vta[t.n][2])
      [] t.k = "var" /\ ~Known(st, t) /\ t.n \in DOMAIN st.extra -> st.extra[t.n]
      [] OTHER -> NullItem

Expression(st, n) ==
    LET x == st.extra[n]
        Plain2(t) == IF t.k # "var" THEN t ELSE NumberOf(st, t)
    IN  CASE x.k = "fn" -> ArithItem(x.op, NumberOf(st, x.l), NumberOf(st, x.r))
          [] x.k = "callfn" -> CallItem(x.table, [i \in 1..Len(x.args) |-> Plain2(x.args[i])])
          [] OTHER -> x

\* build_aggregate_select
AggregateItem(st, el) ==
    [k |-> "agg", f |-> el.f,
     numeric |-> el.n \in DOMAIN st.vtt /\ st.vtt[el.n] \in {"long", "ref"},
     x |-> CASE el.n \in DOMAIN st.vta -> Item(st.vta[el.n][1], st.vta[el.n][2])
             [] el.n \notin DOMAIN st.vta /\ el.n \in DOMAIN st.extra -> Expression(st, el.n)
             [] OTHER -> NullItem]

\* One element of :find; a pull is the entity it is about.
SelectItem(st, el) ==
    CASE el.k = "agg" -> AggregateItem(st, el)
      [] el.k = "var" /\ el.n \in DOMAIN st.extra -> Expression(st, el.n)
      [] OTHER -> Item(st.vta[el.n][1], st.vta[el.n][2])

Bound(st, el) == el.k = "agg" \/ el.n \in DOMAIN st.vta \/ (el.k = "var" /\ el.n \in DOMAIN st.extra)

Select(st, find) ==
    CASE \E i \in 1..Len(find) : ~Bound(st, find[i]) -> Fail(st, "unbound-variable")
      [] st.from = <<>> -> Fail(st, "no-joins")
      [] OTHER -> [st EXCEPT !.sel = [i \in 1..Len(find) |-> SelectItem(st, find[i])]]

-----------------------------------------------------------------------------
(* One SELECT of the query, and the arms of an OR *)

\* The scalar inputs, and the scalar grounds over them.
Inputs(q) ==
    LET grounds == SelectSeq(OfKind(q.where, "ground"), LAMBDA c : c.form = "scalar")
    IN  FoldLeft(LAMBDA f, c : (c.vars[1] :> Json(c.rows[1][1])) @@ f, ScalarInputs(q.in), grounds)

Calls(q, cs) == IF q.rules = <<>> THEN <<>> ELSE OfKind(cs, "rule")

InputsAt(st, inputs) == FoldLeft(LAMBDA s, n : InputAt(s, n, inputs[n]), st, SetToSeq(DOMAIN inputs))

Bindings(st, bs) == FoldLeft(Enriched, st, bs)

Nots(st, nots, when) == FoldLeft(LAMBDA s, c : CompileNot(s, c.cs, when), st, nots)

Predicates(st, preds, inputs) == FoldLeft(LAMBDA s, c : CompilePredicate(s, c, inputs), st, preds)

\* The FROM list: rules, searches and patterns.
Tables(st, q, cs, calls) ==
    Missings(SearchJoins(CompilePatterns(SearchEntities(RuleScope(st, calls)), OfKind(cs, "pattern"), q.when)), cs)

\* build_extended_pattern_query: st has the where-functions already.
Body(st, q, cs, calls) ==
    Select(Predicates(Nots(Bindings(InputsAt(Tables(st, q, cs, calls), Inputs(q)),
                                    q.in \o OfKind(q.where, "ground")),
                           OfKind(cs, "not"), q.when),
                      OfKind(cs, "pred"), Inputs(q)),
           q.find)

Part(st, offset) == [from |-> st.from, where |-> st.where, sel |-> st.sel, offset |-> offset,
                     len |-> Len(st.ps)]

\* pattern_binds_var, for the variables of the predicates of an arm.
Grounded(cs, calls, arm) ==
    UNION {VarsOf({p.l, p.r}) : p \in Range(OfKind(arm, "pred"))} \subseteq
        UNION {VarsOf({p.e, p.a, p.v, p.tx, p.added}) : p \in Range(OfKind(cs, "pattern"))}
            \cup UNION {VarsOf(Range(c.args)) : c \in Range(calls)}

AddPart(plan, st, offset) ==
    [plan EXCEPT !.parts = Append(@, Part(st, offset)), !.ps = @ \o st.ps, !.err = IF @ = "" THEN st.err ELSE @]

\* Mutant: the placeholders of an arm are moved past the last arm only.
ArmOffsetShort(plan, q, main, arm) ==
    LET cs == SelectSeq(q.where, LAMBDA c : c.k \notin {"or"} \cup FnKinds) \o arm
    IN  AddPart(plan, Body(Start(<<0>>), q, cs, OfKind(cs, "rule")), Len(main.ps))

AddArmFns(st, fns, main) ==
    FoldLeft(LAMBDA s, i : AddArmFn(s, fns[i], Len(main.fts) + i),
             [st EXCEPT !.extra = main.extra, !.fts = main.fts], [i \in 1..Len(fns) |-> i])

\* An arm has a builder of its own; remap_param_indices moves its placeholders
\* past those bound before it.  What the query's where-functions compiled to
\* is copied with the placeholders of the query's builder, and moved as well.
Arm(plan, q, main, arm) ==
    LET cs == SelectSeq(q.where, LAMBDA c : c.k \notin {"or"} \cup FnKinds) \o arm
        calls == OfKind(cs, "rule")
    IN  AddPart(plan,
                Body(Need(AddArmFns(Start(<<0>>), FnsOf(arm), main), Grounded(cs, calls, arm), "unbound-var"),
                     q, cs, calls),
                Len(plan.ps))

Ors(q) == OfKind(q.where, "or")

\* The arms of the one OR a query may have.
Arms(plan, q, main) ==
    CASE Ors(q) = <<>> \/ plan.err # "" -> plan
      [] Len(Ors(q)) > 1 -> [plan EXCEPT !.err = "unsupported-query"]
      [] OTHER -> FoldLeft(LAMBDA p, arm : Arm(p, q, main, arm),
                           [plan EXCEPT !.parts = <<>>, !.union = TRUE], Ors(q)[1].arms)

Called(q) ==
    OfKind(q.where, "rule") \o (IF Ors(q) = <<>> THEN <<>> ELSE OfKind(FlattenSeq(Ors(q)[1].arms), "rule"))

\* A query of nothing but an OR has no SELECT of its own.
Base(st, q) ==
    IF OfKind(q.where, "pattern") = <<>> /\ Ors(q) # <<>> THEN st ELSE Body(st, q, q.where, Calls(q, q.where))

PlanOf(main, ctes, base) ==
    [ctes |-> ctes, parts |-> <<Part(base, 0)>>, ps |-> base.ps, err |-> base.err,
     vta |-> base.vta, vtt |-> base.vtt, union |-> FALSE, extra |-> main.extra, fts |-> main.fts]

WithRules(q, main, r) == Arms(PlanOf(main, r.ctes, Base(r.st, q)), q, main)

WithFns(q, main) == WithRules(q, main, RuleCtes(main, q.rules, Called(q), q.when))

AddWhereFns(st, fns) == FoldLeft(LAMBDA s, i : AddWhereFn(s, fns[i], i), st, [i \in 1..Len(fns) |-> i])

\* build_sql_from_datalog_enriched: the where-functions, the CTEs of the rules,
\* the query's own SELECT and the arms of its OR, in this order.
Compile(q) == WithFns(q, AddWhereFns(Start(<<0>>), FnsOf(q.where)))

-----------------------------------------------------------------------------
(* Running the SQL *)

PartParams(plan, part) == SubSeq(plan.ps, part.offset + 1, Len(plan.ps))

Envs(part, db, ps) == {env \in Joined(part.from, db, ps) :
                          \A i \in 1..Len(part.where) : IsTrue(part.where[i], env, db, ps)}

\* A rule's CTE: the rows of its clauses, until no clause adds one.
CteRows(parts, n, db, ps) ==
    LET Row(part, env) == [c \in {<<"col0", "col1", "col2">>[i] : i \in 1..Len(part.sel)} |->
                              ItemValue(part.sel[CHOOSE i \in 1..Len(part.sel) :
                                                    <<"col0", "col1", "col2">>[i] = c], env, ps)]
        Step(R) == UNION {{Row(parts[i], env) : env \in Envs(parts[i], [db EXCEPT !.rules = (n :> R)], ps)} :
                             i \in 1..Len(parts)}
        Rounds[k \in 0..RuleDepth] == IF k = 0 THEN {} ELSE Rounds[k - 1] \cup Step(Rounds[k - 1])
    IN  Rounds[RuleDepth]

Recursive(part) == \E i \in 1..Len(part.from) : part.from[i].k = "rule"

\* What PostgreSQL refuses: a condition it cannot type, an alias used twice, a
\* table that is no CTE, a recursive clause that is not the last of several.
Rejected(plan) ==
    \/ \E p \in Range(plan.parts) :
           \/ Refused(p.where, PartParams(plan, p))
           \/ Cardinality({f.al : f \in Range(p.from)}) < Len(p.from)
           \/ \E f \in Range(p.from) : f.k = "rule" /\ f.n \notin DOMAIN plan.ctes
           \/ \E f \in Range(p.from) : f.k = "model" /\ f.broken
    \/ \E n \in DOMAIN plan.ctes :
           \/ \E i \in 1..Len(plan.ctes[n]) : Refused(plan.ctes[n][i].where, plan.ps)
           \/ \E i \in 1..Len(plan.ctes[n]) :
                  Recursive(plan.ctes[n][i]) /\ (i < Len(plan.ctes[n]) \/ i = 1)

\* The text order of numbers ("10" before "2"), of doubles and of texts.  A
\* double's text is the number its bits are: 1e-247, of eighteen digits, comes
\* after 1.0, of nineteen.
TextKey(x) ==
    CASE x = Null -> 99999
      [] IsDouble(x) -> 20000 - x
      [] x # Null /\ IsText(x) -> 10000 + x
      [] x >= 0 /\ x < 10 -> (x + 1) * 121
      [] x >= 10 /\ x < 100 /\ ~IsText(x) /\ ~IsDouble(x) -> (x \div 10 + 1) * 121 + ((x % 10) + 1) * 11
      [] x >= 100 -> (x \div 100 + 1) * 121 + (((x \div 10) % 10) + 1) * 11 + (x % 10) + 1

Least(S, Key(_)) == CHOOSE x \in S : \A y \in S : Key(x) <= Key(y)

\* COUNT(DISTINCT), SUM, MIN and MAX of an expression over a group of rows.
Aggregated(it, envs, ps) ==
    LET real == {env \in envs : ItemValue(it.x, env, ps) # Null}
        vals == {ItemValue(it.x, env, ps) : env \in real}
        Key(x) == IF it.numeric THEN x ELSE TextKey(x)
        Back(x) == 0 - Key(x)
    IN  CASE it.f = "count" -> Cardinality(vals)
          [] it.f # "count" /\ vals = {} -> Null
          [] it.f = "sum" /\ vals # {} -> MapThenSumSet(LAMBDA env : ItemValue(it.x, env, ps), real)
          [] it.f = "min" /\ vals # {} -> Least(vals, Key)
          [] it.f = "max" /\ vals # {} -> Least(vals, Back)

HasAggregate(sel) == \E i \in 1..Len(sel) : sel[i].k = "agg"

\* The rows of one SELECT: grouped by the columns that are not aggregates.
PartRows(part, db, ps) ==
    LET envs == Envs(part, db, ps)
        plain == {i \in 1..Len(part.sel) : part.sel[i].k # "agg"}
        KeyOf(env) == [i \in plain |-> ItemValue(part.sel[i], env, ps)]
        keys == IF plain = {} THEN {<<>>} ELSE {KeyOf(env) : env \in envs}
        Group(key) == {env \in envs : plain = {} \/ KeyOf(env) = key}
    IN  {[i \in 1..Len(part.sel) |-> IF i \in plain THEN key[i] ELSE Aggregated(part.sel[i], Group(key), ps)] :
            key \in keys}

ResultRows(plan) ==
    LET db0 == [log |-> log, cur |-> cur, rules |-> <<>>]
        db == [db0 EXCEPT !.rules = [n \in DOMAIN plan.ctes |-> CteRows(plan.ctes[n], n, db0, plan.ps)]]
    IN  UNION {PartRows(p, db, PartParams(plan, p)) : p \in Range(plan.parts)}

-----------------------------------------------------------------------------
(* ORDER BY, LIMIT, and the response *)

\* Mutant: numbers are ordered as the texts they were selected as.
NumericOrderNever(plan, n) == FALSE

\* append_order_by: a column that holds entity ids, attributes, transactions,
\* longs or references is cast back to a number, except in a UNION.
NumericOrder(plan, n) ==
    /\ ~plan.union /\ n \in DOMAIN plan.vta
    /\ \/ plan.vta[n][2] \in {"e", "a", "tx"}
       \/ plan.vta[n][2] = "v" /\ plan.vtt[n] \in {"long", "ref"}

\* The columns to order by: those :order names, else, descending, the score
\* of the first search.
OrderColumns(q, plan) ==
    LET At(n) == {i \in 1..Len(q.find) : q.find[i].k = "var" /\ q.find[i].n = n}
        named == SelectSeq(q.order, LAMBDA o : At(o.n) # {})
        score == {i \in 1..Len(q.find) : /\ q.find[i].k = "var" /\ q.find[i].n \in DOMAIN plan.extra
                                         /\ plan.fts # <<>> /\ plan.fts[1].from.k \in {"nearest", "neartext"}
                                         /\ plan.extra[q.find[i].n] = Item(plan.fts[1].al, "dist")}
    IN  IF q.order # <<>>
        THEN [j \in 1..Len(named) |-> [i |-> CHOOSE i \in At(named[j].n) : TRUE, desc |-> named[j].desc,
                                       numeric |-> NumericOrder(plan, named[j].n)]]
        ELSE IF score = {} THEN <<>>
        ELSE <<[i |-> CHOOSE i \in score : TRUE, desc |-> TRUE, numeric |-> FALSE]>>

OrderKey(c, row) == LET k == IF c.numeric THEN (IF row[c.i] = Null THEN 99999 ELSE row[c.i]) ELSE TextKey(row[c.i])
                    IN  IF c.desc THEN 0 - k ELSE k

NotAfter(cols, r, s) ==
    \/ \A j \in 1..Len(cols) : OrderKey(cols[j], r) = OrderKey(cols[j], s)
    \/ \E j \in 1..Len(cols) : /\ OrderKey(cols[j], r) < OrderKey(cols[j], s)
                               /\ \A m \in 1..(j - 1) : OrderKey(cols[m], r) = OrderKey(cols[m], s)

Orderings(rows, cols) ==
    {sq \in SetToSeqs(rows) : \A i \in 1..(Len(sq) - 1) : NotAfter(cols, sq[i], sq[i + 1])}

UnitLimited(q) == q.form \in {"tuple", "scalar"}

\* The number of rows kept, or Null: the limit of the inputs replaces the one
\* of the query.
RowLimit(q) == IF q.page.limit # Null THEN q.page.limit
               ELSE IF q.limit # Null THEN q.limit ELSE IF UnitLimited(q) THEN 1 ELSE Null

\* has_explicit_limit looks for the word in the SQL, that of a subquery too.
LimitInside(q) ==
    \E i \in 1..Len(q.where) : q.where[i].k = "search" /\ q.where[i].fn \in {"vector-near", "infer-near", "geom-near"}
ExplicitLimit(q) == RowLimit(q) # Null \/ LimitInside(q)

\* The limit of the inputs is put in the place of the last LIMIT there is.
TruncatesSubquery(q) ==
    /\ q.page.limit # Null /\ q.limit = Null /\ ~UnitLimited(q)
    /\ LimitInside(q)

Window(sq, offset, limit) ==
    SubSeq(sq, offset + 1, IF limit = Null \/ offset + limit > Len(sq) THEN Len(sq) ELSE offset + limit)

\* decode_text_result: a text that reads as a number is one.
DecodeText(x) == IF x = Null THEN [j |-> "null", x |-> Null]
                 ELSE IF x \in DOMAIN Numerals THEN [j |-> "num", x |-> Numerals[x]]
                 ELSE [j |-> IF IsText(x) THEN "str" ELSE IF x \in {50, 51} THEN "bool" ELSE "num", x |-> x]

Errored(why) == [ok |-> FALSE, why |-> why, shape |-> "none", rows |-> <<>>]

\* format_find_response
Formatted(q, rows) ==
    [ok |-> TRUE, why |-> "", rows |-> rows,
     shape |-> IF q.form = "rel" /\ HasAggregate(q.find) /\ Len(rows) = 1 /\ Len(q.find) = 1
               THEN "scalar" ELSE q.form]

\* The guard reads one row more than the most it may return.
OverLimit(n) == n > MaxRows

\* The rows left after the offset, when there is no limit.
Remaining(rows, offset) == IF Cardinality(rows) > offset THEN Cardinality(rows) - offset ELSE 0

DecodeRows(w) == [i \in 1..Len(w) |-> [c \in 1..Len(w[i]) |-> DecodeText(w[i][c])]]

\* One reply for each window of the rows, for rows that compare equal come in
\* any order.
Fetched(q, plan, rows, guarded) ==
    IF guarded /\ ~ExplicitLimit(q) /\ OverLimit(Remaining(rows, q.page.offset))
    THEN {Errored("limit")}
    ELSE {[ok |-> TRUE, why |-> "", shape |-> "rows",
           rows |-> DecodeRows(Window(sq, q.page.offset, RowLimit(q)))] : sq \in Orderings(rows, OrderColumns(q, plan))}

RunSql(q, plan, guarded) ==
    CASE plan.err # "" -> {Errored(plan.err)}
      [] plan.err = "" /\ (Rejected(plan) \/ TruncatesSubquery(q)) -> {Errored("sql")}
      [] OTHER -> Fetched(q, plan, ResultRows(plan), guarded)

\* The rows, or the error, a call may get.
Executed(q, guarded) == RunSql(q, Compile(q), guarded)

\* What a call may answer.
Responses(q) == {IF got.ok THEN Formatted(q, got.rows) ELSE got : got \in Executed(q, TRUE)}

\* A cell of a view is the text of what was decoded.
Cell(c) == IF c.j = "null" THEN c ELSE [c EXCEPT !.j = "text"]
Cells(row) == [c \in 1..Len(row) |-> Cell(row[c])]

\* build_sql_from_datalog: only the scalar inputs are passed on.
ScalarsOnly(q) ==
    [q EXCEPT !.in = [i \in 1..Len(q.in) |->
                         IF q.in[i].form = "scalar" THEN q.in[i] ELSE [q.in[i] EXCEPT !.form = "array"]]]

\* The rows of a view, whatever their number.
ViewRows(q) ==
    IF Len(q.find) > MaxColumns THEN {Errored("columns")}
    ELSE {[got EXCEPT !.rows = [i \in DOMAIN got.rows |-> Cells(got.rows[i])]] :
             got \in Executed(ScalarsOnly(q), FALSE)}

-----------------------------------------------------------------------------
(* The store, and the call *)

Asserted(f, t) == [e |-> f.e, a |-> f.a, v |-> f.v, tx |-> t, added |-> TRUE]
Retracted(d, t) == [d EXCEPT !.tx = t, !.added = FALSE]

Init ==
    /\ log = {Asserted(f, 100) : f \in Seeds}
    /\ cur = log
    /\ order = <<100>>
    /\ asked = NoQuery
    /\ answer = Errored("")

Live(f) == {d \in cur : SameFact(d, f)}

\* The ids that connections hold.
Ids == 101..(100 + MaxTx)

\* The transaction t commits.  Each connection takes its ids from a block of
\* its own, so ids need not commit in their order (sql/02_tables.sql).
Commits(t) == asked = NoQuery /\ t \notin Range(order) /\ order' = Append(order, t)

\* The newest transaction there is: current_basis_tx.
Newest == Max(Range(order))

\* A transaction that asserts a fact; a value of cardinality one is retracted
\* in the same transaction (functions/transact.rs).
AssertFact(f, t) ==
    LET old == IF f.a \in Many THEN {} ELSE {d \in cur : d.e = f.e /\ d.a = f.a}
    IN  /\ Commits(t) /\ Live(f) = {}
        /\ log' = log \cup {Asserted(f, t)} \cup {Retracted(d, t) : d \in old}
        /\ cur' = (cur \ old) \cup {Asserted(f, t)}
        /\ UNCHANGED <<asked, answer>>

RetractFact(f, t) ==
    /\ Commits(t) /\ Live(f) # {}
    /\ log' = log \cup {Retracted(d, t) : d \in Live(f)}
    /\ cur' = cur \ Live(f)
    /\ UNCHANGED <<asked, answer>>

\* resolve_lookup_ref_to_eid: any entity the log ever asserted the value for.
LookupRef(v) == {d.e : d \in {r \in log : r.a = v.a /\ r.v = v.v /\ r.added}}

WithLookups(q) ==
    LET at == {i \in 1..Len(q.in) : q.in[i].form = "scalar" /\ q.in[i].rows[1][1].t = "lookup"}
        i == CHOOSE i \in at : TRUE
        found == LookupRef(q.in[i].rows[1][1])
        eids == IF found = {} THEN {[t |-> "null", x |-> Null]} ELSE {[t |-> "eid", x |-> e] : e \in found}
    IN  IF at = {} THEN {q} ELSE {[q EXCEPT !.in[i].rows = <<<<e>>>>] : e \in eids}

\* mentat_query_internal
mentat_query ==
    /\ asked = NoQuery
    /\ \E i \in DOMAIN Queries : /\ asked' = [fn |-> "query", i |-> i]
                                /\ \E r \in WithLookups(Queries[i]) : answer' \in Responses(r)
    /\ UNCHANGED <<log, cur, order>>

\* mentat_query_view_internal
mentat_query_view ==
    /\ asked = NoQuery
    /\ \E i \in DOMAIN Queries : /\ asked' = [fn |-> "view", i |-> i]
                                /\ \E r \in WithLookups(Queries[i]) : answer' \in ViewRows(r)
    /\ UNCHANGED <<log, cur, order>>

\* The caller has read the response.
Return ==
    /\ asked # NoQuery
    /\ asked' = NoQuery
    /\ answer' = Errored("")
    /\ UNCHANGED <<log, cur, order>>

Next ==
    \/ \E f \in Changes, t \in Ids : AssertFact(f, t) \/ RetractFact(f, t)
    \/ mentat_query \/ mentat_query_view \/ Return

Spec == Init /\ [][Next]_vars

-----------------------------------------------------------------------------
(* What an answer has to be *)

Plain(v) == [j |-> CASE v.t \in {"ref", "long", "int", "double"} -> "num" [] v.t = "boolean" -> "bool" [] OTHER -> "str",
             x |-> v.x]

Total(f, n, B) ==
    LET xs == {b[n].x : b \in B}
    IN  CASE f = "count" -> [j |-> "num", x |-> Cardinality(xs)]
          [] f # "count" /\ xs = {} -> [j |-> "null", x |-> Null]
          [] f = "sum" /\ xs # {} -> [j |-> "num", x |-> MapThenSumSet(LAMBDA b : b[n].x, B)]
          [] f = "min" /\ xs # {} -> [j |-> "num", x |-> Min(xs)]
          [] f = "max" /\ xs # {} -> [j |-> "num", x |-> Max(xs)]

\* The rows of :find for a set of substitutions.
Found(q, S) ==
    LET plain == {i \in 1..Len(q.find) : q.find[i].k # "agg"}
        KeyOf(b) == [i \in plain |-> Plain(b[q.find[i].n])]
        keys == IF plain = {} THEN {<<>>} ELSE {KeyOf(b) : b \in S}
    IN  {[i \in 1..Len(q.find) |-> IF i \in plain THEN key[i]
                                   ELSE Total(q.find[i].f, q.find[i].n,
                                              {b \in S : plain = {} \/ KeyOf(b) = key})] : key \in keys}

\* The datoms a query is about: the current ones, those of them asserted since
\* a transaction, or what the log says of a transaction or of the history.
About(when) ==
    IF when.history \/ when.asOf # 0 THEN Facts(log, when) ELSE {d \in cur : d.tx > when.since}

\* The rows the query stands for, by Datalog's own reading of it.
Expected(q) == Found(q, Solutions(q, About(q.when), About(q.when), RuleDepth))

Answering == asked # NoQuery

Query == Queries[asked.i]

Viewed == asked.fn = "view"

\* The rows a call has to show.
ShownRows == {IF Viewed THEN Cells(row) ELSE row : row \in Expected(Query)}

\* A view is not given collections, tuples or relations.
PassedOn(q) == Viewed => \A i \in 1..Len(q.in) : q.in[i].form = "scalar"

AboutThePast(q) == q.when.asOf # 0 \/ (q.when.since # 0 /\ ~q.when.history)

TypeOK ==
    /\ cur \subseteq log
    /\ Range(order) \subseteq {100} \cup Ids /\ IsInjective(order)
    /\ asked \in [fn : {"query", "view"}, i : DOMAIN Queries] \cup {NoQuery}
    /\ answer.ok \in BOOLEAN
    /\ answer.ok => \A i \in 1..Len(answer.rows) : Len(answer.rows[i]) = Len(Query.find)
    /\ Len(answer.rows) > MaxRows => Viewed \/ ExplicitLimit(Query)

\* A function called with too many arguments, or with a number out of its range.
BadCall(c) ==
    \/ c.k = "search" /\ c.fn = "fuzzy-match" /\ c.n > 8
    \/ c.k = "search" /\ c.fn \in {"similar-to", "vector-near", "infer-near", "geom-near", "geom-within"} /\ c.n = 0
    \/ c.k = "search" /\ c.fn = "vector-near" /\ c.a \notin Attr
    \/ c.k = "textfn" /\ c.fn = "soundex" /\ Len(c.args) # 1

\* What the compiler has to refuse: an attribute that is not registered, a bad
\* call, or, in a query of patterns, a variable of :find that no pattern binds.
IllFormed(q) ==
    LET ps == Range(OfKind(q.where, "pattern"))
    IN  \/ \E p \in ps : p.a.k = "const" /\ p.a.v.x \notin Attr
        \/ \E i \in 1..Len(q.where) : BadCall(q.where[i])
        \/ /\ \A i \in 1..Len(q.where) : q.where[i].k = "pattern"
           /\ ~({el.n : el \in Range(q.find)} \subseteq UNION {VarsOf({p.e, p.a, p.v, p.tx, p.added}) : p \in ps})

\* E in windows of the size asked for.
Answers(E) ==
    LET left == IF Cardinality(E) > Query.page.offset THEN Cardinality(E) - Query.page.offset ELSE 0
        size == IF RowLimit(Query) = Null THEN left ELSE Min({RowLimit(Query), left})
    IN  IF ~Viewed /\ RowLimit(Query) = Null /\ left > MaxRows THEN answer.why = "limit"
        ELSE /\ answer.ok /\ Len(answer.rows) = size
             /\ Range(answer.rows) \subseteq E /\ IsInjective(answer.rows)

\* A query about the present or the whole history answers exactly what Datalog
\* says: every row, no other, none twice, in windows of the size asked for.
\* Only a query that is ill-formed, or has more than mentat.max_result_rows
\* rows, is refused, and those are never answered with less.  A view, of a
\* query with scalar inputs, has no bound on its rows but one on its columns
\* (mentat_query_internal, mentat_query_view_internal,
\* build_extended_pattern_query).
AnswersAreDatalog ==
    (Answering /\ ~AboutThePast(Query) /\ PassedOn(Query)) =>
        IF IllFormed(Query) \/ (Viewed /\ Len(Query.find) > MaxColumns) THEN ~answer.ok ELSE Answers(ShownRows)

\* Whether the values of a variable are numbers that SQL can tell are numbers:
\* entities, attributes, transactions, longs and references, outside of an OR.
SortsAsNumber(q, n) ==
    /\ Ors(q) = <<>>
    /\ \E p \in Range(OfKind(q.where, "pattern")) :
          \/ n \in VarsOf({p.e, p.a, p.tx})
          \/ n \in VarsOf({p.v}) /\ p.a.k = "const" /\ Type[p.a.v.x] \in {"long", "ref"}

\* The rows come in the order asked for, and a limited answer holds the first
\* ones: no row left out comes before one returned.  The order is that of
\* numbers for entities, transactions, longs and references, that of their
\* texts for doubles, and for everything in a query with an OR
\* (append_order_by, append_limit).
FirstInOrder ==
    (Answering /\ answer.ok /\ Query.order # <<>>) =>
        LET o == Query.order[1]
            c == CHOOSE i \in 1..Len(Query.find) : Query.find[i].n = o.n
            Rank(r) == IF SortsAsNumber(Query, o.n) THEN r[c].x ELSE TextKey(r[c].x)
            Ahead(r, s) == IF o.desc THEN Rank(r) >= Rank(s) ELSE Rank(r) <= Rank(s)
        IN  /\ \A i \in 1..(Len(answer.rows) - 1) : Ahead(answer.rows[i], answer.rows[i + 1])
            /\ Query.page.offset = 0 =>
                  \A r \in ShownRows \ Range(answer.rows) : \A s \in Range(answer.rows) : Ahead(s, r)

\* "so ordering is numeric/temporal" (query.rs:5043): numbers come in the order
\* of numbers.  Doubles and the rows of an OR do not (append_order_by).
NumbersInOrder ==
    (Answering /\ answer.ok /\ Query.order # <<>> /\ ~Query.order[1].desc) =>
        LET c == CHOOSE i \in 1..Len(Query.find) : Query.find[i].n = Query.order[1].n
        IN  \A i \in 1..(Len(answer.rows) - 1) : answer.rows[i][c].x <= answer.rows[i + 1][c].x

\* The transactions up to t committed in the order of their ids.
Settled(t) == \A i, j \in 1..Len(order) : (i < j /\ order[j] <= t) => order[i] < order[j]

\* What is asserted within the bounds of a query, retracted or not.
EverAsserted(when) ==
    {d \in log : d.added /\ d.tx > when.since /\ (when.asOf # 0 => d.tx <= when.asOf)}

\* What a query about the past is sure to find: what was true then, but not,
\* where the attribute is a variable, a value of cardinality many that a newer
\* value of the attribute follows.
SureFacts(q) ==
    LET free == \E p \in Range(OfKind(q.where, "pattern")) : p.a.k # "const"
        Followed(d) == \E n \in EverAsserted(q.when) : n.e = d.e /\ n.a = d.a /\ n.tx > d.tx
    IN  {d \in About(q.when) : ~(free /\ d.a \in Many /\ Followed(d))}

\* A query about the past loses no row that is true of what was true at the
\* transaction asked about, or has become true since, when no negation of the
\* query can be satisfied by anything asserted up to then.  As of a
\* transaction that is so once the ids up to it have committed in their order;
\* where the attribute is a variable, a newer value of cardinality many hides
\* the older ones (the temporal filters of build_extended_pattern_query and
\* build_not_exists_subquery).
PastKeepsLive ==
    (Answering /\ AboutThePast(Query) /\ answer.ok /\ Settled(Query.when.asOf)) =>
        {IF Viewed THEN Cells(row) ELSE row :
            row \in Found(Query, Solutions(Query, SureFacts(Query), EverAsserted(Query.when), RuleDepth))}
            \subseteq Range(answer.rows)

\* "Cardinality-many attributes must NOT be filtered this way", "variable or
\* placeholder: skip filter" (query.rs:5561-5562 and 5581): a query about the
\* past loses nothing that was true then (build_extended_pattern_query).
PastKeepsAll ==
    (Answering /\ AboutThePast(Query) /\ answer.ok) => ShownRows \subseteq Range(answer.rows)

\* "Only datoms with `tx <= target` are visible, and retracted datoms are
\* excluded" (docs/src/time-travel.md): a query about the past answers exactly
\* what was true then (the as-of filter of build_extended_pattern_query).
PastIsExact ==
    (Answering /\ AboutThePast(Query) /\ answer.ok) => ShownRows = Range(answer.rows)

\* "Test that an entity lacks an attribute", "Return a default value when an
\* attribute is missing" (docs/src/datalog.md): a query with missing? or
\* get-else answers what they say (build_extended_pattern_query).
FunctionsAsDocumented ==
    (Answering /\ OfKind(Query.where, "missing?") \o OfKind(Query.where, "get-else") # <<>>) =>
        Range(answer.rows) = ShownRows

=============================================================================
