---------------------------- MODULE QueryCompiler ----------------------------
(***************************************************************************)
(* The compiler of functions/query.rs, from patterns, predicates, NOT and  *)
(* rules to SQL: a family of operators on a compilation state, which has   *)
(* the table column each variable is bound to (vta, var_to_alias), the     *)
(* value type of the variables bound to a value (vtt, var_to_type), the    *)
(* FROM and WHERE lists, the expressions functions bind (extra), the joins *)
(* searches add (fts), the parameters bound so far (ps) and the error that *)
(* ended it (err).                                                         *)
(***************************************************************************)
EXTENDS QueryPlan

CONSTANTS
    Type,       \* value type of each attribute (mentat.schema)
    Many        \* the attributes of cardinality many

ASSUME SchemaAssumption == Many \subseteq DOMAIN Type

Attr == DOMAIN Type

-----------------------------------------------------------------------------
(* Compilation states *)

Start(ps) ==
    [vta |-> <<>>, vtt |-> <<>>, from |-> <<>>, where |-> <<>>, sel |-> <<>>,
     extra |-> <<>>, fts |-> <<>>, ps |-> ps, err |-> ""]

Fail(st, why) == [st EXCEPT !.err = IF @ = "" THEN why ELSE @]

Need(st, cond, why) == IF cond THEN st ELSE Fail(st, why)

Where(st, c) == [st EXCEPT !.where = Append(@, c)]

\* SqlBuilder: bind a value and compare with its placeholder.
BoundTo(st, op, l, x) ==
    [Where(st, Cmp(op, l, Par(Len(st.ps) + 1))) EXCEPT !.ps = Append(@, x)]

Known(st, t) == t.k = "var" /\ t.n \in DOMAIN st.vta

BindVar(st, n, al, c) == [st EXCEPT !.vta = (n :> <<al, c>>) @@ @]

\* The value type of a pattern's attribute: resolve_pattern_value_type.
PatternType(p) == IF p.a.k = "const" /\ p.a.v.x \in Attr THEN Type[p.a.v.x] ELSE "any"

\* Mutant: every query reads the append-only log.
ReadsLogAlways(when) == FALSE

\* use_projection
ReadsProjection(when) == when.asOf = 0 /\ when.since = 0 /\ ~when.history

-----------------------------------------------------------------------------
(* Patterns *)

\* A position whose column holds an entity id, an attribute, a transaction or
\* the added flag: join with the column the variable is already bound to, or
\* bind it here when fresh variables are bound (not inside a NOT).
Place(st, al, c, t, binds) ==
    CASE Known(st, t) -> Where(st, Cmp("=", Col(al, c), Col(st.vta[t.n][1], st.vta[t.n][2])))
      [] t.k = "var" /\ ~Known(st, t) -> IF binds THEN BindVar(st, t.n, al, c) ELSE st
      [] t.k = "const" -> BoundTo(st, "=", Col(al, c), t.v.x)
      [] OTHER -> st

\* Mutant: the reference column is not used for a variable bound to a value.
PlaceEntityRaw(st, al, t) == Place(st, al, "e", t, TRUE)

\* The entity position of a pattern of the query itself: a variable bound to
\* a value joins through the value's reference column.
PlaceEntity(st, al, t) ==
    IF Known(st, t) /\ st.vta[t.n][2] = "v"
    THEN Where(st, Cmp("=", Col(al, "e"), Col(st.vta[t.n][1], "v_ref")))
    ELSE Place(st, al, "e", t, TRUE)

\* The attribute position: an ident is looked up by the SQL.
PlaceIdent(st, al, t, binds) ==
    IF t.k = "const"
    THEN [Where(st, AttributeIs(al, Len(st.ps) + 1)) EXCEPT !.ps = Append(@, t.v.x)]
    ELSE Place(st, al, "a", t, binds)

\* An attribute named in the query has to be registered.
PlaceAttribute(st, al, t) ==
    IF t.k = "const" /\ t.v.x \notin Attr THEN Fail(st, "unknown-attribute")
    ELSE PlaceIdent(st, al, t, TRUE)

\* bind_constant_value: an integer is a reference where the attribute is one.
PlaceConstant(st, al, v, type) ==
    BoundTo(st, "=", Col(al, CASE v.t = "int" -> (IF type = "ref" THEN "v_ref" ELSE "v_long")
                               [] v.t # "int" -> TypedColumn(v.t)), v.x)

PlaceValue(st, al, t, type, binds) ==
    CASE Known(st, t) -> IF st.vta[t.n][2] = "v" THEN Where(st, SameValue(al, st.vta[t.n][1]))
                         ELSE Where(st, Cmp("=", Col(al, "v_ref"), Col(st.vta[t.n][1], st.vta[t.n][2])))
      [] t.k = "var" /\ ~Known(st, t) ->
            IF binds THEN [BindVar(st, t.n, al, "v") EXCEPT !.vtt = (t.n :> type) @@ @] ELSE st
      [] t.k = "const" -> PlaceConstant(st, al, t.v, type)
      [] OTHER -> st

Unsuperseded(st, al, p, most) ==
    IF p.a.k = "const" /\ p.a.v.x \in Many THEN st
    ELSE [Where(st, NotSuperseded(al, PatternType(p), Len(st.ps) + 1)) EXCEPT !.ps = Append(@, most)]

\* Mutant: the newer assertion is looked for in the whole log.
AsOfUnbounded(st, al, p, when) ==
    IF when.asOf = 0 THEN st
    ELSE Unsuperseded(BoundTo(st, "<=", Col(al, "tx"), when.asOf), al, p, 999)

\* asOf: rows up to the transaction, without those a newer assertion of the
\* same entity and attribute supersedes, unless the attribute is known to
\* have cardinality many.
AsOf(st, al, p, when) ==
    IF when.asOf = 0 THEN st
    ELSE Unsuperseded(BoundTo(st, "<=", Col(al, "tx"), when.asOf), al, p, when.asOf)

SinceTx(st, al, when) == IF when.since = 0 THEN st ELSE BoundTo(st, ">", Col(al, "tx"), when.since)

\* Every row has to be an assertion, unless the query is about history.
Temporal(st, al, p, when) ==
    SinceTx(AsOf(IF when.history THEN st ELSE Where(st, Cmp("=", Col(al, "added"), Lit(BoolValue(TRUE).x))),
                 al, p, when),
            al, when)

FromDatoms(st, al, p, when) ==
    [st EXCEPT !.from = Append(@, Datoms(al, PatternType(p), ReadsProjection(when)))]

PlaceAdded(st, al, t) == IF t.k = "var" THEN Place(st, al, "added", t, TRUE) ELSE st

\* The positions in their order: entity, attribute, value, transaction, added.
CompilePattern(st, al, p, when) ==
    FromDatoms(
        PlaceAdded(
            Temporal(
                Place(PlaceValue(PlaceAttribute(PlaceEntity(st, al, p.e), al, p.a), al, p.v, PatternType(p), TRUE),
                      al, "tx", p.tx, TRUE),
                al, p, when),
            al, p.added),
        al, p, when)

CompilePatterns(st, ps, when) ==
    FoldLeft(LAMBDA s, i : CompilePattern(s, <<"datoms", i>>, ps[i], when), st, [i \in 1..Len(ps) |-> i])

-----------------------------------------------------------------------------
(* Predicates *)

\* pred_arg_to_sql: the typed column of a variable bound to a value, the text
\* of one whose type is unknown, an input, or a constant.  A variable that a
\* recursive call bound is read from the first column of the call.
Argument(st, t) ==
    CASE Known(st, t) /\ st.vta[t.n][2] = "v" ->
            IF st.vtt[t.n] = "any" THEN AnyText(st.vta[t.n][1])
            ELSE Col(st.vta[t.n][1], TypedColumn(st.vtt[t.n]))
      [] Known(st, t) /\ st.vta[t.n][2] # "v" ->
            Col(st.vta[t.n][1], IF st.vta[t.n][2] = "computed" THEN "col0" ELSE st.vta[t.n][2])
      [] OTHER -> Par(Len(st.ps) + 1)

BindArgument(st, t, inputs) ==
    CASE Known(st, t) -> st
      [] t.k = "const" -> [st EXCEPT !.ps = Append(@, t.v.x)]
      [] t.k = "var" /\ t.n \in DOMAIN inputs -> [st EXCEPT !.ps = Append(@, inputs[t.n].x)]
      [] OTHER -> Fail(st, "unbound-var")

\* check_predicate_type_mismatch: an order comparison of a text variable with
\* a number, or of a number variable with a text, holds for nothing.
Mismatched(st, p) ==
    \E v, c \in {p.l, p.r} :
        /\ v.k = "var" /\ v.n \in DOMAIN st.vtt /\ c.k = "const"
        /\ \/ st.vtt[v.n] \in {"string", "keyword"} /\ c.v.t \in {"int", "double"}
           \/ st.vtt[v.n] \in {"long", "double", "ref"} /\ c.v.t = "string"

\* Mutant: the two sides of the comparison are swapped.
CompareSwapped(st, p, inputs) ==
    LET s1 == BindArgument(st, p.l, inputs)
        s2 == BindArgument(s1, p.r, inputs)
    IN  Where(s2, Cmp(p.op, Argument(s1, p.r), Argument(st, p.l)))

\* build_predicate_clause_for_rule
CompareWith(st, p, inputs) ==
    LET s1 == BindArgument(st, p.l, inputs)
        s2 == BindArgument(s1, p.r, inputs)
    IN  Where(s2, Cmp(p.op, Argument(st, p.l), Argument(s1, p.r)))

\* build_predicate_clause
CompilePredicate(st, p, inputs) ==
    IF p.op \in {"<", ">", "<=", ">="} /\ Mismatched(st, p) THEN Where(st, Never)
    ELSE CompareWith(st, p, inputs)

-----------------------------------------------------------------------------
(* NOT: a NOT EXISTS subquery whose patterns join with the outer query only *)

VarsOf(ts) == {t.n : t \in {u \in ts : u.k = "var"}}

\* A pattern of a NOT or of a rule: columns are joined as they are named, and
\* the transaction and the added flag are not constrained.
RawPattern(st, al, p, when, binds) ==
    FromDatoms(
        Temporal(PlaceValue(PlaceIdent(Place(st, al, "e", p.e, binds), al, p.a, binds),
                            al, p.v, PatternType(p), binds),
                 al, p, when),
        al, p, when)

\* A pattern of a NOT joins with the variables of the outer query and binds
\* none.
NotPattern(st, outer, al, p, when) ==
    [RawPattern([st EXCEPT !.vta = outer.vta], al, p, when, FALSE) EXCEPT !.vta = st.vta]

NotLocals(cs) == UNION {VarsOf({p.e, p.v, p.tx}) : p \in Range(OfKind(cs, "pattern"))}

NotVars(cs) ==
    UNION {VarsOf({p.e, p.a, p.v, p.tx}) : p \in Range(OfKind(cs, "pattern"))}
        \cup UNION {VarsOf({p.l, p.r}) : p \in Range(OfKind(cs, "pred"))}

\* What the predicates of a NOT see: the outer variables, and those its own
\* patterns bind, the newest pattern winning.
NotScope(st, outer, al, p) ==
    LET Fresh(t) == t.k = "var" /\ ~Known(outer, t)
        s1 == IF Fresh(p.e) THEN BindVar(st, p.e.n, al, "e") ELSE st
        s2 == IF Fresh(p.v)
              THEN [BindVar(s1, p.v.n, al, "v") EXCEPT !.vtt = (p.v.n :> PatternType(p)) @@ @] ELSE s1
    IN  IF Fresh(p.tx) THEN BindVar(s2, p.tx.n, al, "tx") ELSE s2

\* Mutant: the patterns of a NOT are not joined with the outer query.
NotClauseUncorrelated(st, outer, al, c, when) ==
    IF c.k = "pred" THEN CompilePredicate(st, c, <<>>)
    ELSE LET s1 == RawPattern([st EXCEPT !.vta = <<>>], al, c, when, FALSE)
         IN  NotScope([s1 EXCEPT !.vta = st.vta], outer, al, c)

NotClause(st, outer, al, c, when) ==
    CASE c.k = "pattern" -> NotScope(NotPattern(st, outer, al, c, when), outer, al, c)
      [] c.k = "pred" -> CompilePredicate(st, c, <<>>)
      [] OTHER -> Fail(st, "unsupported-query")

\* build_not_exists_subquery
CompileNot(st, cs, when) ==
    LET sub == FoldLeft(LAMBDA s, i : NotClause(s, st, <<"not_d", i>>, cs[i], when),
                        [st EXCEPT !.from = <<>>, !.where = <<>>], [i \in 1..Len(cs) |-> i])
    IN  IF ~(NotVars(cs) \subseteq DOMAIN st.vta \cup NotLocals(cs))
        THEN Fail(st, "unbound-variable-in-not")
        ELSE LET s1 == [Where(st, NotExists(sub.from, sub.where)) EXCEPT !.ps = sub.ps, !.err = sub.err]
             IN  IF sub.from = <<>> THEN Fail(s1, "empty-not") ELSE s1

-----------------------------------------------------------------------------
(* Rules: one CTE for each rule called, a UNION of its clauses *)

\* A call of the rule itself: its columns join with what the body has bound,
\* and fresh variables are bound to "computed".
RecursiveCall(st, c) ==
    LET al == <<c.n, 1>>
        Arg(s, i) ==
            LET t == c.args[i]
                col == Col(al, <<"col0", "col1", "col2">>[i])
            IN  CASE Known(s, t) /\ s.vta[t.n][2] = "v" ->
                        Where(s, Cmp("=", col, Col(s.vta[t.n][1], "v_ref")))
                  [] Known(s, t) /\ s.vta[t.n][2] # "v" ->
                        Where(s, Cmp("=", col, Col(s.vta[t.n][1], s.vta[t.n][2])))
                  [] t.k = "var" /\ ~Known(s, t) -> BindVar(s, t.n, al, "computed")
                  [] OTHER -> s
        s1 == IF RecursiveTable(c.n) \in Range(st.from) THEN st
              ELSE [st EXCEPT !.from = Append(@, RecursiveTable(c.n))]
    IN  FoldLeft(Arg, s1, [i \in 1..Len(c.args) |-> i])

RulePattern(st, p, when) == RawPattern(st, <<"r_d", Len(st.from) + 1>>, p, when, TRUE)

RuleClause(st, n, c, when) ==
    CASE c.k = "pattern" -> RulePattern(st, c, when)
      [] c.k = "rule" /\ c.n = n -> RecursiveCall(st, c)
      [] c.k = "pred" -> CompareWith(st, c, <<>>)
      [] c.k = "arith" -> BindVar(st, c.n.n, <<"COMPUTED", 0>>, "expr")
      [] OTHER -> Fail(st, "unsupported-rule-body")

\* resolve_var_refs_for_rule
RuleNumber(st, t) ==
    CASE Known(st, t) /\ st.vta[t.n][2] = "v" -> NumberOrZero(st.vta[t.n][1])
      [] Known(st, t) /\ st.vta[t.n][2] = "computed" -> Item(st.vta[t.n][1], "col0")
      [] Known(st, t) /\ st.vta[t.n][2] \notin {"v", "computed"} -> Item(st.vta[t.n][1], st.vta[t.n][2])
      [] t.k = "const" -> NumberItem(t.v.x)
      [] OTHER -> NullItem

\* Mutant: a value's own column is selected, whatever its type.
HeadItemRaw(st, r, i) == IF Known(st, r.head[i]) THEN Item(st.vta[r.head[i].n][1], "e") ELSE NullItem

\* A column of the head: a sum computed in the body, a column of the
\* recursive call (the one at the same place), a reference, or a column.
HeadItem(st, r, i) ==
    LET t == r.head[i]
        sums == SelectSeq(OfKind(r.body, "arith"), LAMBDA c : c.n = t)
        at == st.vta[t.n]
    IN  CASE sums # <<>> -> LET c == sums[Len(sums)]
                            IN  ArithItem(c.op, RuleNumber(st, c.l), RuleNumber(st, c.r))
          [] sums = <<>> /\ ~Known(st, t) -> NullItem
          [] sums = <<>> /\ Known(st, t) ->
                Item(at[1], CASE at[2] = "computed" -> <<"col0", "col1", "col2">>[i]
                              [] at[2] = "v" -> "v_ref" [] OTHER -> at[2])

\* build_rule_clause_sql
CompileRuleClause(st, r, when) ==
    LET s1 == FoldLeft(LAMBDA s, c : RuleClause(s, r.n, c, when), [Start(st.ps) EXCEPT !.err = st.err], r.body)
        Finish(s) == [Need(s, s.from # <<>>, "empty-rule-body")
                          EXCEPT !.sel = [i \in 1..Len(r.head) |-> HeadItem(s, r, i)]]
    IN  Finish(s1)

\* build_rule_ctes: acc is the builder and the CTEs so far.
AddRule(acc, rules, n, when) ==
    LET own == SelectSeq(rules, LAMBDA r : r.n = n)
        Add(a, s) == [st |-> [a.st EXCEPT !.ps = s.ps, !.err = s.err], parts |-> Append(a.parts, s)]
        Clause(a, r) == Add(a, CompileRuleClause(a.st, r, when))
        Cte(done) == [st |-> done.st, ctes |-> (n :> done.parts) @@ acc.ctes]
    IN  CASE n \in DOMAIN acc.ctes -> acc
          [] own = <<>> -> [acc EXCEPT !.st = Fail(@, "rule-not-found")]
          [] OTHER -> Cte(FoldLeft(Clause, [st |-> acc.st, parts |-> <<>>], own))

RuleCtes(st, rules, calls, when) ==
    IF rules = <<>> THEN [st |-> st, ctes |-> <<>>]
    ELSE FoldLeft(LAMBDA acc, c : AddRule(acc, rules, c.n, when), [st |-> st, ctes |-> <<>>], calls)

\* make_per_arm_rule_cte_info: each rule called is one table of the FROM list,
\* and a variable is bound to the column of the last call that names it.
RuleScope(st, calls) ==
    LET Call(s, c) ==
            LET s1 == IF RuleTable(c.n) \in Range(s.from) THEN s
                      ELSE [s EXCEPT !.from = Append(@, RuleTable(c.n))]
            IN  FoldLeft(LAMBDA t, i : IF c.args[i].k # "var" THEN t
                                       ELSE BindVar(t, c.args[i].n, <<c.n, 0>>, <<"col0", "col1", "col2">>[i]),
                         s1, [i \in 1..Len(c.args) |-> i])
    IN  FoldLeft(Call, st, calls)

==============================================================================
