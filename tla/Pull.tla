-------------------------------- MODULE Pull --------------------------------
(***************************************************************************)
(* Pull (functions/pull.rs): a pattern read against the current-state      *)
(* projection.  cur is the projection, a set of facts [e, a, v].           *)
(*                                                                         *)
(* The JSON a pull answers with is a tree of maps.  It is modelled by the  *)
(* set of its paths: a path is a sequence of steps <<key, x>>, x being the *)
(* value under the key, or the :db/id of the map under it.  An array is    *)
(* the set of its elements; a map with nothing but its :db/id is a path    *)
(* that ends there.                                                        *)
(***************************************************************************)
EXTENDS Attributes, FiniteSets, SequencesExt

CONSTANTS
    MaxDepth,   \* MAX_RECURSION_DEPTH
    ManyLimit   \* DEFAULT_MANY_LIMIT

ASSUME PullAssumption == MaxDepth \in Nat \ {0} /\ ManyLimit \in Nat \ {0}

-----------------------------------------------------------------------------
(* Patterns as parse_pull_pattern leaves them.  A key is the number of its *)
(* attribute, negated for a reverse lookup, or a number of its own for     *)
(* :as.                                                                    *)

Key(a, rev) == IF rev THEN -a ELSE a

Unset == -2
Unlimited == -1
NoDefault == 0
Unbounded == -1

Attribute(a, rev, as, default, limit) ==
    [k |-> "attr", a |-> a, rev |-> rev, as |-> as, default |-> default, limit |-> limit]
MapSpec(a, rev, sub) == [k |-> "map", a |-> a, rev |-> rev, sub |-> sub]
RecursiveSpec(a, rev, depth) == [k |-> "rec", a |-> a, rev |-> rev, depth |-> depth]
Wildcard == [k |-> "wild"]

OutputKey(s) == IF s.as # 0 THEN s.as ELSE Key(s.a, s.rev)

Invalid == [ok |-> FALSE, specs |-> <<>>]
Parsed(specs) == [ok |-> TRUE, specs |-> specs]

\* parse_keyword: a leading underscore makes the lookup a reverse one.
Kw(a, under) == [k |-> "keyword", a |-> a, under |-> under]

\* parse_limit_value: nil, or an integer that is not negative.
LimitOk(val) == val.k = "nil" \/ (val.k = "int" /\ val.x >= 0)
LimitOf(val) == IF val.k = "nil" THEN Unlimited ELSE val.x

\* parse_attribute_expression: a keyword and pairs of a modifier and a value.
ModifierOk(m) ==
    CASE m.name = "limit" -> LimitOk(m.val)
      [] m.name = "default" -> m.val.k # "none"
      [] m.name = "as" -> m.val.k = "text"
      [] OTHER -> FALSE

Modified(s, m) ==
    CASE m.name = "limit" -> [s EXCEPT !.limit = LimitOf(m.val)]
      [] m.name = "default" -> [s EXCEPT !.default = m.val.x]
      [] m.name = "as" -> [s EXCEPT !.as = m.val.x]

ParseAttributeExpression(x) ==
    IF x.head.k = "keyword" /\ \A i \in 1..Len(x.mods) : ModifierOk(x.mods[i])
    THEN Parsed(<<FoldLeft(Modified, Attribute(x.head.a, x.head.under, 0, NoDefault, Unset), x.mods)>>)
    ELSE Invalid

\* parse_pull_pattern.  The value of a map entry is a vector, the symbol ...,
\* or a depth, of which a negative one counts as 0.
RECURSIVE ParsePullPattern(_)
ParsePullPattern(items) ==
    LET Entry(kv) ==
            IF kv.key.k # "keyword" THEN Invalid
            ELSE CASE kv.val.k = "vector" ->
                        LET sub == ParsePullPattern(kv.val.items)
                        IN  IF sub.ok THEN Parsed(<<MapSpec(kv.key.a, kv.key.under, sub.specs)>>) ELSE Invalid
                   [] kv.val.k = "dots" -> Parsed(<<RecursiveSpec(kv.key.a, kv.key.under, Unbounded)>>)
                   [] kv.val.k = "int" ->
                        Parsed(<<RecursiveSpec(kv.key.a, kv.key.under, IF kv.val.x < 0 THEN 0 ELSE kv.val.x)>>)
                   [] OTHER -> Invalid
        Element(x) ==
            CASE x.k = "star" -> Parsed(<<Wildcard>>)
              [] x.k = "keyword" -> Parsed(<<Attribute(x.a, x.under, 0, NoDefault, Unset)>>)
              [] x.k = "entry" -> Entry(x)
              [] x.k = "expr" -> ParseAttributeExpression(x)
              [] OTHER -> Invalid
        Both(r, x) ==
            LET s == Element(x)
            IN  IF r.ok /\ s.ok THEN Parsed(r.specs \o s.specs) ELSE Invalid
    IN  FoldLeft(Both, Parsed(<<>>), items)

-----------------------------------------------------------------------------
(* Rows.  PostgreSQL returns the rows of one attribute in no order of its  *)
(* own: desc says which of two orders the plan of this pull gives.         *)

Ordered(S, desc) == SetToSortSeq(S, LAMBDA x, y : IF desc THEN x > y ELSE x < y)

ValuesOf(cur, e, a) == {f.v : f \in {g \in cur : g.e = e /\ g.a = a}}

\* The rows of build_union_all_datoms_query for one entity joined with the
\* schema, ordered by ident.
RowsFor(cur, e, As, desc) ==
    LET attrs == SetToSortSeq({f.a : f \in {g \in cur : g.e = e /\ g.a \in As}}, <)
        rows(a) == LET vs == Ordered(ValuesOf(cur, e, a), desc)
                   IN  [i \in 1..Len(vs) |-> [a |-> a, v |-> vs[i]]]
    IN  FlattenSeq([i \in 1..Len(attrs) |-> rows(attrs[i])])

ResolveLimit(limit, n) == CASE limit = Unset -> ManyLimit [] limit = Unlimited -> n [] OTHER -> limit

\* Mutant: one value less than the limit is shown.
LimitedShort(seq, limit) ==
    LET most == ResolveLimit(limit, Len(seq)) IN IF Len(seq) < most THEN seq ELSE SubSeq(seq, 1, most - 1)

Limited(seq, limit) ==
    LET most == ResolveLimit(limit, Len(seq)) IN IF Len(seq) <= most THEN seq ELSE SubSeq(seq, 1, most)

\* query_forward_refs and query_reverse_refs
ForwardRefs(cur, e, a, limit, desc) ==
    IF a \in DOMAIN Schema /\ IsRef(a) THEN Limited(Ordered(ValuesOf(cur, e, a), desc), limit) ELSE <<>>

\* Mutant: a reverse lookup follows the reference forward.
ReverseRefsForward(cur, e, a, limit, desc) ==
    IF a \in DOMAIN Schema /\ IsRef(a)
    THEN Limited(Ordered({f.v : f \in {g \in cur : g.a = a /\ g.e = e}}, desc), limit) ELSE <<>>

ReverseRefs(cur, e, a, limit, desc) ==
    IF a \in DOMAIN Schema /\ IsRef(a)
    THEN Limited(Ordered({f.e : f \in {g \in cur : g.a = a /\ g.v = e}}, desc), limit) ELSE <<>>

-----------------------------------------------------------------------------
(* The answer under construction: st.m is the map of the entity at hand,   *)
(* st.seen the set visited, which the whole pull shares.                   *)

Under(key, x, T) == {<< <<key, x>> >>} \cup {<< <<key, x>> >> \o p : p \in T}

\* Map::insert, which replaces what the key held, and insert_value, which
\* adds to the array of an attribute of cardinality many.
Put(m, key, T) == {p \in m : p[1][1] # key} \cup T
InsertValue(m, key, x, T, many) == IF many THEN m \cup Under(key, x, T) ELSE Put(m, key, Under(key, x, T))

\* The map sub of x goes under a key, and what was visited below it stays so.
Nest(st, key, x, sub, many) == [m |-> InsertValue(st.m, key, x, sub.m, many), seen |-> sub.seen]
Gather(st, key, x, sub) == Nest(st, key, x, sub, TRUE)
Hold(st, key, got) == [m |-> Put(st.m, key, got.m), seen |-> got.seen]

\* pull_wildcard
RECURSIVE PullWildcard(_, _, _, _, _, _)
PullWildcard(cur, st, e, overrides, depth, desc) ==
    LET Row(acc, r) ==
            IF r.a \in overrides THEN acc
            ELSE IF ~IsRef(r.a)
            THEN [acc EXCEPT !.m = InsertValue(@, r.a, r.v, {}, Many(r.a))]
            ELSE IF ~Schema[r.a].component
            THEN [acc EXCEPT !.m = InsertValue(@, r.a, IdentOf(r.v), {}, Many(r.a))]
            ELSE Nest(acc, r.a, r.v,
                      IF depth < MaxDepth /\ r.v \notin acc.seen
                      THEN PullWildcard(cur, [m |-> {}, seen |-> acc.seen \cup {r.v}], r.v, {}, depth + 1, desc)
                      ELSE [m |-> {}, seen |-> acc.seen],
                      Many(r.a))
    IN  FoldLeft(Row, st, RowsFor(cur, e, DOMAIN Schema, desc))

\* A component expanded by the batched pull, or by the recursive one.
Component(cur, st, r, key, depth, desc) ==
    Nest(st, key, r.v,
         PullWildcard(cur, [m |-> {}, seen |-> st.seen \cup {r.v}], r.v, {}, depth + 1, desc), Many(r.a))

Expands(r, seen, depth) == IsRef(r.a) /\ Schema[r.a].component /\ depth < MaxDepth /\ r.v \notin seen

\* pull_forward_attributes_batched.  Of two specs of one attribute the last
\* names the key and the limit; components wait until every row is read; a
\* default stands for an attribute with no row.
LastOf(specs, a) == specs[CHOOSE i \in 1..Len(specs) : specs[i].a = a /\ \A j \in i + 1..Len(specs) : specs[j].a # a]

ForwardKey(specs, a) == OutputKey(LastOf(specs, a))

PullForward(cur, st, e, specs, depth, desc) ==
    LET asked == {specs[i].a : i \in 1..Len(specs)} \cap DOMAIN Schema
        kept(a) == Limited(RowsFor(cur, e, {a}, desc), LastOf(specs, a).limit)
        attrs == SetToSortSeq(asked, <)
        rows == FlattenSeq([i \in 1..Len(attrs) |-> kept(attrs[i])])
        pending == SelectSeq(rows, LAMBDA r : Expands(r, st.seen, depth))
        Row(acc, r) == IF Expands(r, st.seen, depth) THEN acc
                       ELSE [acc EXCEPT !.m = InsertValue(@, ForwardKey(specs, r.a), r.v, {}, Many(r.a))]
        Later(acc, r) == Component(cur, acc, r, ForwardKey(specs, r.a), depth, desc)
        found == {rows[i].a : i \in 1..Len(rows)}
        Default(acc, s) == IF s.a \notin found /\ s.default # NoDefault
                           THEN [acc EXCEPT !.m = Put(@, OutputKey(s), Under(OutputKey(s), s.default, {}))]
                           ELSE acc
    IN  FoldLeft(Default, FoldLeft(Later, FoldLeft(Row, st, rows), pending), specs)

\* pull_reverse_attributes_batched: ordered by entity, so the limit keeps the
\* lowest ones.
PullReverse(cur, st, e, specs) ==
    LET refs(a) == ReverseRefs(cur, e, a, LastOf(specs, a).limit, FALSE)
        One(acc, s) ==
            LET key == OutputKey(s)
                T == UNION {Under(key, x, {}) : x \in Range(refs(s.a))}
            IN  IF T # {} THEN [acc EXCEPT !.m = Put(@, key, T)]
                ELSE IF s.default # NoDefault THEN [acc EXCEPT !.m = Put(@, key, Under(key, s.default, {}))]
                ELSE acc
    IN  FoldLeft(One, st, specs)

-----------------------------------------------------------------------------
(* execute_pull: the attributes first, in two batches, then the wildcard,  *)
(* the map specs and the recursive specs in the order of the pattern.      *)

Forwards(specs) == SelectSeq(specs, LAMBDA s : s.k = "attr" /\ ~s.rev)
Reverses(specs) == SelectSeq(specs, LAMBDA s : s.k = "attr" /\ s.rev)
HasWildcard(specs) == \E i \in 1..Len(specs) : specs[i].k = "wild"
Overrides(specs) ==
    IF HasWildcard(specs) THEN {specs[i].a : i \in {j \in 1..Len(specs) : specs[j].k # "wild"}} ELSE {}

\* The attributes of an entity a recursive spec arrived at, except the one it
\* follows: pull_all_attributes_for_recursive.
PullAllForRecursive(cur, st, e, skip, depth, desc) ==
    LET Row(acc, r) ==
            IF r.a = skip THEN acc
            ELSE IF Expands(r, acc.seen, depth) THEN Component(cur, acc, r, r.a, depth, desc)
            ELSE [acc EXCEPT !.m = InsertValue(@, r.a, r.v, {}, Many(r.a))]
    IN  FoldLeft(Row, st, RowsFor(cur, e, DOMAIN Schema, desc))

RECURSIVE ExecutePull(_, _, _, _, _, _)

\* The map under a reference: the entity is visited while the pattern below it
\* is pulled, and no longer after that unless it was before.
Left(st, x, out) == [m |-> out.m, seen |-> IF x \in st.seen THEN out.seen ELSE out.seen \ {x}]

SubPull(cur, st, x, sub, depth, desc) ==
    LET in == [m |-> {}, seen |-> st.seen \cup {x}]
    IN  Left(st, x, IF depth < MaxDepth THEN ExecutePull(cur, in, x, sub, depth + 1, desc) ELSE in)

\* The references a map spec or a recursive spec follows: a lookup of
\* cardinality one follows the first row.
Followed(cur, e, s, desc) ==
    IF s.rev THEN ReverseRefs(cur, e, s.a, Unset, desc)
    ELSE Limited(ForwardRefs(cur, e, s.a, Unset, desc), IF Many(s.a) THEN Unlimited ELSE 1)

\* pull_forward_map_spec and pull_reverse_map_spec
PullMap(cur, st, e, s, depth, desc) ==
    LET key == Key(s.a, s.rev)
        One(acc, x) == Gather(acc, key, x, SubPull(cur, acc, x, s.sub, depth, desc))
        All(refs) == IF refs = <<>> THEN st ELSE Hold(st, key, FoldLeft(One, [m |-> {}, seen |-> st.seen], refs))
    IN  All(Followed(cur, e, s, desc))

\* Mutant: the recursion goes one level too deep.
DeepEnoughLate(s, depth) == depth > (IF s.depth = Unbounded THEN MaxDepth ELSE s.depth)
DeepEnough(s, depth) == depth >= (IF s.depth = Unbounded THEN MaxDepth ELSE s.depth)

\* pull_recursive: an entity visited already is only named.
PullRecursive(cur, st, e, s, depth, desc) ==
    LET key == Key(s.a, s.rev)
        attrs(acc, x) == PullAllForRecursive(cur, [m |-> {}, seen |-> acc.seen \cup {x}], x, s.a, depth + 1, desc)
        One(acc, x) == Gather(acc, key, x,
                              IF x \in acc.seen THEN [m |-> {}, seen |-> acc.seen]
                              ELSE Left(acc, x, ExecutePull(cur, attrs(acc, x), x, <<s>>, depth + 1, desc)))
        All(refs) == IF refs = <<>> THEN st ELSE Hold(st, key, FoldLeft(One, [m |-> {}, seen |-> st.seen], refs))
    IN  IF DeepEnough(s, depth) THEN st ELSE All(Followed(cur, e, s, desc))

ExecutePull(cur, st, e, specs, depth, desc) ==
    LET fwd == PullForward(cur, st, e, Forwards(specs), depth, desc)
        rev == PullReverse(cur, fwd, e, Reverses(specs))
        Spec(acc, s) == CASE s.k = "wild" -> PullWildcard(cur, acc, e, Overrides(specs), depth, desc)
                          [] s.k = "map" -> PullMap(cur, acc, e, s, depth, desc)
                          [] s.k = "rec" -> PullRecursive(cur, acc, e, s, depth, desc)
                          [] OTHER -> acc
    IN  FoldLeft(Spec, rev, specs)

\* mentat_pull on a pattern that parsed.
PullEntity(cur, specs, e, desc) == ExecutePull(cur, [m |-> {}, seen |-> {e}], e, specs, 0, desc).m

-----------------------------------------------------------------------------
(* mentat_pull_many: a pattern of attributes only is read in one batch.    *)
(* The batch reads every attribute forwards and without its limit, and     *)
(* expands a component by one level, with no attribute of a component's    *)
(* own components.                                                         *)

Batched(specs) == \A i \in 1..Len(specs) : specs[i].k = "attr"

BatchKey(s) == IF s.as # 0 THEN s.as ELSE s.a

\* Mutant: the default is added to values that are there.
BatchDefaultAlways(m, s) == IF s.default # NoDefault THEN m \cup Under(BatchKey(s), s.default, {}) ELSE m
BatchDefault(m, s) ==
    IF s.default # NoDefault /\ \A p \in m : p[1][1] # BatchKey(s)
    THEN m \cup Under(BatchKey(s), s.default, {}) ELSE m

PullBatched(cur, specs, e, desc) ==
    LET asked == {specs[i].a : i \in 1..Len(specs)} \cap DOMAIN Schema
        key(a) == BatchKey(LastOf(specs, a))
        rows == RowsFor(cur, e, asked, desc)
        isComponent(r) == IsRef(r.a) /\ Schema[r.a].component
        below(r) == IF isComponent(r)
                    THEN FoldLeft(LAMBDA m, x : InsertValue(m, x.a, x.v, {}, Many(x.a)), {},
                                  RowsFor(cur, r.v, DOMAIN Schema, desc))
                    ELSE {}
        Add(m, r) == InsertValue(m, key(r.a), r.v, below(r), Many(r.a))
        plain == FoldLeft(Add, {}, SelectSeq(rows, LAMBDA r : ~isComponent(r)))
        all == FoldLeft(Add, plain, SelectSeq(rows, isComponent))
    IN  FoldLeft(BatchDefault, all, specs)

\* One answer for each id; the batch gives an id that is asked for twice its
\* answer once, and a map with nothing but the :db/id after that.
PullMany(cur, specs, es, desc) ==
    [i \in 1..Len(es) |->
        IF ~Batched(specs) THEN PullEntity(cur, specs, es[i], desc)
        ELSE IF \E j \in 1..i - 1 : es[j] = es[i] THEN {}
        ELSE PullBatched(cur, specs, es[i], desc)]

=============================================================================
