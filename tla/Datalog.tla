------------------------------ MODULE Datalog -------------------------------
(***************************************************************************)
(* What a Datalog query means: the substitutions for its variables that    *)
(* satisfy every clause over a set of datoms.  This is the reference the   *)
(* SQL compiler of functions/query.rs is compared with; nothing here is a  *)
(* translation of that compiler, except Facts, which says which datoms of  *)
(* the log a query is about.                                               *)
(*                                                                         *)
(* A value is [t, x]: its type and an integer code.  References, longs and *)
(* transaction ids are the numbers they are; a double, a text or a keyword *)
(* is a code of its own range.                                             *)
(***************************************************************************)
EXTENDS Integers, FiniteSets, SequencesExt

Ref(x) == [t |-> "ref", x |-> x]
Long(x) == [t |-> "long", x |-> x]
Double(x) == [t |-> "double", x |-> x]
Text(x) == [t |-> "string", x |-> x]
Keyword(x) == [t |-> "keyword", x |-> x]

-----------------------------------------------------------------------------
(* Queries.  A term is a variable, a constant or the placeholder; an       *)
(* integer constant is written "int", for it may mean a long or an entity. *)

Var(n) == [k |-> "var", n |-> n, v |-> Ref(0)]
Const(v) == [k |-> "const", n |-> "", v |-> v]
Number(i) == Const([t |-> "int", x |-> i])
Vars(ns) == [i \in 1..Len(ns) |-> Var(ns[i])]
Blank == [k |-> "blank", n |-> "", v |-> Ref(0)]

Pattern5(e, a, v, tx, added) ==
    [k |-> "pattern", e |-> e, a |-> a, v |-> v, tx |-> tx, added |-> added]
Pattern(e, a, v) == Pattern5(e, a, v, Blank, Blank)
Pred(op, l, r) == [k |-> "pred", op |-> op, l |-> l, r |-> r]
Not(cs) == [k |-> "not", cs |-> cs]
Or(arms) == [k |-> "or", arms |-> arms]
Rule(n, args) == [k |-> "rule", n |-> n, args |-> args]

\* Where-functions: a text search of attribute a for a term (hits says which
\* texts each term matches, n how many edits or tenths of similarity it may
\* be off), a search for the first n of the entities near, the rows a model
\* answers a prompt with, get-else, missing?, ground (vars bound to the rows of
\* a relation), arithmetic and functions of texts (table says what they give).
Search(fn, a, term, hits, n, e, v) ==
    [k |-> "search", fn |-> fn, a |-> a, term |-> term, hits |-> hits, n |-> n, e |-> e, v |-> v]
Nearest(fn, a, term, near, n, e, v) ==
    [k |-> "search", fn |-> fn, a |-> a, term |-> term, near |-> near, n |-> n, e |-> e, v |-> v]
Infer(prompt, near, v) == [k |-> "search", fn |-> "infer-walk", prompt |-> prompt, near |-> near, v |-> v]
TextFn(fn, args, table, n) == [k |-> "textfn", fn |-> fn, args |-> args, table |-> table, n |-> n]
GetElse(e, a, default, r) == [k |-> "get-else", e |-> e, a |-> a, default |-> default, r |-> r]
Missing(e, a) == [k |-> "missing?", e |-> e, a |-> a]
Ground(form, vars, rows) == [k |-> "ground", form |-> form, vars |-> vars, rows |-> rows]
Arith(op, l, r, n) == [k |-> "arith", op |-> op, l |-> l, r |-> r, n |-> n]

OfKind(cs, k) == SelectSeq(cs, LAMBDA c : c.k = k)

-----------------------------------------------------------------------------
(* The datoms a query is about *)

SameFact(r, s) == r.e = s.e /\ r.a = s.a /\ r.v = s.v

LiveIn(L) == {r \in L : r.added /\ \A s \in L : SameFact(r, s) => s.tx <= r.tx}

\* The database as of a transaction, the facts asserted since one, the whole
\* history, or the current database.
Facts(L, when) ==
    IF when.history THEN {r \in L : /\ when.asOf # 0 => r.tx <= when.asOf
                                    /\ r.tx > when.since}
    ELSE {r \in LiveIn({s \in L : when.asOf # 0 => s.tx <= when.asOf}) : r.tx > when.since}

-----------------------------------------------------------------------------
(* Substitutions: functions from some of the variables to values *)

NoBinding == [n \in {} |-> Ref(0)]

Means(c, v) == IF c.t = "int" THEN v.x = c.x /\ v.t \in {"long", "ref"} ELSE c = v

\* The substitutions that extend b and make term stand for v: one or none.
Unify(b, term, v) ==
    CASE term.k = "blank" -> {b}
      [] term.k = "const" -> IF Means(term.v, v) THEN {b} ELSE {}
      [] term.n \in DOMAIN b -> IF b[term.n] = v THEN {b} ELSE {}
      [] OTHER -> {[n \in DOMAIN b \cup {term.n} |-> IF n = term.n THEN v ELSE b[n]]}

UnifyAll(b, terms, vals) ==
    FoldLeft(LAMBDA S, i : UNION {Unify(c, terms[i], vals[i]) : c \in S},
             {b}, [i \in 1..Len(terms) |-> i])

BoolValue(z) == [t |-> "boolean", x |-> IF z THEN 51 ELSE 50]

Matching(b, p, D) ==
    UNION {UnifyAll(b, <<p.e, p.a, p.v, p.tx, p.added>>,
                    <<Ref(d.e), Ref(d.a), d.v, Ref(d.tx), BoolValue(d.added)>>) : d \in D}

Denotes(b, term) == IF term.k = "var" THEN b[term.n] ELSE term.v

Compare(op, x, y) ==
    CASE op = "<" -> x < y [] op = ">" -> x > y [] op = "<=" -> x <= y
      [] op = ">=" -> x >= y [] op = "=" -> x = y [] op = "!=" -> x # y

\* Numbers compare with numbers and texts with texts; an order comparison of
\* a number with a text never holds.
Comparable(v, w) == (v.t \in {"string", "keyword"}) = (w.t \in {"string", "keyword"})

Holds(b, p) ==
    LET v == Denotes(b, p.l)
        w == Denotes(b, p.r)
    IN  Comparable(v, w) /\ Compare(p.op, v.x, w.x)

Computed(op, x, y) == CASE op = "+" -> x + y [] op = "-" -> x - y [] op = "*" -> x * y

-----------------------------------------------------------------------------
(* Clauses, over the datoms D; a negation asks whether it can be satisfied  *)
(* over the datoms N.  R is the relation each rule name stands for.         *)

\* What a search finds.
TextSearches == {"fulltext", "rum-fulltext", "fuzzy-match", "similar-to"}

FoundTexts(c, D) ==
    {<<Ref(d.e), d.v>> : d \in {f \in D : /\ f.a = c.a /\ f.v.t = "string"
                                          /\ c.term \in DOMAIN c.hits /\ f.v.x \in c.hits[c.term]}}

FoundNear(c, D) ==
    LET has(e) == c.fn # "infer-near" \/ \E d \in D : d.e = e /\ d.a = c.a /\ d.v.t = "string"
        kept == SelectSeq(c.near, has)
        most == IF c.fn \in {"vector-near", "infer-near", "geom-near"} /\ c.n < Len(kept) THEN c.n ELSE Len(kept)
    IN  {<<Ref(kept[i]), Long(i)>> : i \in 1..most}

FoundBy(b, c, D) ==
    CASE c.fn = "infer-walk" -> UNION {Unify(b, c.v, Long(c.near[i])) : i \in 1..Len(c.near)}
      [] c.fn \in TextSearches -> UNION {UnifyAll(b, <<c.e, c.v>>, row) : row \in FoundTexts(c, D)}
      [] OTHER -> UNION {UnifyAll(b, <<c.e, c.v>>, row) : row \in FoundNear(c, D)}

Basic(B, c, D, R) ==
    CASE c.k = "pattern" -> UNION {Matching(b, c, D) : b \in B}
      [] c.k = "pred" -> {b \in B : Holds(b, c)}
      [] c.k = "rule" -> UNION {UnifyAll(b, c.args, row) : b \in B, row \in R[c.n]}
      [] c.k = "search" -> UNION {FoundBy(b, c, D) : b \in B}
      [] c.k = "get-else" ->
            LET own(b) == {d.v : d \in {f \in D : f.e = b[c.e.n].x /\ f.a = c.a}}
            IN  UNION {UNION {Unify(b, c.r, v) : v \in IF own(b) = {} THEN {c.default} ELSE own(b)}
                          : b \in B}
      [] c.k = "missing?" -> {b \in B : \A d \in D : ~(d.e = b[c.e.n].x /\ d.a = c.a)}
      [] c.k = "ground" -> UNION {UnifyAll(b, Vars(c.vars), row) : b \in B, row \in Range(c.rows)}
      [] c.k = "textfn" ->
            LET args(b) == [i \in 1..Len(c.args) |-> Denotes(b, c.args[i]).x]
            IN  UNION {Unify(b, c.n, Long(c.table[args(b)])) : b \in B}
      [] c.k = "arith" ->
            UNION {Unify(b, c.n, Long(Computed(c.op, Denotes(b, c.l).x, Denotes(b, c.r).x)))
                      : b \in B}

Conjunction(B, cs, D, R) == FoldLeft(LAMBDA S, c : Basic(S, c, D, R), B, cs)

\* Patterns bind, so a predicate or a negation means the same wherever it is
\* written: the clauses that bind come first.
Binders(cs) ==
    OfKind(cs, "pattern") \o OfKind(cs, "rule") \o OfKind(cs, "search")
        \o OfKind(cs, "ground")

Tests(cs) ==
    OfKind(cs, "arith") \o OfKind(cs, "textfn") \o OfKind(cs, "get-else") \o OfKind(cs, "missing?") \o OfKind(cs, "pred")

Negated(B, cs, N, R) ==
    FoldLeft(LAMBDA S, c : {b \in S : Conjunction({b}, Binders(c.cs) \o Tests(c.cs), N, R) = {}},
             B, OfKind(cs, "not"))

Satisfying(B, cs, D, N, R) ==
    Negated(Conjunction(B, Binders(cs) \o Tests(cs), D, R), cs, N, R)

\* The clauses of a query with each disjunction replaced by one of its arms.
Expanded(cs) ==
    LET plain == SelectSeq(cs, LAMBDA c : c.k # "or")
        ors == OfKind(cs, "or")
    IN  IF ors = <<>> THEN {plain}
        ELSE {plain \o ors[1].arms[i] : i \in 1..Len(ors[1].arms)}

\* The relation of each rule: the least one closed under its clauses, reached
\* after at most depth rounds.
RuleRelation(rules, D, N, depth) ==
    LET names == {rules[i].n : i \in 1..Len(rules)}
        Derived(R, n) ==
            UNION {{[j \in 1..Len(rules[i].head) |-> b[rules[i].head[j].n]] :
                        b \in Satisfying({NoBinding}, rules[i].body, D, N, R)} :
                    i \in {k \in 1..Len(rules) : rules[k].n = n}}
        Round[k \in 0..depth] ==
            IF k = 0 THEN [n \in names |-> {}] ELSE [n \in names |-> Derived(Round[k - 1], n)]
    IN  Round[depth]

InputBindings(ins) ==
    FoldLeft(LAMBDA S, i : UNION {UnifyAll(b, Vars(i.vars), row) : b \in S, row \in Range(i.rows)},
             {NoBinding}, ins)

\* The substitutions a query stands for: inputs bind their variables first.
Solutions(q, D, N, depth) ==
    UNION {Satisfying(InputBindings(q.in), cs, D, N, RuleRelation(q.rules, D, N, depth)) : cs \in Expanded(q.where)}

=============================================================================
