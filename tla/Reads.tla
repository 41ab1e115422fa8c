------------------------------- MODULE Reads --------------------------------
(***************************************************************************)
(* The reads that do not go through the Datalog engine together, against   *)
(* the same store: pull (module Pull) and the reads of the log (module     *)
(* DatomLog), with the properties of pull.                                 *)
(***************************************************************************)
EXTENDS DatomLog, Pull

CONSTANTS
    Patterns,     \* the pull patterns asked, as EDN
    Roots         \* the entities they are asked about

-----------------------------------------------------------------------------
(* Properties of pull, stated of every state the store can be in. *)

\* The patterns that parse_pull_pattern takes.
Asked == {p.specs : p \in {q \in {ParsePullPattern(Patterns[i]) : i \in 1..Len(Patterns)} : q.ok}}

\* Pull reads nothing but cur, and every cur is reached in a state where no call
\* is under way, nothing is excised and transactions committed in the order of
\* their ids, from the first id on: its properties are evaluated there.
Quiet == busy = Idle /\ audit = {} /\ nth = [t \in 1..Commits |-> t]

\* The attribute lookups a key of a pull's answer stands for.
RECURSIVE MeantBy(_, _)
MeantBy(specs, key) ==
    {[a |-> a, rev |-> FALSE] : a \in {b \in DOMAIN Schema : b = key}}
        \cup {[a |-> a, rev |-> TRUE] : a \in {b \in DOMAIN Schema : -b = key}}
        \cup UNION {CASE specs[i].k = "attr" /\ specs[i].as = key -> {[a |-> specs[i].a, rev |-> specs[i].rev]}
                      [] specs[i].k = "map" -> MeantBy(specs[i].sub, key)
                      [] OTHER -> {} : i \in 1..Len(specs)}

\* x is under key in the map of e because of a fact that holds now, or it is a
\* default of the pattern.
Shown(specs, e, key, x) ==
    \/ \E m \in MeantBy(specs, key) :
          \E f \in cur : f.a = m.a /\ IF m.rev THEN f.v = e /\ f.e = x
                                      ELSE f.e = e /\ x \in {f.v, IdentOf(f.v)}
    \/ \E i \in 1..Len(specs) : specs[i].k = "attr" /\ x = specs[i].default

\* Everything a pull answers with, however deep, is a fact of the current
\* database read in the direction the pattern asks for: superseded and
\* retracted values, which the log still has, never show.
ShowsLive(specs, e, answer) ==
    \A p \in answer : \A n \in 1..Len(p) : Shown(specs, IF n = 1 THEN e ELSE p[n - 1][2], p[n][1], p[n][2])

Live(e, s) ==
    IF s.rev THEN {f.e : f \in {g \in cur : g.a = s.a /\ g.v = e}} ELSE ValuesOf(cur, e, s.a)

Smaller(m, n) == IF m < n THEN m ELSE n

OfKind(specs, k) == {specs[j] : j \in {i \in 1..Len(specs) : specs[i].k = k}}

\* An attribute of the pattern shows all its values, or as many as its limit,
\* given or implied, lets through; what it does not name, a wildcard shows; a map
\* spec shows as many entities as the implied limit lets through, one for a
\* lookup of cardinality one, each with all that the pattern below asks of it.
RECURSIVE ShowsAll(_, _, _, _)
ShowsAll(specs, e, answer, depth) ==
    LET top == {p[1] : p \in answer}
        most(live, limit) == Smaller(Cardinality(live), ResolveLimit(limit, Cardinality(live)))
        below(key, x) == {Tail(p) : p \in {q \in answer : Len(q) > 1 /\ q[1] = <<key, x>>}}
    IN  /\ \A s \in OfKind(specs, "attr") :
              Cardinality({x \in Live(e, s) : <<OutputKey(s), x>> \in top}) = most(Live(e, s), s.limit)
        /\ HasWildcard(specs) =>
              \A f \in cur : f.e = e /\ f.a \notin Overrides(specs) =>
                  <<f.a, f.v>> \in top \/ <<f.a, IdentOf(f.v)>> \in top
        /\ \A s \in OfKind(specs, "map") :
              LET shown == {x \in Live(e, s) : <<Key(s.a, s.rev), x>> \in top}
              IN  /\ Cardinality(shown) = most(Live(e, s), IF s.rev \/ Many(s.a) THEN Unset ELSE 1)
                  /\ depth < MaxDepth => \A x \in shown : ShowsAll(s.sub, x, below(Key(s.a, s.rev), x), depth + 1)

Exact(specs, e, answer) == ShowsLive(specs, e, answer) /\ ShowsAll(specs, e, answer, 0)

\* A pull answers with the facts of the current database that its pattern asks
\* for, all of them up to the limits, at every level, and no others (pull).
PullExact ==
    Quiet => \A specs \in Asked, e \in Roots, desc \in BOOLEAN :
                Exact(specs, e, PullEntity(cur, specs, e, desc))

\* The entities that at most n steps along an attribute lead to.
Reach(e, s, n) ==
    LET R[k \in 0..n] == IF k = 0 THEN {e} ELSE R[k - 1] \cup UNION {Live(x, s) : x \in R[k - 1]}
    IN  R[n]

ComponentTargets == {f.v : f \in {g \in cur : Schema[g.a].component}}

DepthOf(s) == IF s.depth = Unbounded THEN MaxDepth ELSE Smaller(s.depth, MaxDepth)

\* Left out are entities that are components as well, which are only named when
\* the recursion meets them again, and ones with more references than the
\* default limit.
Traced(s, reach) ==
    reach \cap ComponentTargets = {} /\ \A x \in reach : Cardinality(Live(x, s)) <= ManyLimit

NamesReached(s, e, reach, along) ==
    /\ {p[Len(p)][2] : p \in along} \cup {e} = reach
    /\ \A p \in along : IsInjective(<<e>> \o [n \in 1..Len(p) - 1 |-> p[n][2]])

\* A recursive pull names every entity within its depth and no other, by a
\* path on which it expands no entity twice, whatever cycles the references
\* form.
RecursionReaches ==
    Quiet => \A specs \in {t \in Asked : Len(t) = 1 /\ t[1].k = "rec"}, e \in Roots, desc \in BOOLEAN :
        LET s == specs[1]
            reach == Reach(e, s, DepthOf(s))
        IN  Traced(s, reach) =>
                NamesReached(s, e, reach, {p \in PullEntity(cur, specs, e, desc) :
                                              \A n \in 1..Len(p) : p[n][1] = Key(s.a, s.rev)})

\* What the batch of pull_many does not do as pull does: reverse lookups,
\* limits (the default one among them), and what is below a component other
\* than plain values and references to user entities.
BatchDiffers(specs) ==
    \/ \E j \in 1..Len(specs) : specs[j].rev \/ specs[j].limit # Unset
    \/ \E f \in cur : Cardinality(ValuesOf(cur, f.e, f.a)) > ManyLimit
    \/ \E f \in cur : f.e \in ComponentTargets /\ (Schema[f.a].component \/ f.v \in Named)

\* The ids pull_many is asked for: all of them, and one of them again.
AskedFor == {SetToSeq(Roots)} \cup {Append(SetToSeq(Roots), e) : e \in Roots}

Repeats(es, n) == \E m \in 1..n - 1 : es[m] = es[n]

\* pull_many answers for each of the entities as pull does, in their order, but
\* for an id asked for before in the same call, when the pattern is read in one
\* batch: the batch has given its answer away and has none left, against "one
\* result per entity ID" (pull.rs:402).
PullManyIsPull ==
    Quiet =>
    \A specs \in {t \in Asked : Batched(t) => ~BatchDiffers(t)}, es \in AskedFor, desc \in BOOLEAN :
        LET answers == PullMany(cur, specs, es, desc)
        IN  /\ Len(answers) = Len(es)
            /\ \A n \in 1..Len(es) : ~(Batched(specs) /\ Repeats(es, n)) =>
                  answers[n] = PullEntity(cur, specs, es[n], desc)

=============================================================================
