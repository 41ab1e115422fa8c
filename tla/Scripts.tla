------------------------------- MODULE Scripts ------------------------------
(***************************************************************************)
(* The mentat.store/* primitives a mentat_eval script calls                *)
(* (functions/script.rs).  A script holds a database value: the basis it   *)
(* was made at and the bounds as-of and since.  Its reads are queries of   *)
(* the engine; each sees what the script has transacted before it and,     *)
(* once the script has written, what other sessions have committed.  A     *)
(* session runs a script or calls the query functions of QueryEngine.      *)
(***************************************************************************)
EXTENDS QueryEngine

CONSTANTS
    ScriptQueries,  \* the queries a script asks with q
    ScriptAttrs,    \* the attributes it reads
    ScriptEids,     \* the entities it reads
    Instants        \* the transactions it passes to as-of and since

VARIABLES
    dbv,    \* the database value the script holds
    made,   \* how many transactions had committed when it was made (history variable)
    seen    \* what the script read through it then (history variable)

scriptVars == <<log, cur, order, asked, answer, dbv, made, seen>>

NoScript == [basis |-> 0, asOf |-> 0, since |-> 0]
DbValue(basis, asOf, since) == [basis |-> basis, asOf |-> asOf, since |-> since]
Scripting == dbv # NoScript

-----------------------------------------------------------------------------
(* Reads.  A primitive asks the engine a query and makes a value of the     *)
(* response; an error of the engine is thrown.                             *)

Thrown == [k |-> "throw", v |-> {}]
Nothing == [k |-> "nil", v |-> {}]

\* Mutant: only the lower bound is passed on.
TemporalInputsSince(d) == [asOf |-> 0, since |-> d.since, history |-> FALSE]

\* temporal_inputs: the bounds are passed on, the basis is not.
TemporalInputs(d) == [asOf |-> d.asOf, since |-> d.since, history |-> FALSE]

Asking(form, find, pattern, d) ==
    [form |-> form, find |-> find, where |-> <<pattern>>, rules |-> <<>>, in |-> <<>>, order |-> <<>>,
     limit |-> Null, page |-> [limit |-> Null, offset |-> 0], when |-> TemporalInputs(d)]

FindVars(ns) == [i \in 1..Len(ns) |-> [k |-> "var", n |-> ns[i]]]

q(d, query) == [query EXCEPT !.when = TemporalInputs(d)]

read(d, e, a) == Asking("coll", FindVars(<<"?v">>), Pattern(Number(e), Const(Ref(a)), Var("?v")), d)

\* Mutant: the entities that have a value now, whatever the database value.
entitiesNow(d, a) ==
    Asking("coll", FindVars(<<"?e">>), Pattern(Var("?e"), Const(Ref(a)), Blank), DbValue(Newest, 0, 0))

entities(d, a) == Asking("coll", FindVars(<<"?e">>), Pattern(Var("?e"), Const(Ref(a)), Blank), d)

\* The whole log, retractions included, unless the value is bounded above.
datoms(d) ==
    [Asking("rel", FindVars(<<"?e", "?a", "?v", "?tx", "?added">>),
            Pattern5(Var("?e"), Var("?a"), Var("?v"), Var("?tx"), Var("?added")), d)
        EXCEPT !.when.history = (d.asOf = 0)]

\* resolve_eid of a lookup ref: the entity a scalar query finds.
resolve_eid(d, a, v) == Asking("scalar", FindVars(<<"?e">>), Pattern(Var("?e"), Const(Ref(a)), Const(v)), d)

\* query_result_value: a relation is a set, a collection a vector.
ResultValue(r) ==
    [k |-> IF r.shape = "rel" THEN "set" ELSE "vector",
     v |-> IF r.shape = "rel" THEN {<<row>> : row \in Range(r.rows)} ELSE {r.rows}]

\* One value as it is, several as a set, none as nil.
Collapsed(r) ==
    IF r.rows = <<>> THEN Nothing
    ELSE [k |-> IF Len(r.rows) = 1 THEN "one" ELSE "set", v |-> Range(r.rows)]

\* What a primitive makes of a response: a lookup ref that finds nothing is an
\* error.
Returned(fn, r) ==
    CASE ~r.ok -> Thrown
      [] r.ok /\ fn \in {"q", "datoms"} -> ResultValue(r)
      [] r.ok /\ fn = "read" -> Collapsed(r)
      [] r.ok /\ fn = "entities" -> [k |-> "set", v |-> Range(r.rows)]
      [] r.ok /\ fn = "lookup" -> IF r.rows = <<>> THEN Thrown ELSE [k |-> "one", v |-> Range(r.rows)]

\* A call is the name of a primitive and its arguments.
QueryOf(d, c) ==
    CASE c[1] = "q" -> q(d, ScriptQueries[c[2]])
      [] c[1] = "datoms" -> datoms(d)
      [] c[1] = "read" -> read(d, c[2], c[3])
      [] c[1] = "entities" -> entities(d, c[2])
      [] c[1] = "lookup" -> resolve_eid(d, c[2], c[3])

\* The values it may return.
Returns(d, c) == {Returned(c[1], r) : r \in Responses(QueryOf(d, c))}

Values(a) == {f.v : f \in {g \in Seeds \cup Changes : g.a = a}}

ScriptCalls ==
    {<<"q", i>> : i \in DOMAIN ScriptQueries} \cup {<<"datoms">>}
        \cup {<<"read", e, a>> : e \in ScriptEids, a \in ScriptAttrs}
        \cup {<<"entities", a>> : a \in ScriptAttrs}
        \cup UNION {{<<"lookup", a, v>> : v \in Values(a)} : a \in ScriptAttrs}

\* Everything a script can learn through a database value.
ReadsOf(d) == [c \in ScriptCalls |-> Returns(d, c)]

-----------------------------------------------------------------------------
(* Database values *)

Hold(d) == dbv' = d /\ made' = Len(order) /\ seen' = ReadsOf(d) /\ UNCHANGED vars

\* (db conn), and the :mentat.store/db-after of the script's own transaction.
db == Scripting /\ Hold(DbValue(Newest, 0, 0))

\* (as-of db T): the basis becomes T.
as_of == Scripting /\ \E T \in Instants : Hold(DbValue(T, T, dbv.since))

since == Scripting /\ \E T \in Instants : Hold([dbv EXCEPT !.since = T])

\* (with db tx-data): the transaction is rolled back; the value it leaves has
\* the basis of a transaction that never was.  Not against a bounded value.
with == Scripting /\ dbv.asOf = 0 /\ dbv.since = 0 /\ \E t \in Ids \ Range(order) : Hold(DbValue(t, 0, 0))

\* A transaction of the script or, after its first one, of another session.
transact(f, t) ==
    /\ Scripting
    /\ AssertFact(f, t) \/ RetractFact(f, t)
    /\ UNCHANGED <<dbv, made, seen>>

ScriptInit ==
    /\ Init
    /\ made = Len(order)
    /\ dbv \in {NoScript, DbValue(Newest, 0, 0)}
    /\ seen = IF Scripting THEN ReadsOf(dbv) ELSE <<>>

ScriptNext ==
    \/ dbv = NoScript /\ Next /\ UNCHANGED <<dbv, made, seen>>
    \/ db \/ as_of \/ since \/ with
    \/ \E f \in Changes, t \in Ids : transact(f, t)

ScriptSpec == ScriptInit /\ [][ScriptNext]_scriptVars

-----------------------------------------------------------------------------

\* A database value made with as-of changes only by a transaction, of this
\* session or another, whose id is not after the one it was made with: while
\* those that commit are, q, read, entities, datoms and lookup refs through it
\* return what they returned before (temporal_inputs, the as-of filters of
\* build_extended_pattern_query).
AsOfIsStable ==
    (Scripting /\ dbv.asOf # 0 /\ \A i \in (made + 1)..Len(order) : order[i] > dbv.asOf) => ReadsOf(dbv) = seen

\* The primitives agree about a database value: entities returns exactly those
\* that read returns a value for, and a lookup ref finds one of them
\* (mentat.store/entities, mentat.store/read, resolve_eid).
ReadsAgree ==
    Scripting =>
        \A a \in ScriptAttrs : \A es \in Returns(dbv, <<"entities", a>>) :
            es # Thrown =>
                /\ \A e \in ScriptEids :
                      (<<[j |-> "num", x |-> e]>> \in es.v) <=> (Nothing \notin Returns(dbv, <<"read", e, a>>))
                /\ \A v \in Values(a) : \A r \in Returns(dbv, <<"lookup", a, v>>) : r = Thrown \/ r.v \subseteq es.v

\* "db value - an immutable snapshot": what is read through a database value
\* does not change while the script holds it (db_value, temporal_inputs).
DbValueImmutable ==
    Scripting => ReadsOf(dbv) = seen

=============================================================================
