---------------------------- MODULE MCQueryEngine ---------------------------
(***************************************************************************)
(* A store of two people, with an age (a long), a weight (a double), a     *)
(* name (a text) and friends (references, of cardinality many), and the    *)
(* queries asked of it by a session and by a script.                       *)
(***************************************************************************)
EXTENDS Scripts

Age == 81
Name == 82
Friend == 83
Nickname == 84      \* not registered
Weight == 85

MCType == Age :> "long" @@ Name :> "string" @@ Friend :> "ref" @@ Weight :> "double"
MCMany == {Friend}
Fact(e, a, v) == [e |-> e, a |-> a, v |-> v]

MCSeeds == {Fact(1, Age, Long(2)), Fact(2, Age, Long(10)), Fact(1, Name, Text(61)), Fact(1, Friend, Ref(2)),
            Fact(1, Weight, Double(90)), Fact(2, Weight, Double(91))}
MCChanges == {Fact(1, Age, Long(10)), Fact(2, Age, Long(2)), Fact(2, Age, Long(10)), Fact(2, Name, Text(62)),
              Fact(1, Friend, Ref(3))}
MCNumerals == <<>>

Now == [asOf |-> 0, since |-> 0, history |-> FALSE]
AsOfTx(t) == [Now EXCEPT !.asOf = t]
Since(t) == [Now EXCEPT !.since = t]
History == [Now EXCEPT !.history = TRUE]

A(a) == Const(Ref(a))
E == Var("?e")
F == Var("?f")
G == Var("?g")
V == Var("?v")
N == Var("?n")
P(e, a, v) == Pattern(e, A(a), v)

Find(ns) == [i \in 1..Len(ns) |-> [k |-> "var", n |-> ns[i]]]
Agg(f, n) == [k |-> "agg", f |-> f, n |-> n]
Q(find, where) ==
    [form |-> "rel", find |-> find, where |-> where, rules |-> <<>>, in |-> <<>>, order |-> <<>>,
     limit |-> Null, page |-> [limit |-> Null, offset |-> 0], when |-> Now]
In(form, ns, rows) == [form |-> form, vars |-> ns, rows |-> rows]
By(n, desc) == [n |-> n, desc |-> desc]

Ages == Q(Find(<<"?e", "?v">>), <<P(E, Age, V)>>)
Hits == 62 :> {61, 62} @@ 61 :> {61}
Edits == [p \in {61, 62} \X {61, 62} |-> IF p[1] = p[2] THEN 0 ELSE 1]
Reach == <<[n |-> "reach", head |-> <<E, F>>, body |-> <<P(E, Friend, F)>>],
           [n |-> "reach", head |-> <<E, F>>, body |-> <<P(E, Friend, G), Rule("reach", <<G, F>>)>>]>>

MCQueries == <<
    Ages,
    [Ages EXCEPT !.order = <<By("?v", FALSE)>>, !.limit = 1],
    [Ages EXCEPT !.order = <<By("?v", TRUE)>>, !.page = [limit |-> 1, offset |-> 1]],
    [Ages EXCEPT !.when = AsOfTx(100)], [Ages EXCEPT !.when = AsOfTx(101)], [Ages EXCEPT !.when = Since(100)],
    [Q(Find(<<"?e", "?v", "?g", "?n">>), <<Pattern5(E, A(Age), V, G, N)>>) EXCEPT !.when = History],
    Q(Find(<<"?e", "?v">>), <<P(E, Age, V), Pred(">", V, Number(2))>>),
    Q(Find(<<"?e", "?n">>), <<P(E, Name, N), Pred("<", N, Number(2))>>),
    Q(Find(<<"?e", "?v", "?n">>), <<P(E, Age, V), P(E, Name, N)>>),
    Q(Find(<<"?e", "?v">>), <<P(E, Friend, F), P(F, Age, V)>>),
    Q(Find(<<"?e">>), <<P(E, Friend, Number(2))>>),
    Q(Find(<<"?e", "?n">>), <<Pattern(E, N, Const(Text(61)))>>),
    Q(Find(<<"?e">>), <<P(E, Age, V), Not(<<P(E, Name, N)>>)>>),
    Q(Find(<<"?e">>), <<P(E, Age, V), Not(<<P(E, Name, N), Pred("=", N, Const(Text(62)))>>)>>),
    Q(Find(<<"?e">>), <<P(E, Age, V), Or(<<<<P(E, Name, Const(Text(61)))>>,
                                            <<P(E, Friend, F), P(F, Age, Number(10))>>>>)>>),
    Q(<<Agg("count", "?v")>>, <<P(E, Age, V)>>),
    Q(<<Agg("sum", "?v"), Agg("max", "?v"), Agg("min", "?v")>>, <<P(E, Age, V)>>),
    Q(Find(<<"?v">>) \o <<Agg("count", "?e")>>, <<P(E, Age, V)>>),
    [Q(Find(<<"?e", "?f">>), <<Rule("reach", <<E, F>>)>>) EXCEPT !.rules = Reach],
    [Q(Find(<<"?e", "?v">>), <<Rule("reach", <<E, F>>), P(F, Age, V)>>) EXCEPT !.rules = Reach],
    [Ages EXCEPT !.in = <<In("scalar", <<"?e">>, <<<<Ref(1)>>>>)>>],
    [Ages EXCEPT !.in = <<In("coll", <<"?v">>, <<<<Long(2)>>, <<Long(3)>>>>)>>],
    [Ages EXCEPT !.in = <<In("tuple", <<"?e", "?v">>, <<<<Ref(1), Long(2)>>>>)>>],
    [Ages EXCEPT !.in = <<In("rel", <<"?e", "?v">>, <<<<Ref(1), Long(2)>>, <<Ref(2), Long(10)>>>>)>>],
    [Q(Find(<<"?e", "?v">>), <<P(E, Age, V), Pred(">=", V, N)>>) EXCEPT
        !.in = <<In("scalar", <<"?n">>, <<<<Long(10)>>>>)>>],
    Q(Find(<<"?e", "?v">>), <<P(E, Age, V), Ground("scalar", <<"?v">>, <<<<Long(10)>>>>)>>),
    Q(Find(<<"?e", "?g">>), <<P(E, Age, V), Arith("+", V, Number(1), G)>>),
    Q(Find(<<"?e", "?n", "?v">>), <<P(E, Age, V), Search("fulltext", Name, 62, Hits, 0, E, N)>>),
    Q(Find(<<"?e", "?n">>), <<Search("rum-fulltext", Name, 61, Hits, 0, E, N), P(E, Age, V)>>),
    Q(Find(<<"?e", "?n">>), <<Search("fulltext", Name, Null, Hits, 0, E, N), P(E, Age, V)>>),
    Q(Find(<<"?e", "?n">>), <<P(E, Age, V), Search("fuzzy-match", Name, 61, Hits, 1, E, N)>>),
    Q(Find(<<"?e", "?n">>), <<P(E, Age, V), Search("similar-to", Name, 62, Hits, 3, E, N)>>),
    Q(Find(<<"?e", "?n">>), <<P(E, Age, V), Search("fuzzy-match", Name, 61, Hits, 9, E, N)>>),
    Q(Find(<<"?e", "?n">>), <<P(E, Age, V), Search("similar-to", Name, 61, Hits, 0, E, N)>>),
    Q(Find(<<"?e", "?v">>), <<Nearest("geom-near", Name, 61, <<2, 1>>, 0, E, G), P(E, Age, V)>>),
    Q(Find(<<"?e", "?v">>), <<Nearest("vector-near", Nickname, 61, <<2, 1>>, 1, E, G), P(E, Age, V)>>),
    Q(Find(<<"?e", "?v">>), <<Nearest("infer-near", Name, 61, <<2, 1>>, 1, E, G), P(E, Age, V)>>),
    Q(Find(<<"?e", "?v">>), <<Nearest("geom-near", Name, 61, <<2, 1>>, 1, E, G), P(E, Age, V)>>),
    Q(Find(<<"?e", "?v", "?g">>), <<Nearest("geom-within", Name, 61, <<2, 1>>, 5, E, G), P(E, Age, V)>>),
    Q(Find(<<"?e", "?v">>), <<Nearest("geom-contains", Name, 61, <<1>>, 0, E, G), P(E, Age, V)>>),
    Q(Find(<<"?e", "?g">>), <<P(E, Name, N), Infer(Const(Text(61)), <<3, 4>>, G)>>),
    Q(Find(<<"?e", "?g">>), <<P(E, Name, N), TextFn("levenshtein", <<N, Const(Text(61))>>, Edits, G)>>),
    Q(Find(<<"?e", "?g">>), <<P(E, Name, N), TextFn("infer-similar", <<Const(Text(61)), N>>, Edits, G)>>),
    Q(Find(<<"?e", "?g">>), <<P(E, Name, N), TextFn("soundex", <<N, N>>, Edits, G)>>),
    Q(Find(<<"?e", "?n">>), <<Or(<<<<Search("fulltext", Name, 61, Hits, 0, E, N)>>,
                                   <<P(E, Name, N), P(E, Friend, F)>>>>)>>),
    Q(Find(<<"?e", "?n">>), <<P(E, Nickname, N)>>),
    Q(Find(<<"?e", "?g">>), <<P(E, Age, V)>>),
    [Q(Find(<<"?e", "?v">>), <<P(E, Age, V)>>) EXCEPT !.when = [History EXCEPT !.since = 100]],
    Q(Find(<<"?e", "?f">>), <<Pattern5(E, A(Age), V, G, Blank), Pattern5(F, A(Name), N, G, Blank)>>),
    Q(Find(<<"?e">>), <<P(E, Age, V), Not(<<P(E, Friend, F), P(E, Name, N)>>), Pred("<", V, Number(11))>>),
    [Ages EXCEPT !.in = <<In("scalar", <<"?v">>, <<<<Long(10)>>>>), In("coll", <<"?e">>, <<<<Ref(1)>>, <<Ref(2)>>>>)>>],
    [Q(Find(<<"?e", "?n">>), <<P(E, Name, N)>>) EXCEPT
        !.in = <<In("rel", <<"?e", "?n">>, <<<<Ref(1), Text(61)>>, <<Ref(2), Text(62)>>>>)>>],
    [Q(Find(<<"?e", "?f">>), <<Or(<<<<Rule("reach", <<E, F>>), P(F, Age, Number(2))>>, <<P(F, Friend, E)>>>>)>>)
        EXCEPT !.rules = Reach],
    [Q(Find(<<"?e", "?v">>), <<Nearest("vector-near", Name, 61, <<2, 1>>, 2, E, G), P(E, Age, V)>>) EXCEPT
        !.order = <<By("?v", FALSE)>>, !.limit = 1],
    [Q(Find(<<"?e", "?f">>), <<P(E, Friend, F)>>) EXCEPT !.when = AsOfTx(101)],
    [Ages EXCEPT !.where = <<Or(<<<<P(E, Age, V), P(E, Name, N)>>, <<P(E, Age, V), P(E, Friend, F)>>,
                                  <<P(F, Friend, E), P(E, Age, V)>>>>)>>, !.order = <<By("?v", FALSE)>>],
    [Q(Find(<<"?e", "?v">>), <<P(E, Weight, V)>>) EXCEPT !.order = <<By("?v", FALSE)>>],
    [Q(Find(<<"?n", "?f">>), <<Pattern(Const(Ref(1)), N, F)>>) EXCEPT !.when = AsOfTx(101)],
    [Q(Find(<<"?e">>), <<P(E, Age, V), Not(<<P(E, Name, N)>>)>>) EXCEPT !.when = AsOfTx(102)],
    [Ages EXCEPT !.form = "scalar", !.find = Find(<<"?v">>), !.order = <<By("?v", FALSE)>>]>>

MCScriptQueries == <<Ages, Q(<<Agg("count", "?f")>>, <<P(E, Friend, F)>>)>>

\* What was true at a transaction, asked later.
MCPastQueries == <<[Ages EXCEPT !.when = AsOfTx(101)], [Ages EXCEPT !.when = AsOfTx(102)]>>

\* The functions the manual documents.
MCFunctionQueries == <<
    Q(Find(<<"?e">>), <<P(E, Age, V), Missing(E, Name)>>),
    Q(Find(<<"?e", "?n">>), <<P(E, Age, V), GetElse(E, Name, Text(63), N)>>)>>
=============================================================================
