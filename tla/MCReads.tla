------------------------------ MODULE MCReads -------------------------------
(* A schema of a name, an age, a date of birth, a friend (many), a boss     *)
(* (one) and a part (component); three user entities; graphs of two facts   *)
(* that share an entity, of three friends or three parts, texts and a date  *)
(* that the helper reads back as something else, and then one fact more.    *)
EXTENDS Reads

Name == 1
Age == 2
Friend == 3
Boss == 4
Part == 5
Born == 6

MCSchema ==
    LET A(type, many, component) == [type |-> type, many |-> many, component |-> component]
    IN  [a \in 1..6 |-> CASE a = Name -> A("string", FALSE, FALSE) [] a = Age -> A("long", FALSE, FALSE)
                          [] a = Friend -> A("ref", TRUE, FALSE) [] a = Boss -> A("ref", FALSE, FALSE)
                          [] a = Part -> A("ref", TRUE, TRUE) [] a = Born -> A("instant", FALSE, FALSE)]

F(e, a, v) == [e |-> e, a |-> a, v |-> v]

\* The graphs, and the facts whose text or type is not read back as it is.
Graph ==
    {F(11, Name, 61), F(12, Age, 2), F(12, Age, 10),
     F(11, Friend, 11), F(11, Friend, 12), F(12, Friend, 13), F(13, Friend, 11),
     F(11, Boss, 12), F(12, Boss, 1),
     F(11, Part, 12), F(12, Part, 13), F(11, Part, 13)}
Odd == {F(12, Name, 63), F(12, Name, 64), F(12, Born, 7)}
MCPool == Graph \cup Odd \cup {F(11, Friend, 13)}

Consistent(S) == \A f, g \in S : f.e = g.e /\ f.a = g.a /\ ~MCSchema[f.a].many => f = g

\* Every two of the facts share an entity.
Linked(S) == \A f, g \in S : {f.e, f.v} \cap {g.e, g.v} # {}
Links(a) == {f \in Graph : f.a = a /\ f.e # f.v}

\* Any two linked facts of a graph, three friends or parts in a circle, and three
\* friends of one; facts of the other kind, each with an age.
MCLoads ==
    {S \in kSubset(2, Graph) : Consistent(S) /\ Linked(S)}
        \cup {Links(Friend), Links(Part), {f \in MCPool : f.e = 11 /\ f.a = Friend}}
        \cup {{f, F(12, Age, 2)} : f \in Odd}

\* One more edge or value, a second age, and a text that is misread.
MCAdditions ==
    {F(11, Name, 61), F(12, Age, 2), F(12, Age, 10), F(13, Friend, 11), F(12, Boss, 1), F(12, Part, 13), F(12, Name, 63)}

MCTargets == {{12}, {11, 12}}
MCRoots == {11, 12}
MCNamed == 1..6

\* 63 is a text like C:\new, which is read with a newline; 64 one like C:\dir.
MCMisread == [v \in {63, 64} |-> IF v = 63 THEN 62 ELSE Unreadable]

K(a) == Kw(a, FALSE)
R(a) == Kw(a, TRUE)
Star == [k |-> "star"]
Vec(items) == [k |-> "vector", items |-> items]
Dots == [k |-> "dots"]
N(x) == [k |-> "int", x |-> x]
Nil == [k |-> "nil"]
Txt(x) == [k |-> "text", x |-> x]
Entry(key, val) == [k |-> "entry", key |-> key, val |-> val]
Expr(head, mods) == [k |-> "expr", head |-> head, mods |-> mods]
Mod(name, val) == [name |-> name, val |-> val]

MCPatterns == <<
    <<K(Name), K(Friend), R(Friend)>>,
    <<Star>>,
    <<Star, Entry(K(Friend), Vec(<<K(Name)>>))>>,
    <<Entry(K(Friend), Dots)>>,
    <<Entry(K(Friend), N(1))>>,
    <<Entry(R(Friend), Dots)>>,
    <<Entry(K(Boss), Dots)>>,
    <<K(Part), Entry(K(Part), Vec(<<Star>>))>>,
    <<Expr(K(Friend), <<Mod("limit", N(1))>>), Expr(K(Age), <<Mod("default", N(99))>>)>>,
    <<Expr(K(Name), <<Mod("as", Txt(500))>>), K(Part), Expr(K(Age), <<Mod("default", N(99))>>)>>,
    <<Expr(K(Friend), <<Mod("limit", Nil)>>), Entry(R(Boss), Vec(<<K(Age), R(Boss)>>))>>,
    <<Expr(K(Friend), <<Mod("limit", N(0)), Mod("default", N(99))>>), Expr(R(Friend), <<Mod("limit", N(0))>>)>>,
    <<Expr(K(Friend), <<Mod("limit", N(-1))>>)>>,
    <<Entry(K(Friend), Nil)>>,
    <<K(Name), Expr(K(Age), <<Mod("as", N(3))>>)>> >>

=============================================================================
