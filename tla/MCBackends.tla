----------------------------- MODULE MCBackends -----------------------------
(***************************************************************************)
(* Instances of Backends for TLC: name is plain and of cardinality one,    *)
(* email is of :db.unique/value, tag of cardinality many, phone both.  A   *)
(* behaviour submits programs of one family only: what the families        *)
(* exercise does not meet, and their product is out of reach.              *)
(***************************************************************************)
EXTENDS Backends, TLC

CONSTANTS
    name, email, tag, phone, v1, v2, b1, b2,
    Families    \* the families of programs that are submitted

AddOps(E, A, V) == [f : {"add"}, e : E, a : A, v : V]
RetractOps(E, A, V) == [f : {"retract"}, e : E, a : A, v : V]
CasOps(E, A, O, V) == [f : {"cas"}, e : E, a : A, old : O, v : V]

Exact == [v \in Value |-> v]

\* Every unique value has a lock of its own.
DistinctLocks == [p \in Attr \X Value |-> IF p[2] = v1 THEN 1 ELSE 2]

Swap == Permutations({b1, b2})

\* Two unique values claimed in either order by two entities, one value claimed
\* for both of them, and one entity that is given both.
UniqueOps ==
    LET claim == AddOps({1, 2}, {email}, {v1, v2})
        first == [f |-> "add", e |-> 1, a |-> email, v |-> v1]
    IN  {<<o>> : o \in claim}
            \cup {<<p[1], p[2]>> : p \in {c \in claim \X claim : c[1].v # c[2].v /\ c[1].e # c[2].e}}
            \cup {<<first, [first EXCEPT !.e = 2]>>, <<first, [first EXCEPT !.v = v2]>>}

PlainOps ==
    {<<o>> : o \in AddOps({1}, {name}, {v1, v2}) \cup RetractOps({1}, {name}, {v1})
                       \cup CasOps({1}, {name}, {v1, Nil}, {v2})}
        \cup {<<o, q>> : o \in RetractOps({1}, {name}, {v1}), q \in AddOps({1}, {name}, {v1})}

\* Advisory locks taken in opposite orders, and rows of the projection deleted
\* and upserted in opposite orders.
CrossingOps ==
    LET claim(v) == [f |-> "add", e |-> 1, a |-> phone, v |-> v]
        add(v) == [f |-> "add", e |-> 1, a |-> tag, v |-> v]
        drop(v) == [f |-> "retract", e |-> 1, a |-> tag, v |-> v]
    IN  {<<claim(v1), claim(v2)>>, <<claim(v2), claim(v1)>>,
         <<drop(v1), add(v2)>>, <<drop(v2), add(v1)>>, <<add(v1), add(v2)>>}

Submitted(f) ==
    CASE f = "plain" -> PlainOps [] f = "unique" -> UniqueOps [] f = "crossing" -> CrossingOps

FamilyOps == UNION {Submitted(f) : f \in Families}

VARIABLE family

FamilyInit == Init /\ family \in Families

FamilyNext ==
    /\ \E b \in Backend :
          \/ \E program \in Submitted(family) : Begin(b, program)
          \/ Step(b)
          \/ Cancel(b)
          \/ Disconnect(b)
    /\ UNCHANGED family

FamilySpec ==
    /\ FamilyInit
    /\ [][FamilyNext]_<<vars, family>>
    /\ \A b \in Backend : WF_vars(Step(b))

=============================================================================
