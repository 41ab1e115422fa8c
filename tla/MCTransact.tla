----------------------------- MODULE MCTransact -----------------------------
(***************************************************************************)
(* Instances of Transact for TLC.  The attributes are                      *)
(*   id    unique identity        key   unique identity                    *)
(*   name  plain, cardinality one tag   cardinality many                   *)
(*   seen  noHistory, one         mark  noHistory, many                    *)
(*   part  component reference, many                                       *)
(* v1, v2 and w are scalars, x and y tempids.  A behaviour submits         *)
(* programs of one family only: what the families exercise does not meet,  *)
(* and their product is out of reach.                                      *)
(***************************************************************************)
EXTENDS Transact

CONSTANTS
    id, key, name, tag, seen, mark, part, v1, v2, w, x, y,
    Families    \* the families of programs that are submitted

Id(n) == [p |-> "id", id |-> n]
Tmp(t) == [p |-> "tempid", t |-> t]
Val(s) == [p |-> "scalar", s |-> s]
Lookup(a, v) == [p |-> "lookup", a |-> a, v |-> v]

Scalars == {Val(v1), Val(v2)}

AddOps(E, A, V) == [f : {"add"}, e : E, a : A, v : V]
RetractOps(E, A, V) == [f : {"retract"}, e : E, a : A, v : V]
CasOps(E, A, O, V) == [f : {"cas"}, e : E, a : A, old : O, v : V]
RetractEntityOps(E) == [f : {"retractEntity"}, e : E]

\* Programs of one or two of the operations O.
Programs(O) == {<<o>> : o \in O} \cup {<<o, q>> : o, q \in O}

\* Every value is read back as it was stored.
Exact == [v \in Value |-> v]

\* Two instants within one second: both are read back as the whole second w.
Rounded == [v \in Value |-> IF v \in {v1, v2} THEN w ELSE v]

BasicOps ==
    Programs(AddOps({Id(1)}, {name, tag}, Scalars)
        \cup RetractOps({Id(1)}, {name, tag}, Scalars)
        \cup CasOps({Id(1)}, {name}, Scalars \cup {Nil}, {Val(v2)}))

\* Identity values are asserted on tempids and looked up; the other datoms are
\* written with tempids, ids and lookup refs, a tempid in a value place included.
UpsertOps ==
    LET named == AddOps({Tmp(x), Tmp(y)}, {id}, Scalars)
        others == AddOps({Tmp(x), Id(2), Lookup(id, v1)}, {name}, Scalars)
        points == AddOps({Id(2)}, {part}, {Tmp(y)})
    IN  Programs(named \cup others)
            \cup {<<o, q>> : o \in points, q \in named} \cup {<<o>> : o \in points} \cup {<<o, q, r>> : o, q, r \in named}

\* Two identity attributes, tempids only.
TwoIdentityOps ==
    LET named == AddOps({Tmp(x), Tmp(y)}, {id, key}, {Val(v1)})
    IN  {<<o>> : o \in named} \cup {<<o, q, r>> : o, q, r \in named}

\* Identity values are asserted on ids.
LiteralOps ==
    LET named == AddOps({Id(1), Id(2)}, {id}, Scalars)
    IN  {<<o, q>> : o, q \in named} \cup {<<o, q, r>> : o, q, r \in named}

NoHistoryOps ==
    Programs(AddOps({Id(1)}, {seen, mark}, Scalars)
        \cup RetractOps({Id(1)}, {seen, mark}, {Val(v1)}))

\* Components: 1 -> 2 -> 3 and back, with a plain datom on each entity.
ComponentOps ==
    {<<o>> : o \in AddOps({Id(1)}, {part}, {Id(2), Id(3)})
                 \cup AddOps({Id(2)}, {part}, {Id(3), Id(1)})
                 \cup RetractOps({Id(1)}, {part}, {Id(2)})
                 \cup AddOps({Id(2), Id(3)}, {name}, {Val(v1)})
                 \cup RetractEntityOps({Id(1), Id(2)})}
        \cup {<<r, a>> : r \in RetractEntityOps({Id(1)}),
                         a \in AddOps({Id(2)}, {name}, Scalars)}

Submitted(f) ==
    CASE f = "basic" -> BasicOps [] f = "upsert" -> UpsertOps
      [] f = "twoIdentities" -> TwoIdentityOps [] f = "literal" -> LiteralOps
      [] f = "noHistory" -> NoHistoryOps [] f = "component" -> ComponentOps

FamilyOps == UNION {Submitted(f) : f \in Families}

\* Bound: the transaction ids handed out in one behaviour.
Transactions(f) == CASE f \in {"upsert", "twoIdentities"} -> 2 [] f = "component" -> 4 [] OTHER -> 3

VARIABLE family

FamilyInit == Init /\ family \in Families

FamilyNext ==
    /\ \/ /\ txSeq < Transactions(family)
          /\ \E program \in Submitted(family), speculative \in BOOLEAN : Begin(program, speculative)
       \/ Step
    /\ UNCHANGED family

FamilySpec == FamilyInit /\ [][FamilyNext]_<<vars, family>>

=============================================================================
