------------------------------- MODULE Datoms -------------------------------
(***************************************************************************)
(* The data of a pg_mentat store and the reads the extension performs on   *)
(* it.  The append-only log is the nine datoms_<type>_new tables, seen as  *)
(* one set of rows; the current-state projection is the nine current_<type>*)
(* tables, seen as one set of rows.  Value types only matter through the   *)
(* distinction between references (entity ids) and scalars, so the nine    *)
(* tables of each kind are one set.                                        *)
(***************************************************************************)
EXTENDS Integers, FiniteSets

CONSTANTS
    MaxEntity,        \* bound: entity ids are 1..MaxEntity
    Attr,             \* installed attributes (rows of mentat.schema)
    Scalar,           \* values that are not references
    RefAttr,          \* :db.type/ref
    CardMany,         \* :db.cardinality/many; the others are cardinality one
    UniqueIdentity,   \* :db.unique/identity
    UniqueValue,      \* :db.unique/value
    NoHistory,        \* :db/noHistory true
    Component,        \* :db/isComponent true
    ReadBack          \* a stored value as the cardinality-one check reads it

Entity == 1..MaxEntity

Value == Entity \cup Scalar

ASSUME EntityAssumption == MaxEntity \in Nat

ASSUME SchemaAssumption ==
    /\ RefAttr \subseteq Attr
    /\ CardMany \subseteq Attr
    /\ UniqueIdentity \subseteq Attr
    /\ UniqueValue \subseteq Attr
    /\ NoHistory \subseteq Attr
    /\ Component \subseteq RefAttr

ASSUME ReadBackAssumption == ReadBack \in [Value -> Value]

UniqueAttr == UniqueIdentity \cup UniqueValue

\* The values whose type tag an attribute accepts.
Typed(a) == IF a \in RefAttr THEN Entity ELSE Scalar

Triple == [e : Entity, a : Attr, v : Value]

Row == [e : Entity, a : Attr, v : Value, added : BOOLEAN]

LogRow == [e : Entity, a : Attr, v : Value, tx : Nat, added : BOOLEAN]

CurRow == [e : Entity, a : Attr, v : Value, tx : Nat]

Key(r) == [e |-> r.e, a |-> r.a, v |-> r.v]

Asserted(t) == [e |-> t.e, a |-> t.a, v |-> t.v, added |-> TRUE]

Retracted(t) == [e |-> t.e, a |-> t.a, v |-> t.v, added |-> FALSE]

AtTx(r, t) == [e |-> r.e, a |-> r.a, v |-> r.v, tx |-> t, added |-> r.added]

CurAt(r, t) == [e |-> r.e, a |-> r.a, v |-> r.v, tx |-> t]

-----------------------------------------------------------------------------
(* Reads *)

\* r is the newest row of its (e, a, v) in the log L.
Latest(L, r) == \A s \in L : Key(s) = Key(r) => s.tx <= r.tx

\* What rebuild_current_projection computes from the log: the newest row of
\* each (e, a, v), kept only when it is an assertion.
Rebuilt(L) == {CurAt(r, r.tx) : r \in {s \in L : s.added /\ Latest(L, s)}}

\* Mutant: the lookup has the added flag the wrong way round.
OwnersOfRetracted(L, a, v) == {r.e : r \in {s \in L : s.a = a /\ s.v = v /\ ~s.added}}

\* The entities check_unique_typed_value may return for (a, v): it scans the
\* log for an assertion, whether or not the assertion is still live.
Owners(L, a, v) == {r.e : r \in {s \in L : s.a = a /\ s.v = v /\ s.added}}

\* The live values of (e, a) in the projection.
CurrentValues(C, e, a) == {c.v : c \in {d \in C : d.e = e /\ d.a = a}}

IsLive(C, t) == \E c \in C : Key(c) = Key(t)

\* The entities execute_retract_entity_recursive visits from e: the least set
\* that holds e and is closed under the component references of the log.
ComponentClosure(L, e) ==
    LET Closed(S) == \A r \in L : (r.added /\ r.a \in Component /\ r.e \in S) => r.v \in S
    IN  {x \in Entity : \A S \in SUBSET Entity : (e \in S /\ Closed(S)) => x \in S}

-----------------------------------------------------------------------------
(* Writes *)

\* prune_no_history_ea, on the log, and prune_projection_ea, on the projection.
PruneEA(R, e, a) == {r \in R : r.e # e \/ r.a # a}

\* prune_no_history_eav
PruneEAV(L, d) == {r \in L : Key(r) # Key(d)}

\* A batch that asserts and retracts one (e, a, v) lists a conflict key twice
\* in a single INSERT ... ON CONFLICT, which PostgreSQL rejects.
BatchConflict(R) == \E r, s \in R : Key(r) = Key(s) /\ r.added # s.added

\* batch_insert_datoms: the rows of the batch, stamped with the transaction.
BatchInsert(L, R, t) == L \cup {AtTx(r, t) : r \in R}

\* Mutant: the retracted keys are not deleted.
MaintainUpsertsOnly(C, R, t) ==
    {c \in C : \A r \in R : r.added => Key(r) # Key(c)}
        \cup {CurAt(r, t) : r \in {s \in R : s.added}}

\* maintain_current_projection: delete the retracted keys, upsert the
\* asserted ones.
MaintainProjection(C, R, t) ==
    {c \in C : \A r \in R : Key(r) # Key(c)}
        \cup {CurAt(r, t) : r \in {s \in R : s.added}}

=============================================================================
