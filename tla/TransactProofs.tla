--------------------------- MODULE TransactProofs ---------------------------
(***************************************************************************)
(* Proofs about Transact for every schema, every set of transactions and   *)
(* every bound: type correctness, the projection is the resolution of the  *)
(* log, unique values have one owner, cardinality-one attributes have one  *)
(* live value (when values are read back exactly), the log is append-only, *)
(* noHistory attributes keep one assertion, and Transact implements Store. *)
(***************************************************************************)
EXTENDS Transact, TLAPS

-----------------------------------------------------------------------------
(* Type correctness *)

\* Owners are entities of the log.
LEMMA OwnersType ==
    ASSUME NEW L \in SUBSET LogRow, NEW a, NEW v
    PROVE  Owners(L, a, v) \subseteq Entity
BY Zenon DEF Owners, LogRow

\* A place that resolves denotes a value, and an entity place an entity.
LEMMA ResolveType ==
    ASSUME TypeOK, NEW op \in Op, ~PlaceFails(op), Unallocated(op) = {},
           NEW x \in ValuePlace, x \in PlacesOf(op)
    PROVE  /\ Resolve(x) \in Value
           /\ x \in Place => Resolve(x) \in Entity
<1>1. CASE x \in [p : {"id"}, id : Entity]
  BY Zenon, <1>1 DEF Resolve, Value
<1>2. CASE x \in [p : {"tempid"}, t : TempId]
  <2>1. x = [p |-> "tempid", t |-> x.t] /\ x.t \in TempId
    BY Zenon, <1>2
  <2>2. tempids[x.t] # 0
    BY Zenon, <2>1 DEF Unallocated
  <2>3. tempids[x.t] \in Entity
    BY <2>1, <2>2, EntityAssumption DEF TypeOK, Entity
  <2> QED
    BY <2>1, <2>3 DEF Resolve, Value
<1>3. CASE x \in [p : {"lookup"}, a : Attr, v : Value]
  <2>1. x.p = "lookup"
    BY Zenon, <1>3
  <2>2. Owners(wlog, x.a, x.v) # {}
    BY Zenon, <2>1 DEF PlaceFails
  <2>3. (CHOOSE o \in Owners(wlog, x.a, x.v) : TRUE) \in Owners(wlog, x.a, x.v)
    BY Zenon, <2>2
  <2>4. Owners(wlog, x.a, x.v) \subseteq Entity
    BY Zenon, OwnersType DEF TypeOK
  <2> QED
    BY Zenon, <2>1, <2>3, <2>4 DEF Resolve, Value
<1>4. CASE x \in [p : {"scalar"}, s : Scalar] /\ x \notin Place
  BY Zenon, <1>4 DEF Resolve, Value
<1> QED
  BY Zenon, <1>1, <1>2, <1>3, <1>4 DEF ValuePlace, Place

\* The operation Pass 2 stands at is one of the submitted operations.
LEMMA CurrentOp ==
    ASSUME TypeOK, Expanding
    PROVE  ops[k] \in Op
BY DEF TypeOK, Expanding

\* The datom of an operation whose places resolve is well typed.
LEMMA TripleOfType ==
    ASSUME TypeOK, NEW f \in {"add", "retract", "cas"}, Expand(f)
    PROVE  TripleOf(ops[k]) \in Triple
<1> DEFINE op == ops[k]
<1>1. op \in Op /\ op.f = f /\ ~PlaceFails(op) /\ Unallocated(op) = {}
  BY Zenon, CurrentOp DEF Expand
<1>2. op.e \in Place /\ op.a \in Attr /\ op.v \in ValuePlace
  BY Zenon, <1>1 DEF Op
<1>3. op.e \in PlacesOf(op) /\ op.v \in PlacesOf(op)
  BY Zenon, <1>1 DEF PlacesOf
<1>4. op.e \in ValuePlace
  BY Zenon, <1>2 DEF ValuePlace
<1>5. Resolve(op.e) \in Entity
  BY Zenon, <1>1, <1>2, <1>3, <1>4, ResolveType
<1>6. Resolve(op.v) \in Value
  BY Zenon, <1>1, <1>2, <1>3, ResolveType
<1> QED
  BY Zenon, <1>2, <1>5, <1>6 DEF TripleOf, Triple

\* The datom insert_datoms stands at is a pending assertion.
LEMMA CurrentDatom ==
    ASSUME TypeOK, Inserting
    PROVE  adds[k] \in Triple /\ k \in 1..Len(adds)
BY DEF TypeOK, Inserting

\* The transaction state of an idle connection is well typed.
LEMMA IdleType ==
    /\ <<>> \in Seq(Op) /\ <<>> \in Seq(Triple)
    /\ [t \in TempId |-> 0] \in [TempId -> 0..MaxEntity]
    /\ FALSE \in BOOLEAN
    /\ 0 \in 0..MaxEntity
BY SMTT(30), EntityAssumption

\* A step of any kind keeps every variable in its type.
LEMMA TypeStep ==
    ASSUME TypeOK, [Next]_vars
    PROVE  TypeOK'
<1> USE DEF TypeOK
<1>1. ASSUME NEW program \in TxOps, NEW speculative \in BOOLEAN, Begin(program, speculative)
      PROVE  TypeOK'
  BY <1>1, TransactAssumption DEF Begin, dbVars
<1>2. ASSUME EndTx, UNCHANGED <<dbVars, seqVars>>
      PROVE  TypeOK'
  BY <1>2, IdleType, Zenon DEF EndTx, dbVars, seqVars
<1>3. ASSUME NEW t \in TempId, Allocate(t)
      PROVE  TypeOK'
  BY <1>3, EntityAssumption DEF Allocate, dbVars, Entity
<1>4. CASE EndScan
  BY Zenon, <1>4 DEF EndScan, dbVars, seqVars
<1>5. CASE ExpandAdd
  <2>1. TripleOf(ops[k]) \in Triple
    BY Zenon, <1>5, TripleOfType DEF ExpandAdd
  <2> QED
    BY <1>5, <2>1 DEF ExpandAdd, Expand, NextOp, dbVars, seqVars
<1>6. CASE ExpandRetract
  <2>1. TripleOf(ops[k]) \in Triple
    BY Zenon, <1>6, TripleOfType DEF ExpandRetract
  <2> QED
    BY <1>6, <2>1 DEF ExpandRetract, Expand, NextOp, dbVars, seqVars
<1>7. CASE ExpandCas
  <2> DEFINE old == [TripleOf(ops[k]) EXCEPT !.v = Resolve(ops[k].old)]
  <2>1. TripleOf(ops[k]) \in Triple
    BY Zenon, <1>7, TripleOfType DEF ExpandCas
  <2>2. ASSUME ops[k].old # Nil
        PROVE  old \in Triple
    <3>1. ops[k] \in Op /\ ops[k].f = "cas"
      BY Zenon, <1>7, CurrentOp DEF ExpandCas, Expand
    <3>2. ops[k].old \in ValuePlace /\ ops[k].old \in PlacesOf(ops[k])
      BY Zenon, <3>1, <2>2 DEF Op, PlacesOf
    <3>3. Resolve(ops[k].old) \in Value
      BY <1>7, <3>1, <3>2, ResolveType, Zenon DEF ExpandCas, Expand
    <3> QED
      BY Zenon, <2>1, <3>3 DEF Triple
  <2>3. adds' \in Seq(Triple)
    BY <1>7, <2>1 DEF ExpandCas
  <2>4. rets' \subseteq Triple
    <3>1. rets' = rets \cup (IF ops[k].old = Nil THEN {} ELSE {old})
      BY Zenon, <1>7 DEF ExpandCas
    <3> HIDE DEF old
    <3> QED
      BY Zenon, <2>2, <3>1
  <2> QED
    BY <1>7, <2>3, <2>4, SMTT(30) DEF ExpandCas, Expand, NextOp, dbVars, seqVars
<1>8. CASE ExpandRetractEntity
  <2>1. rets' \subseteq Triple
    BY <1>8 DEF ExpandRetractEntity, Key, LogRow, Triple
  <2> QED
    BY <1>8, <2>1 DEF ExpandRetractEntity, Expand, NextOp, dbVars, seqVars
<1>9. CASE Upsert
  <2>1. PICK m \in Remaps :
          /\ adds' = [i \in DOMAIN adds |-> Remap(m, adds[i])]
          /\ rets' = {Remap(m, t) : t \in rets}
          /\ tempids' = [t \in TempId |-> IF tempids[t] = 0 THEN 0 ELSE m[tempids[t]]]
          /\ kept' = Kept(m, adds')
    BY Zenon, <1>9 DEF Upsert
  <2>2. ASSUME NEW t \in Triple
        PROVE  Remap(m, t) \in Triple
    BY Zenon DEF Remaps, Remap, Triple, Value
  <2>3. adds' \in Seq(Triple)
    BY <2>1, <2>2
  <2>4. rets' \subseteq Triple
    BY Zenon, <2>1, <2>2
  <2>5. tempids' \in [TempId -> 0..MaxEntity]
    BY <2>1, EntityAssumption, SMTT(30) DEF Remaps, Entity
  <2>6. kept' \subseteq Nat
    BY <2>1, <2>3 DEF Kept
  <2>7. rows' \subseteq Row
    <3>1. rows' = {Retracted(t) : t \in rets'}
      BY Zenon, <1>9 DEF Upsert
    <3>2. ASSUME NEW t \in Triple
          PROVE  Retracted(t) \in Row
      BY Zenon DEF Retracted, Row, Triple
    <3> QED
      BY Zenon, <2>4, <3>1, <3>2
  <2> QED
    BY <1>9, <2>3, <2>4, <2>5, <2>6, <2>7 DEF Upsert, dbVars, seqVars
<1>10. CASE DropDuplicate
  BY <1>10 DEF DropDuplicate, Inserting, NextDatom, dbVars, seqVars
<1>11. CASE Insert
  <2> DEFINE d == adds[k]
  <2>1. d \in Triple
    BY Zenon, <1>11, CurrentDatom DEF Insert
  <2>2. Asserted(d) \in Row
    BY Zenon, <2>1 DEF Asserted, Row, Triple
  <2>3. ASSUME NEW old \in ReplacedValues(d)
        PROVE  Retracted([d EXCEPT !.v = old]) \in Row
    <3>1. old \in Value
      BY <2>3, ReadBackAssumption DEF ReplacedValues, CurrentValues, CurRow
    <3> QED
      BY Zenon, <2>1, <3>1 DEF Retracted, Row, Triple
  <2>4. rows' \subseteq Row /\ wlog' \subseteq LogRow /\ wcur' \subseteq CurRow
    BY <1>11, <2>2, <2>3, Zenon DEF Insert, InsertSkip, InsertOne, InsertMany,
                              InsertNoHistoryOne, InsertNoHistoryMany, PruneEA, PruneEAV
  <2> QED
    BY <1>11, <2>4 DEF Insert, Inserting, NextDatom, dbVars, seqVars
<1>12. CASE Commit
  <2>1. log' \subseteq LogRow
    BY <1>12 DEF Commit, BatchInsert, AtTx, LogRow, Row
  <2>2. cur' \subseteq CurRow
    BY <1>12 DEF Commit, MaintainProjection, CurAt, CurRow, Row
  <2> QED
    BY <1>12, <2>1, <2>2, IdleType, Zenon DEF Commit, EndTx, seqVars
<1>13. CASE RebuildProjection
  BY <1>13 DEF RebuildProjection, Rebuilt, CurAt, CurRow, LogRow, seqVars, txVars
<1>14. CASE UNCHANGED vars
  BY Zenon, <1>14 DEF vars, dbVars, seqVars, txVars
<1>15. CASE ScanTempid
  <2>1. PICK i \in ToScan : Allocate(ops[i].e.t)
    BY Zenon, <1>15 DEF ScanTempid
  <2>2. ops[i] \in Op /\ ops[i].f = "add" /\ ops[i].e.p = "tempid"
    BY <2>1 DEF ToScan
  <2>3. ops[i].e \in Place
    BY Zenon, <2>2 DEF Op
  <2>4. ops[i].e.t \in TempId
    BY Zenon, <2>2, <2>3 DEF Place
  <2> QED
    BY Zenon, <2>1, <2>4, <1>3
<1>16. CASE AllocateTempid
  BY Zenon, <1>16, <1>3 DEF AllocateTempid, Unallocated
<1> QED
  BY Zenon, <1>1, <1>2, <1>4, <1>5, <1>6, <1>7, <1>8, <1>9, <1>10, <1>11, <1>12, <1>13, <1>14,
     <1>15, <1>16
  DEF Next, Step, Cancel, Fail, ResolvePlacesFails, CasFails, UpsertFails, Reject, BatchFails,
      RollBackSpeculation

\* The empty store, before the first call of mentat_transact, has its types.
LEMMA TypeInitially ==
    ASSUME Init
    PROVE  TypeOK
BY IdleType, Zenon DEF Init, TypeOK

\* Every reachable state of the transaction processor is well typed: pending
\* datoms, tempid assignments and rows keep their shape through resolution,
\* upsert remapping and insertion.
THEOREM TypeCorrect == Spec => []TypeOK
BY TypeInitially, TypeStep, PTL DEF Spec

-----------------------------------------------------------------------------
(* The projection *)

\* Membership in the resolution of a log.
LEMMA RebuiltMember ==
    ASSUME NEW L \in SUBSET LogRow, NEW c
    PROVE  c \in Rebuilt(L) <=> \E r \in L : r.added /\ Latest(L, r) /\ c = CurAt(r, r.tx)
BY Zenon DEF Rebuilt

\* Pruning an (e, a) from the log prunes it from the resolution.
LEMMA RebuiltPruneEA ==
    ASSUME NEW L \in SUBSET LogRow, NEW e, NEW a
    PROVE  Rebuilt(PruneEA(L, e, a)) = PruneEA(Rebuilt(L), e, a)
<1> DEFINE P == {r \in L : r.e # e \/ r.a # a}
<1>1. ASSUME NEW r \in P
      PROVE  Latest(P, r) <=> Latest(L, r)
  BY Zenon DEF Latest, Key, LogRow
<1>2. ASSUME NEW c \in Rebuilt(P)
      PROVE  c \in Rebuilt(L) /\ (c.e # e \/ c.a # a)
  <2>1. PICK r \in P : r.added /\ Latest(P, r) /\ c = CurAt(r, r.tx)
    BY Zenon, RebuiltMember
  <2> QED
    BY Zenon, <1>1, <2>1, RebuiltMember DEF CurAt
<1>3. ASSUME NEW c \in Rebuilt(L), c.e # e \/ c.a # a
      PROVE  c \in Rebuilt(P)
  <2>1. PICK r \in L : r.added /\ Latest(L, r) /\ c = CurAt(r, r.tx)
    BY Zenon, RebuiltMember
  <2>2. r \in P
    BY Zenon, <1>3, <2>1 DEF CurAt
  <2> QED
    BY Zenon, <1>1, <2>1, <2>2, RebuiltMember
<1> QED
  BY Zenon, <1>2, <1>3 DEF PruneEA

\* Pruning an (e, a, v) that is not live leaves the resolution alone.
LEMMA RebuiltPruneEAV ==
    ASSUME NEW L \in SUBSET LogRow, NEW d, ~IsLive(Rebuilt(L), d)
    PROVE  Rebuilt(PruneEAV(L, d)) = Rebuilt(L)
<1> DEFINE P == {r \in L : Key(r) # Key(d)}
<1>1. ASSUME NEW r \in P
      PROVE  Latest(P, r) <=> Latest(L, r)
  BY Zenon DEF Latest
<1>2. ASSUME NEW c \in Rebuilt(P)
      PROVE  c \in Rebuilt(L)
  <2>1. PICK r \in P : r.added /\ Latest(P, r) /\ c = CurAt(r, r.tx)
    BY Zenon, RebuiltMember
  <2> QED
    BY Zenon, <1>1, <2>1, RebuiltMember
<1>3. ASSUME NEW c \in Rebuilt(L)
      PROVE  c \in Rebuilt(P)
  <2>1. PICK r \in L : r.added /\ Latest(L, r) /\ c = CurAt(r, r.tx)
    BY Zenon, RebuiltMember
  <2>2. Key(c) = Key(r)
    BY Zenon, <2>1 DEF CurAt, Key
  <2>3. r \in P
    BY Zenon, <1>3, <2>2 DEF IsLive
  <2> QED
    BY Zenon, <1>1, <2>1, <2>3, RebuiltMember
<1> QED
  BY Zenon, <1>2, <1>3 DEF PruneEAV

\* maintain_current_projection computes the resolution of the log that
\* batch_insert_datoms leaves, when the batch is newer than the log.
LEMMA RebuiltBatch ==
    ASSUME NEW L \in SUBSET LogRow, NEW R \in SUBSET Row, NEW t \in Nat,
           \A r \in L : r.tx < t
    PROVE  Rebuilt(BatchInsert(L, R, t)) = MaintainProjection(Rebuilt(L), R, t)
<1> DEFINE B == BatchInsert(L, R, t)
<1>1. B \in SUBSET LogRow
  BY DEF BatchInsert, AtTx, LogRow, Row
<1>2. ASSUME NEW q \in R
      PROVE  /\ AtTx(q, t) \in B /\ Key(AtTx(q, t)) = Key(q) /\ AtTx(q, t).tx = t
             /\ AtTx(q, t).added = q.added /\ CurAt(AtTx(q, t), t) = CurAt(q, t)
             /\ Latest(B, AtTx(q, t))
  <2>1. /\ AtTx(q, t) \in B /\ Key(AtTx(q, t)) = Key(q) /\ AtTx(q, t).tx = t
        /\ AtTx(q, t).added = q.added /\ CurAt(AtTx(q, t), t) = CurAt(q, t)
    BY Zenon DEF BatchInsert, AtTx, Key, CurAt
  <2>2. \A s \in B : s.tx <= t
    BY DEF BatchInsert, AtTx, LogRow
  <2> QED
    BY Zenon, <2>1, <2>2 DEF Latest
<1>3. ASSUME NEW c \in Rebuilt(B)
      PROVE  c \in MaintainProjection(Rebuilt(L), R, t)
  <2>1. PICK r \in B : r.added /\ Latest(B, r) /\ c = CurAt(r, r.tx)
    BY Zenon, <1>1, RebuiltMember
  <2>2. CASE r \in L
    <3>1. Latest(L, r)
      BY Zenon, <2>1 DEF Latest, BatchInsert
    <3>2. c \in Rebuilt(L)
      BY Zenon, <2>1, <2>2, <3>1, RebuiltMember
    <3>3. ASSUME NEW q \in R, Key(q) = Key(c)
          PROVE  FALSE
      <4>1. Key(c) = Key(r)
        BY Zenon, <2>1 DEF CurAt, Key
      <4>2. t <= r.tx
        BY Zenon, <1>2, <2>1, <3>3, <4>1 DEF Latest
      <4> QED
        BY <2>2, <4>2 DEF LogRow
    <3> QED
      BY Zenon, <3>2, <3>3 DEF MaintainProjection
  <2>3. CASE r \notin L
    <3>1. PICK q \in R : r = AtTx(q, t)
      BY Zenon, <2>3 DEF BatchInsert
    <3> QED
      BY Zenon, <1>2, <2>1, <3>1 DEF MaintainProjection
  <2> QED
    BY Zenon, <2>2, <2>3
<1>4. ASSUME NEW c \in MaintainProjection(Rebuilt(L), R, t)
      PROVE  c \in Rebuilt(B)
  <2>1. CASE c \in Rebuilt(L) /\ \A q \in R : Key(q) # Key(c)
    <3>1. PICK r \in L : r.added /\ Latest(L, r) /\ c = CurAt(r, r.tx)
      BY Zenon, <2>1, RebuiltMember
    <3>2. Key(c) = Key(r)
      BY Zenon, <3>1 DEF CurAt, Key
    <3>3. Latest(B, r)
      BY <1>2, <2>1, <3>1, <3>2 DEF Latest, BatchInsert
    <3>4. r \in B
      BY Zenon, <3>1 DEF BatchInsert
    <3> QED
      BY Zenon, <1>1, <3>1, <3>3, <3>4, RebuiltMember
  <2>2. CASE \E q \in R : q.added /\ c = CurAt(q, t)
    BY Zenon, <1>1, <1>2, <2>2, RebuiltMember
  <2> QED
    BY Zenon, <2>1, <2>2 DEF MaintainProjection
<1> QED
  BY Zenon, <1>3, <1>4

-----------------------------------------------------------------------------
(* The inductive invariant *)

Active == pc # "idle"

\* The committed projection resolves the committed log, the running call's view
\* of the projection resolves its view of the log, and the call's transaction
\* id is newer than every row and every transaction it can see.
ProjInv ==
    /\ cur = Rebuilt(log)
    /\ \A r \in log : r.tx <= txSeq
    /\ \A t \in transactions : t <= txSeq
    /\ Active =>
          /\ txid = txSeq
          /\ wcur = Rebuilt(wlog)
          /\ wlog \subseteq log
          /\ \A r \in log \ wlog : r.a \in NoHistory
          /\ \A r \in wlog : r.tx < txid
          /\ \A t \in transactions : t < txid

OneOwner(L) ==
    \A r, s \in L :
        (r.added /\ s.added /\ r.a = s.a /\ r.v = s.v /\ r.a \in UniqueAttr) => r.e = s.e

\* An asserted row of the batch was a pending assertion; for a unique attribute
\* nobody else owns its value, in the log or among the pending assertions.
UniqueInv ==
    /\ OneOwner(log)
    /\ Active => OneOwner(wlog)
    /\ pc = "insert" =>
          \A r \in rows : r.added =>
              /\ \E i \in kept : i < k /\ adds[i] = Key(r)
              /\ r.a \in UniqueAttr =>
                    /\ Owners(wlog, r.a, r.v) \subseteq {r.e}
                    /\ \A i \in kept : (adds[i].a = r.a /\ adds[i].v = r.v) => adds[i].e = r.e

OneValue(C) ==
    \A c, d \in C : (c.e = d.e /\ c.a = d.a /\ c.a \notin CardMany) => c.v = d.v

\* An asserted row of a cardinality-one attribute is the only pending assertion
\* of its (e, a), and the batch retracts every live value of that (e, a).
OneInv ==
    /\ OneValue(cur)
    /\ Active => OneValue(wcur)
    /\ pc = "insert" =>
          \A r \in rows : (r.added /\ r.a \notin CardMany) =>
              /\ \A i \in kept : (adds[i].e = r.e /\ adds[i].a = r.a) => (i < k /\ adds[i].v = r.v)
              /\ \A c \in wcur : (c.e = r.e /\ c.a = r.a) =>
                    \E s \in rows : ~s.added /\ Key(s) = Key(c)

-----------------------------------------------------------------------------
(* The steps, by what they do to the store and to the batch *)

\* A step of Pass 1 or Pass 2, which touches neither.
Preparing ==
    /\ pc \in {"scan", "expand"} /\ pc' \in {"scan", "expand"}
    /\ UNCHANGED <<log, cur, transactions, txSeq, txid, wlog, wcur>>

\* Every step begins or ends a call, prepares its datoms without touching the
\* tables, or is one of the five steps the invariant proofs treat one by one.
LEMMA StepCases ==
    ASSUME [Next]_vars
    PROVE  \/ \E program \in TxOps, speculative \in BOOLEAN : Begin(program, speculative)
           \/ EndTx /\ UNCHANGED <<dbVars, seqVars>>
           \/ Preparing
           \/ Upsert \/ DropDuplicate \/ Insert \/ Commit \/ RebuildProjection
           \/ UNCHANGED vars
<1>1. ASSUME NEW t, Allocate(t), pc \in {"scan", "expand"}
      PROVE  Preparing
  BY Zenon, <1>1 DEF Allocate, Preparing, dbVars
<1>2. ASSUME NEW f, Expand(f), NextOp
      PROVE  Preparing
  BY Zenon, <1>2 DEF Expand, Expanding, NextOp, Preparing, dbVars, seqVars
<1>3. CASE EndScan
  BY Zenon, <1>3 DEF EndScan, Preparing, dbVars, seqVars
<1>4. CASE ScanTempid
  BY Zenon, <1>4, <1>1 DEF ScanTempid
<1>5. CASE AllocateTempid
  BY Zenon, <1>5, <1>1 DEF AllocateTempid, Expanding
<1>6. CASE ExpandAdd \/ ExpandRetract \/ ExpandCas \/ ExpandRetractEntity
  BY Zenon, <1>6, <1>2 DEF ExpandAdd, ExpandRetract, ExpandCas, ExpandRetractEntity
<1> QED
  BY Zenon, <1>3, <1>4, <1>5, <1>6
  DEF Next, Step, Cancel, Fail, ResolvePlacesFails, CasFails, UpsertFails, Reject, BatchFails,
      RollBackSpeculation

\* The changes Insert makes to the call's view of log and projection.
LEMMA InsertView ==
    ASSUME TypeOK, Insert, wcur = Rebuilt(wlog)
    PROVE  /\ wlog' \subseteq wlog
           /\ \A r \in wlog \ wlog' : r.a \in NoHistory
           /\ wcur' = Rebuilt(wlog')
           /\ wcur' \subseteq wcur
<1> DEFINE d == adds[k]
<1>0. wlog \in SUBSET LogRow
  BY Zenon DEF TypeOK
<1>1. CASE UNCHANGED <<wlog, wcur>>
  BY Zenon, <1>1
<1>2. CASE InsertNoHistoryOne(d)
  <2>1. /\ wlog' = PruneEA(wlog, d.e, d.a)
        /\ wcur' = PruneEA(wcur, d.e, d.a)
        /\ d.a \in NoHistory
    BY Zenon, <1>2 DEF InsertNoHistoryOne
  <2>2. wcur' = Rebuilt(wlog')
    BY Zenon, <1>0, <2>1, RebuiltPruneEA
  <2> QED
    BY Zenon, <2>1, <2>2 DEF PruneEA
<1>3. CASE InsertNoHistoryMany(d)
  <2>1. /\ wlog' = PruneEAV(wlog, d)
        /\ wcur' = wcur
        /\ d.a \in NoHistory
        /\ ~IsLive(wcur, d)
    BY Zenon, <1>3 DEF InsertNoHistoryMany
  <2>2. wcur' = Rebuilt(wlog')
    BY Zenon, <1>0, <2>1, RebuiltPruneEAV
  <2>3. \A r \in wlog \ wlog' : r.a \in NoHistory
    BY Zenon, <2>1 DEF Key, PruneEAV
  <2> QED
    BY Zenon, <2>1, <2>2, <2>3 DEF PruneEAV
<1> QED
  BY Zenon, <1>1, <1>2, <1>3 DEF Insert, InsertSkip, InsertOne, InsertMany

-----------------------------------------------------------------------------
(* The projection invariant *)

\* Every step keeps the projection equal to the resolution of the log, both the
\* committed pair and the pair the running transaction sees.
LEMMA ProjStep ==
    ASSUME TypeOK, ProjInv, [Next]_vars
    PROVE  ProjInv'
<1>1. CASE \E program \in TxOps, speculative \in BOOLEAN : Begin(program, speculative)
  BY <1>1 DEF Begin, ProjInv, Active, TypeOK, dbVars, LogRow
<1>2. CASE EndTx /\ UNCHANGED <<dbVars, seqVars>>
  BY Zenon, <1>2 DEF EndTx, ProjInv, Active, dbVars, seqVars
<1>3. CASE Preparing
  BY Zenon, <1>3 DEF Preparing, ProjInv, Active
<1>4. CASE Upsert
  BY Zenon, <1>4 DEF Upsert, Expanded, ProjInv, Active, dbVars, seqVars
<1>5. CASE DropDuplicate
  BY Zenon, <1>5 DEF DropDuplicate, Inserting, NextDatom, ProjInv, Active, dbVars, seqVars
<1>6. CASE Insert
  <2>1. pc = "insert" /\ pc' = "insert" /\ UNCHANGED <<log, cur, transactions, txSeq, txid>>
    BY Zenon, <1>6 DEF Insert, Inserting, NextDatom, dbVars, seqVars
  <2>2. /\ wlog' \subseteq wlog
        /\ \A r \in wlog \ wlog' : r.a \in NoHistory
        /\ wcur' = Rebuilt(wlog')
    BY Zenon, <1>6, <2>1, InsertView DEF ProjInv, Active
  <2> QED
    BY Zenon, <2>1, <2>2 DEF ProjInv, Active
<1>7. CASE Commit
  <2>1. pc = "insert" /\ pc' = "idle" /\ txSeq' = txSeq
    BY Zenon, <1>7 DEF Commit, Inserted, EndTx, seqVars
  <2>2. cur' = Rebuilt(log')
    <3>1. wcur = Rebuilt(wlog) /\ \A r \in wlog : r.tx < txid
      BY Zenon, <2>1 DEF ProjInv, Active
    <3>2. log' = BatchInsert(wlog, rows, txid) /\ cur' = MaintainProjection(wcur, rows, txid)
      BY Zenon, <1>7 DEF Commit
    <3> QED
      BY Zenon, <3>1, <3>2, RebuiltBatch DEF TypeOK
  <2>3. \A r \in log' : r.tx <= txSeq
    BY <1>7, <2>1 DEF Commit, BatchInsert, AtTx, ProjInv, Active, TypeOK
  <2>4. \A t \in transactions' : t <= txSeq
    BY <1>7, <2>1 DEF Commit, ProjInv, Active, TypeOK
  <2> QED
    BY Zenon, <2>1, <2>2, <2>3, <2>4 DEF ProjInv, Active
<1>8. CASE RebuildProjection
  BY Zenon, <1>8 DEF RebuildProjection, ProjInv, Active, seqVars, txVars
<1>9. CASE UNCHANGED vars
  BY Zenon, <1>9 DEF vars, dbVars, seqVars, txVars, ProjInv, Active
<1> QED
  BY Zenon, <1>1, <1>2, <1>3, <1>4, <1>5, <1>6, <1>7, <1>8, <1>9, StepCases

\* The empty projection is the resolution of the empty log.
LEMMA ProjInitially ==
    ASSUME Init
    PROVE  ProjInv
BY Zenon DEF Init, ProjInv, Active, Rebuilt

\* The current-state projection that every transaction maintains incrementally
\* equals what rebuild_current_projection would compute from the log.
THEOREM ProjectionCorrect == Spec => []ProjectionMatchesLog
<1>1. Init => TypeOK /\ ProjInv
  BY Zenon, ProjInitially, TypeInitially
<1>2. TypeOK /\ ProjInv /\ [Next]_vars => (TypeOK /\ ProjInv)'
  BY Zenon, TypeStep, ProjStep
<1>3. ProjInv => ProjectionMatchesLog
  BY Zenon DEF ProjInv, ProjectionMatchesLog
<1> QED
  BY <1>1, <1>2, <1>3, PTL DEF Spec

\* The log is append-only but for noHistory pruning, and a committed row is
\* newer than every transaction committed before it.
THEOREM LogAppendOnly == Spec => AppendOnly
<1>1. Init => TypeOK /\ ProjInv
  BY Zenon, ProjInitially, TypeInitially
<1>2. TypeOK /\ ProjInv /\ [Next]_vars => (TypeOK /\ ProjInv)'
  BY Zenon, TypeStep, ProjStep
<1>3. ASSUME TypeOK, ProjInv, [Next]_vars
      PROVE  [/\ \A r \in log \ log' : r.a \in NoHistory
              /\ \A r \in log' \ log : \A t \in transactions : t < r.tx]_log
  <2>1. CASE Commit
    <3>1. pc = "insert" /\ log' = BatchInsert(wlog, rows, txid)
      BY Zenon, <2>1 DEF Commit, Inserted
    <3>2. /\ wlog \subseteq log
          /\ \A r \in log \ wlog : r.a \in NoHistory
          /\ \A t \in transactions : t < txid
      BY Zenon, <1>3, <3>1 DEF ProjInv, Active
    <3> QED
      BY <3>1, <3>2 DEF BatchInsert, AtTx
  <2>2. CASE UNCHANGED log
    BY Zenon, <2>2
  <2> QED
    BY Zenon, <1>3, <2>1, <2>2, StepCases
    DEF Begin, Preparing, Upsert, DropDuplicate, Insert, NextDatom, RebuildProjection,
        vars, dbVars, seqVars
<1> QED
  BY <1>1, <1>2, <1>3, PTL DEF Spec, AppendOnly

-----------------------------------------------------------------------------
(* Unique values *)

\* What Insert adds to the batch: the current assertion, and for a
\* cardinality-one attribute with history a retraction.
LEMMA InsertRows ==
    ASSUME TypeOK, Insert, NEW r \in rows', r \notin rows, r.added
    PROVE  r = Asserted(adds[k]) /\ k \in kept /\ Accepted(adds[k])
BY DEF Insert, InsertSkip, InsertOne, InsertMany, InsertNoHistoryOne, InsertNoHistoryMany,
       Retracted

\* Every step keeps unique values with one owner, in the store and in the rows
\* that the running transaction is about to write.
LEMMA UniqueStep ==
    ASSUME TypeOK, UniqueInv, [Next]_vars, ProjInv
    PROVE  UniqueInv'
<1>1. CASE \E program \in TxOps, speculative \in BOOLEAN : Begin(program, speculative)
  BY Zenon, <1>1 DEF Begin, UniqueInv, Active, dbVars
<1>2. CASE EndTx /\ UNCHANGED <<dbVars, seqVars>>
  BY Zenon, <1>2 DEF EndTx, UniqueInv, Active, dbVars, seqVars
<1>3. CASE Preparing
  BY Zenon, <1>3 DEF Preparing, UniqueInv, Active
<1>4. CASE Upsert
  BY <1>4, SMTT(30) DEF Upsert, Expanded, UniqueInv, Active, dbVars, seqVars, Retracted
<1>5. CASE DropDuplicate
  <2>1. /\ pc = "insert" /\ k' = k + 1 /\ k \in Nat /\ kept \subseteq Nat
        /\ UNCHANGED <<log, pc, adds, kept, rows, wlog>>
    BY Zenon, <1>5 DEF DropDuplicate, Inserting, NextDatom, dbVars, TypeOK
  <2>2. \A i \in kept : i < k => i < k'
    BY SMTT(30), <2>1
  <2> QED
    BY Zenon, <2>1, <2>2 DEF UniqueInv, Active
<1>6. CASE Insert
  <2>1. /\ pc = "insert" /\ pc' = "insert" /\ k' = k + 1 /\ k \in Nat /\ kept \subseteq Nat
        /\ UNCHANGED <<log, adds, kept>> /\ adds[k] \in Triple
    BY Zenon, <1>6, CurrentDatom DEF Insert, Inserting, NextDatom, dbVars, seqVars, TypeOK
  <2>2. wlog' \subseteq wlog
    BY Zenon, <1>6, <2>1, InsertView DEF ProjInv, Active
  <2>3. OneOwner(wlog')
    BY Zenon, <2>1, <2>2 DEF UniqueInv, Active, OneOwner
  <2>4. ASSUME NEW a, NEW v
        PROVE  Owners(wlog', a, v) \subseteq Owners(wlog, a, v)
    BY Zenon, <2>2 DEF Owners
  <2>5. ASSUME NEW r \in rows', r.added
        PROVE  /\ \E i \in kept : i < k + 1 /\ adds[i] = Key(r)
               /\ r.a \in UniqueAttr =>
                     /\ Owners(wlog', r.a, r.v) \subseteq {r.e}
                     /\ \A i \in kept : (adds[i].a = r.a /\ adds[i].v = r.v) => adds[i].e = r.e
    <3>1. CASE r \in rows
      <4>1. /\ \E i \in kept : i < k /\ adds[i] = Key(r)
            /\ r.a \in UniqueAttr =>
                  /\ Owners(wlog, r.a, r.v) \subseteq {r.e}
                  /\ \A i \in kept : (adds[i].a = r.a /\ adds[i].v = r.v) => adds[i].e = r.e
        BY Zenon, <2>1, <2>5, <3>1 DEF UniqueInv
      <4> QED
        BY <4>1, <2>1, <2>4
    <3>2. CASE r \notin rows
      <4>1. r = Asserted(adds[k]) /\ k \in kept /\ Accepted(adds[k])
        BY Zenon, <1>6, <2>5, <3>2, InsertRows
      <4>2. Key(r) = adds[k] /\ r.e = adds[k].e /\ r.a = adds[k].a /\ r.v = adds[k].v
        BY Zenon, <2>1, <4>1 DEF Asserted, Key, Triple
      <4>3. ASSUME r.a \in UniqueAttr
            PROVE  Owners(wlog, r.a, r.v) \subseteq {r.e}
        <5>1. Owners(wlog, r.a, r.v) = {} \/ r.e \in Owners(wlog, r.a, r.v)
          BY Zenon, <4>1, <4>2, <4>3 DEF Accepted, NotOwnedByAnother
        <5>2. \A o, q \in Owners(wlog, r.a, r.v) : o = q
          BY <2>1, <4>3 DEF UniqueInv, Active, OneOwner, Owners
        <5> QED
          BY Zenon, <5>1, <5>2
      <4>4. ASSUME r.a \in UniqueAttr, NEW i \in kept, adds[i].a = r.a, adds[i].v = r.v
            PROVE  adds[i].e = r.e
        BY Zenon, <4>1, <4>2, <4>4 DEF Accepted, ValidInTx
      <4> QED
        BY <2>1, <2>4, <4>1, <4>2, <4>3, <4>4
    <3> QED
      BY Zenon, <3>1, <3>2
  <2>6. OneOwner(log')
    BY Zenon, <2>1 DEF UniqueInv, OneOwner
  <2> QED
    BY Zenon, <2>1, <2>3, <2>5, <2>6 DEF UniqueInv, Active
<1>7. CASE Commit
  <2>1. pc = "insert" /\ pc' = "idle" /\ log' = BatchInsert(wlog, rows, txid)
    BY Zenon, <1>7 DEF Commit, Inserted, EndTx
  <2>2. OneOwner(wlog)
    BY Zenon, <2>1 DEF UniqueInv, Active
  <2>3. ASSUME NEW r \in wlog, NEW q \in rows, r.added, q.added, r.a = q.a, r.v = q.v,
               r.a \in UniqueAttr
        PROVE  r.e = q.e
    <3>1. r.e \in Owners(wlog, q.a, q.v)
      BY Zenon, <2>3 DEF Owners
    <3> QED
      BY Zenon, <2>1, <2>3, <3>1 DEF UniqueInv
  <2>4. ASSUME NEW r \in rows, NEW q \in rows, r.added, q.added, r.a = q.a, r.v = q.v,
               r.a \in UniqueAttr
        PROVE  r.e = q.e
    <3>1. PICK i \in kept : adds[i] = Key(r)
      BY Zenon, <2>1, <2>4 DEF UniqueInv
    <3>2. adds[i].e = r.e /\ adds[i].a = q.a /\ adds[i].v = q.v
      BY <2>4, <3>1 DEF Key
    <3> QED
      BY Zenon, <2>1, <2>4, <3>2 DEF UniqueInv
  <2>5. ASSUME NEW q \in rows
        PROVE  LET b == AtTx(q, txid)
               IN  b.e = q.e /\ b.a = q.a /\ b.v = q.v /\ b.added = q.added
    BY Zenon DEF AtTx
  <2>6. OneOwner(log')
    BY <2>1, <2>2, <2>3, <2>4, <2>5, SMTT(30) DEF OneOwner, BatchInsert
  <2> QED
    BY Zenon, <2>1, <2>6 DEF UniqueInv, Active
<1>8. CASE RebuildProjection
  BY Zenon, <1>8 DEF RebuildProjection, UniqueInv, Active, seqVars, txVars
<1>9. CASE UNCHANGED vars
  BY Zenon, <1>9 DEF vars, dbVars, seqVars, txVars, UniqueInv, Active
<1> QED
  BY Zenon, <1>1, <1>2, <1>3, <1>4, <1>5, <1>6, <1>7, <1>8, <1>9, StepCases

\* A unique value never gets a second owner: neither upsert remapping nor
\* several assertions in one transaction get past the checks of
\* validate_datom_constraints.
THEOREM UniqueValuesHold == Spec => []UniqueValues
<1>1. Init => TypeOK /\ ProjInv /\ UniqueInv
  <2>1. ASSUME Init PROVE UniqueInv
    BY Zenon, <2>1 DEF Init, UniqueInv, Active, OneOwner
  <2> QED
    BY Zenon, <2>1, ProjInitially, TypeInitially
<1>2. TypeOK /\ ProjInv /\ UniqueInv /\ [Next]_vars => (TypeOK /\ ProjInv /\ UniqueInv)'
  BY Zenon, TypeStep, ProjStep, UniqueStep
<1>3. UniqueInv => UniqueValues
  BY Zenon DEF UniqueInv, UniqueValues, OneOwner
<1> QED
  BY <1>1, <1>2, <1>3, PTL DEF Spec

-----------------------------------------------------------------------------
(* Cardinality one *)

\* Values are read back by the cardinality-one check as they were stored.
ExactReadBack == \A v \in Value : ReadBack[v] = v

\* A cardinality-one assertion that enters the batch brings a retraction of
\* every live value of its (e, a) that Insert does not prune.
LEMMA InsertCovers ==
    ASSUME TypeOK, Insert, ExactReadBack, OneValue(wcur),
           adds[k].a \notin CardMany, Asserted(adds[k]) \in rows', Asserted(adds[k]) \notin rows,
           NEW c \in wcur', c \in wcur, c.e = adds[k].e, c.a = adds[k].a
    PROVE  \E s \in rows' : ~s.added /\ Key(s) = Key(c)
<1> DEFINE d == adds[k]
<1>1. d \in Triple /\ c \in CurRow
  BY Zenon, CurrentDatom DEF Insert, TypeOK
<1>2. c.v \in CurrentValues(wcur, d.e, d.a)
  BY Zenon DEF CurrentValues
<1>3. CASE InsertOne(d)
  <2>1. CurrentValues(wcur, d.e, d.a) # {}
    BY Zenon, <1>2
  <2>2. PICK old \in ReplacedValues(d) : Retracted([d EXCEPT !.v = old]) \in rows'
    BY Zenon, <1>3, <2>1 DEF InsertOne, NoCurrentValue
  <2>3. PICK b \in wcur : b.e = d.e /\ b.a = d.a /\ old = ReadBack[b.v]
    BY Zenon, <2>2 DEF ReplacedValues, CurrentValues
  <2>4. b.v = c.v
    BY Zenon, <2>3 DEF OneValue
  <2>5. old = c.v
    BY Zenon, <1>1, <2>3, <2>4 DEF ExactReadBack, CurRow
  <2>6. Key(Retracted([d EXCEPT !.v = old])) = Key(c) /\ ~Retracted([d EXCEPT !.v = old]).added
    BY Zenon, <1>1, <2>5 DEF Key, Retracted, Triple
  <2> QED
    BY Zenon, <2>2, <2>6
<1>4. CASE InsertNoHistoryOne(d)
  BY Zenon, <1>4 DEF InsertNoHistoryOne, PruneEA
<1>5. ~InsertSkip(d) /\ ~InsertMany(d) /\ ~InsertNoHistoryMany(d)
  BY Zenon DEF InsertSkip, InsertMany, InsertNoHistoryMany
<1> QED
  BY Zenon, <1>3, <1>4, <1>5 DEF Insert

\* Every step keeps one live value per cardinality-one attribute, in the
\* projection and in what the running transaction will make of it.
LEMMA OneStep ==
    ASSUME TypeOK, ProjInv, UniqueInv, OneInv, ExactReadBack, [Next]_vars
    PROVE  OneInv'
<1>1. CASE \E program \in TxOps, speculative \in BOOLEAN : Begin(program, speculative)
  BY Zenon, <1>1 DEF Begin, OneInv, Active, dbVars
<1>2. CASE EndTx /\ UNCHANGED <<dbVars, seqVars>>
  BY Zenon, <1>2 DEF EndTx, OneInv, Active, dbVars, seqVars
<1>3. CASE Preparing
  BY Zenon, <1>3 DEF Preparing, OneInv, Active
<1>4. CASE Upsert
  BY <1>4, SMTT(30) DEF Upsert, Expanded, OneInv, Active, dbVars, seqVars, Retracted
<1>5. CASE DropDuplicate
  <2>1. /\ pc = "insert" /\ k' = k + 1 /\ k \in Nat /\ kept \subseteq Nat
        /\ UNCHANGED <<cur, pc, adds, kept, rows, wcur>>
    BY Zenon, <1>5 DEF DropDuplicate, Inserting, NextDatom, dbVars, TypeOK
  <2>2. \A i \in kept : i < k => i < k'
    BY <2>1
  <2> QED
    BY <2>1, <2>2, Zenon DEF OneInv, Active
<1>6. CASE Insert
  <2>1. /\ pc = "insert" /\ pc' = "insert" /\ k' = k + 1 /\ k \in Nat /\ kept \subseteq Nat
        /\ UNCHANGED <<cur, adds, kept>> /\ adds[k] \in Triple /\ k \in kept
    BY Zenon, <1>6, CurrentDatom DEF Insert, Inserting, NextDatom, dbVars, seqVars, TypeOK
  <2>2. wcur' \subseteq wcur /\ rows \subseteq rows'
    BY Zenon, <1>6, <2>1, InsertView
    DEF ProjInv, Active, Insert, InsertSkip, InsertOne, InsertMany, InsertNoHistoryOne,
        InsertNoHistoryMany
  <2>3. OneValue(cur') /\ OneValue(wcur')
    BY Zenon, <2>1, <2>2 DEF OneInv, Active, OneValue
  <2>4. ASSUME NEW r \in rows', r.added, r.a \notin CardMany
        PROVE  /\ \A i \in kept : (adds[i].e = r.e /\ adds[i].a = r.a) => (i < k + 1 /\ adds[i].v = r.v)
               /\ \A c \in wcur' : (c.e = r.e /\ c.a = r.a) =>
                     \E s \in rows' : ~s.added /\ Key(s) = Key(c)
    <3>1. CASE r \in rows
      <4>1. /\ \A i \in kept : (adds[i].e = r.e /\ adds[i].a = r.a) => (i < k /\ adds[i].v = r.v)
            /\ \A c \in wcur : (c.e = r.e /\ c.a = r.a) =>
                  \E s \in rows : ~s.added /\ Key(s) = Key(c)
        BY Zenon, <2>1, <2>4, <3>1 DEF OneInv
      <4>2. \A i \in kept : i < k => i < k + 1
        BY <2>1
      <4> QED
        BY Zenon, <2>2, <4>1, <4>2
    <3>2. CASE r \notin rows
      <4>1. r = Asserted(adds[k]) /\ Accepted(adds[k])
        BY Zenon, <1>6, <2>4, <3>2, InsertRows
      <4>2. r.e = adds[k].e /\ r.a = adds[k].a /\ r.v = adds[k].v
        BY Zenon, <4>1 DEF Asserted
      <4>3. ASSUME NEW i \in kept, adds[i].e = r.e, adds[i].a = r.a
            PROVE  i = k
        BY Zenon, <2>1, <2>4, <4>1, <4>2, <4>3 DEF Accepted, ValidInTx
      <4>4. ASSUME NEW c \in wcur', c.e = r.e, c.a = r.a
            PROVE  \E s \in rows' : ~s.added /\ Key(s) = Key(c)
        BY Zenon, <1>6, <2>1, <2>2, <2>4, <3>2, <4>1, <4>2, <4>4, InsertCovers DEF OneInv, Active
      <4> QED
        BY <2>1, <4>2, <4>3, <4>4
    <3> QED
      BY Zenon, <3>1, <3>2
  <2> QED
    BY <2>1, <2>3, <2>4, Zenon DEF OneInv, Active
<1>7. CASE Commit
  <2>1. pc = "insert" /\ pc' = "idle" /\ cur' = MaintainProjection(wcur, rows, txid)
    BY Zenon, <1>7 DEF Commit, Inserted, EndTx
  <2>2. OneValue(wcur)
    BY Zenon, <2>1 DEF OneInv, Active
  <2>3. ASSUME NEW c \in wcur, NEW q \in rows, q.added, q.a \notin CardMany, c.e = q.e, c.a = q.a
        PROVE  \E s \in rows : Key(s) = Key(c)
    BY Zenon, <2>1, <2>3 DEF OneInv
  <2>4. ASSUME NEW r \in rows, NEW q \in rows, r.added, q.added, r.e = q.e, r.a = q.a,
               r.a \notin CardMany
        PROVE  r.v = q.v
    <3>1. PICK i \in kept : adds[i] = Key(r)
      BY Zenon, <2>1, <2>4 DEF UniqueInv
    <3>2. adds[i].e = q.e /\ adds[i].a = q.a /\ adds[i].v = r.v
      BY <2>4, <3>1 DEF Key
    <3> QED
      BY Zenon, <2>1, <2>4, <3>2 DEF OneInv
  <2>5. ASSUME NEW q \in rows
        PROVE  CurAt(q, txid).e = q.e /\ CurAt(q, txid).a = q.a /\ CurAt(q, txid).v = q.v
    BY Zenon DEF CurAt
  <2>6. OneValue(cur')
    BY <2>1, <2>2, <2>3, <2>4, <2>5, SMTT(30) DEF OneValue, MaintainProjection
  <2> QED
    BY Zenon, <2>1, <2>6 DEF OneInv, Active
<1>8. CASE RebuildProjection
  BY Zenon, <1>8 DEF RebuildProjection, ProjInv, OneInv, Active, seqVars, txVars
<1>9. CASE UNCHANGED vars
  BY Zenon, <1>9 DEF vars, dbVars, seqVars, txVars, OneInv, Active
<1> QED
  BY Zenon, <1>1, <1>2, <1>3, <1>4, <1>5, <1>6, <1>7, <1>8, <1>9, StepCases

\* A cardinality-one attribute has at most one live value per entity, provided
\* the check that looks for the value to replace reads values back exactly,
\* which it does for every type but instants.
THEOREM CardinalityOneHolds ==
    ASSUME ExactReadBack
    PROVE  Spec => []CardinalityOne
<1> DEFINE Inv == TypeOK /\ ProjInv /\ UniqueInv /\ OneInv
<1>1. Init => Inv
  <2>1. ASSUME Init PROVE UniqueInv /\ OneInv
    BY Zenon, <2>1 DEF Init, UniqueInv, OneInv, Active, OneOwner, OneValue
  <2> QED
    BY Zenon, <2>1, ProjInitially, TypeInitially
<1>2. Inv /\ [Next]_vars => Inv'
  BY Zenon, TypeStep, ProjStep, UniqueStep, OneStep
<1>3. Inv => CardinalityOne
  BY Zenon DEF OneInv, CardinalityOne, OneValue
<1> QED
  BY <1>1, <1>2, <1>3, PTL DEF Spec

-----------------------------------------------------------------------------
(* Transact implements Store, and noHistory attributes keep one assertion. *)
(*                                                                         *)
(* The inductive invariant BatchInv says what the batch holds when the     *)
(* first k - 1 pending assertions have been handled, in terms of the       *)
(* committed projection: only then does the one step that publishes it     *)
(* become the effect of the request.                                       *)

\* The i-th pending assertion gives a cardinality-one attribute another value
\* than c does.
Replaces(i, c) ==
    /\ adds[i].a \notin CardMany
    /\ adds[i].e = c.e /\ adds[i].a = c.a /\ adds[i].v # c.v

BatchInv ==
    pc = "insert" =>
      /\ \A t \in rets : Retracted(t) \in rows
      /\ \A r \in rows : r.added => ~IsLive(cur, r) /\ \E i \in kept : i < k /\ adds[i] = Key(r)
      /\ \A r \in rows : ~r.added =>
            \/ Key(r) \in rets
            \/ /\ IsLive(cur, r)
               /\ \E i \in kept : i < k /\ Replaces(i, r) /\ Asserted(adds[i]) \in rows
      /\ \A i \in kept : i < k => Asserted(adds[i]) \in rows \/ IsLive(cur, adds[i])
      /\ wcur \subseteq cur
      /\ \A c \in cur : c \notin wcur =>
            /\ c.a \in NoHistory
            /\ \E i \in kept : i < k /\ Replaces(i, c) /\ Asserted(adds[i]) \in rows
      /\ \A i \in kept : \A c \in wcur : (i < k /\ Replaces(i, c)) => Retracted(c) \in rows
      /\ \A i \in kept : \A j \in kept :
            (i < k /\ adds[i].a \notin CardMany /\ adds[i].e = adds[j].e /\ adds[i].a = adds[j].a) => i = j

-----------------------------------------------------------------------------
(* One assertion *)

\* What Insert does with an assertion, by what it finds in the projection: the
\* value is there, nothing is in its way, one value is replaced, or the rows of
\* a noHistory attribute are pruned.
LEMMA InsertEffect ==
    ASSUME TypeOK, Insert, ExactReadBack, OneValue(wcur), NEW d, d = adds[k]
    PROVE  /\ d.a \notin CardMany =>
                 \A i \in kept : \A j \in kept :
                     (/\ adds[i].e = d.e /\ adds[i].a = d.a
                      /\ adds[j].e = d.e /\ adds[j].a = d.a) => i = j
           /\ \/ /\ UNCHANGED <<rows, wcur>> /\ IsLive(wcur, d)
              \/ /\ rows' = rows \cup {Asserted(d)} /\ wcur' = wcur /\ ~IsLive(wcur, d)
                 /\ d.a \notin CardMany => \A c \in wcur : c.e # d.e \/ c.a # d.a
              \/ /\ d.a \notin CardMany \cup NoHistory /\ wcur' = wcur /\ ~IsLive(wcur, d)
                 /\ \E c \in wcur : /\ c.e = d.e /\ c.a = d.a /\ c.v # d.v
                                    /\ rows' = rows \cup {Retracted(c), Asserted(d)}
              \/ /\ d.a \in NoHistory \ CardMany /\ ~IsLive(wcur, d)
                 /\ rows' = rows \cup {Asserted(d)} /\ wcur' = PruneEA(wcur, d.e, d.a)
<1>1. d \in Triple /\ wcur \in SUBSET CurRow
  BY Zenon, CurrentDatom DEF Insert, TypeOK
<1>2. d.a \notin CardMany =>
          \A i \in kept : \A j \in kept :
              (/\ adds[i].e = d.e /\ adds[i].a = d.a
               /\ adds[j].e = d.e /\ adds[j].a = d.a) => i = j
  BY Zenon DEF Insert, Accepted, ValidInTx
<1>3. IsLive(wcur, d) <=> \E c \in wcur : c.e = d.e /\ c.a = d.a /\ c.v = d.v
  BY <1>1, Zenon DEF IsLive, Key, Triple, CurRow
<1>4. ASSUME NEW old, old \in ReplacedValues(d)
      PROVE  /\ \E c \in wcur : c.e = d.e /\ c.a = d.a /\ c.v # d.v /\ old = c.v
  BY <1>1, <1>4 DEF ReplacedValues, CurrentValues, ExactReadBack, CurRow
<1>5. ASSUME ReplacedValues(d) # {}, d.a \notin CardMany
      PROVE  ~IsLive(wcur, d)
  BY <1>3, <1>4, <1>5 DEF OneValue
<1>6. ASSUME NoCurrentValue(d)
      PROVE  \A c \in wcur : c.e # d.e \/ c.a # d.a
  BY Zenon, <1>6 DEF NoCurrentValue, CurrentValues
<1>7. CASE InsertSkip(d)
  <2>1. CASE d.a \in CardMany
    BY Zenon, <1>2, <1>7, <2>1 DEF InsertSkip
  <2>2. CASE d.a \notin CardMany
    <3>1. PICK old \in CurrentValues(wcur, d.e, d.a) : ReadBack[old] = d.v
      BY Zenon, <1>7, <2>2 DEF InsertSkip, Skips
    <3>2. PICK c \in wcur : c.e = d.e /\ c.a = d.a /\ old = c.v
      BY Zenon, <3>1 DEF CurrentValues
    <3>3. c.v = d.v
      BY Zenon, <1>1, <3>1, <3>2 DEF ExactReadBack, CurRow
    <3> QED
      BY Zenon, <1>2, <1>3, <1>7, <3>2, <3>3 DEF InsertSkip
  <2> QED
    BY Zenon, <2>1, <2>2
<1>8. CASE InsertOne(d)
  <2>1. CASE NoCurrentValue(d) /\ rows' = rows \cup {Asserted(d)}
    BY Zenon, <1>2, <1>3, <1>6, <1>8, <2>1 DEF InsertOne
  <2>2. ASSUME NEW old \in ReplacedValues(d),
               rows' = rows \cup {Retracted([d EXCEPT !.v = old]), Asserted(d)}
        PROVE  \E c \in wcur : /\ c.e = d.e /\ c.a = d.a /\ c.v # d.v
                               /\ rows' = rows \cup {Retracted(c), Asserted(d)}
    <3>1. PICK c \in wcur : c.e = d.e /\ c.a = d.a /\ c.v # d.v /\ old = c.v
      BY Zenon, <1>4
    <3>2. Retracted([d EXCEPT !.v = old]) = Retracted(c)
      BY Zenon, <1>1, <3>1 DEF Retracted, Triple
    <3> QED
      BY Zenon, <2>2, <3>1, <3>2
  <2>3. CASE \E old \in ReplacedValues(d) :
                rows' = rows \cup {Retracted([d EXCEPT !.v = old]), Asserted(d)}
    BY Zenon, <1>2, <1>5, <1>8, <2>2, <2>3 DEF InsertOne
  <2> QED
    BY <1>8, <2>1, <2>3, Zenon DEF InsertOne
<1>9. CASE InsertMany(d)
  BY Zenon, <1>2, <1>9 DEF InsertMany
<1>10. CASE InsertNoHistoryOne(d)
  <2>1. ~IsLive(wcur, d)
    BY Zenon, <1>3, <1>5, <1>6, <1>10 DEF InsertNoHistoryOne
  <2> QED
    BY Zenon, <1>2, <1>10, <2>1 DEF InsertNoHistoryOne
<1>11. CASE InsertNoHistoryMany(d)
  BY Zenon, <1>2, <1>11 DEF InsertNoHistoryMany
<1> QED
  BY Zenon, <1>7, <1>8, <1>9, <1>10, <1>11 DEF Insert

-----------------------------------------------------------------------------
(* The invariant *)

\* Insert keeps the batch what BatchInv says it is.
LEMMA BatchInsertStep ==
    ASSUME TypeOK, BatchInv, ExactReadBack, OneValue(wcur), Insert
    PROVE  BatchInv'
<1> DEFINE d == adds[k]
<1>1. /\ pc = "insert" /\ pc' = "insert" /\ k' = k + 1 /\ k \in Nat /\ kept \subseteq Nat
      /\ UNCHANGED <<cur, adds, kept, rets>> /\ d \in Triple /\ k \in kept
      /\ wcur \in SUBSET CurRow /\ cur \in SUBSET CurRow
  BY Zenon, CurrentDatom DEF Insert, Inserting, NextDatom, dbVars, seqVars, TypeOK
<1>2. \A i \in kept : i < k + 1 <=> (i < k \/ i = k)
  BY <1>1
<1>3. /\ Key(Asserted(d)) = d /\ Asserted(d).added
      /\ \A c \in cur : Key(Retracted(c)) = Key(c) /\ ~Retracted(c).added
  BY Zenon, <1>1 DEF Key, Asserted, Retracted, Triple
<1>4. d.a \notin CardMany =>
          \A i \in kept : (adds[i].e = d.e /\ adds[i].a = d.a) => i = k
  BY Zenon, <1>1, InsertEffect
<1>5. wcur \subseteq cur
  BY Zenon, <1>1 DEF BatchInv
<1>6. ASSUME ~IsLive(wcur, d)
      PROVE  ~IsLive(cur, d)
  <2>1. SUFFICES ASSUME NEW c \in cur, Key(c) = Key(d)
                 PROVE  FALSE
    BY Zenon DEF IsLive
  <2>2. c \notin wcur
    BY Zenon, <1>6, <2>1 DEF IsLive
  <2>3. PICK i \in kept : i < k /\ Replaces(i, c)
    BY Zenon, <1>1, <2>2 DEF BatchInv
  <2>4. c.e = d.e /\ c.a = d.a
    BY Zenon, <2>1 DEF Key
  <2> QED
    BY <1>1, <1>4, <2>3, <2>4 DEF Replaces
<1>7. ASSUME NEW c
      PROVE  \A i \in kept : (Replaces(i, c))' <=> Replaces(i, c)
  BY Zenon, <1>1 DEF Replaces
<1>8. ASSUME \A t \in rets : Retracted(t) \in rows',
             \A r \in rows' : r.added => ~IsLive(cur, r) /\ \E i \in kept : i < k + 1 /\ adds[i] = Key(r),
             \A r \in rows' : ~r.added =>
                 \/ Key(r) \in rets
                 \/ /\ IsLive(cur, r)
                    /\ \E i \in kept : i < k + 1 /\ Replaces(i, r) /\ Asserted(adds[i]) \in rows',
             \A i \in kept : i < k + 1 => Asserted(adds[i]) \in rows' \/ IsLive(cur, adds[i]),
             wcur' \subseteq cur,
             \A c \in cur : c \notin wcur' =>
                 /\ c.a \in NoHistory
                 /\ \E i \in kept : i < k + 1 /\ Replaces(i, c) /\ Asserted(adds[i]) \in rows',
             \A i \in kept : \A c \in wcur' : (i < k + 1 /\ Replaces(i, c)) => Retracted(c) \in rows',
             \A i \in kept : \A j \in kept :
                 (i < k + 1 /\ adds[i].a \notin CardMany /\ adds[i].e = adds[j].e /\ adds[i].a = adds[j].a) => i = j
      PROVE  BatchInv'
  <2>1. (\A t \in rets : Retracted(t) \in rows)'
    BY Zenon, <1>1, <1>8 DEF IsLive, Replaces
  <2>2. (\A r \in rows : r.added => ~IsLive(cur, r) /\ \E i \in kept : i < k /\ adds[i] = Key(r))'
    BY Zenon, <1>1, <1>8 DEF IsLive, Replaces
  <2>3. (\A r \in rows : ~r.added =>
            \/ Key(r) \in rets
            \/ /\ IsLive(cur, r)
               /\ \E i \in kept : i < k /\ Replaces(i, r) /\ Asserted(adds[i]) \in rows)'
    BY Zenon, <1>1, <1>8 DEF IsLive, Replaces
  <2>4. (\A i \in kept : i < k => Asserted(adds[i]) \in rows \/ IsLive(cur, adds[i]))'
    BY Zenon, <1>1, <1>8 DEF IsLive, Replaces
  <2>5. (wcur \subseteq cur)'
    BY Zenon, <1>1, <1>8 DEF IsLive, Replaces
  <2>6. (\A c \in cur : c \notin wcur =>
            /\ c.a \in NoHistory
            /\ \E i \in kept : i < k /\ Replaces(i, c) /\ Asserted(adds[i]) \in rows)'
    BY Zenon, <1>1, <1>8 DEF IsLive, Replaces
  <2>7. (\A i \in kept : \A c \in wcur : (i < k /\ Replaces(i, c)) => Retracted(c) \in rows)'
    BY Zenon, <1>1, <1>8 DEF IsLive, Replaces
  <2>8. (\A i \in kept : \A j \in kept :
            (i < k /\ adds[i].a \notin CardMany /\ adds[i].e = adds[j].e /\ adds[i].a = adds[j].a) => i = j)'
    BY <1>1, <1>8 DEF IsLive, Replaces
  <2> QED
    BY Zenon, <2>1, <2>2, <2>3, <2>4, <2>5, <2>6, <2>7, <2>8 DEF BatchInv
<1>9. CASE UNCHANGED <<rows, wcur>> /\ IsLive(wcur, d)
  <2>1. IsLive(cur, d)
    BY Zenon, <1>5, <1>9 DEF IsLive
  <2>2. ASSUME NEW c \in wcur, Replaces(k, c)
        PROVE  FALSE
    BY Zenon, <1>1, <1>9, <2>2 DEF IsLive, Key, OneValue, Replaces
  <2>3. \A i \in kept : i < k + 1 => Asserted(adds[i]) \in rows \/ IsLive(cur, adds[i])
    BY Zenon, <1>1, <1>2, <2>1 DEF BatchInv
  <2>4. \A i \in kept : \A c \in wcur : (i < k + 1 /\ Replaces(i, c)) => Retracted(c) \in rows
    BY Zenon, <1>1, <1>2, <2>2 DEF BatchInv
  <2>5. \A i \in kept : \A j \in kept :
           (i < k + 1 /\ adds[i].a \notin CardMany /\ adds[i].e = adds[j].e /\ adds[i].a = adds[j].a) => i = j
    BY Zenon, <1>1, <1>2, <1>4 DEF BatchInv
  <2>6. /\ \A r \in rows : r.added => ~IsLive(cur, r) /\ \E i \in kept : i < k + 1 /\ adds[i] = Key(r)
        /\ \A r \in rows : ~r.added =>
              \/ Key(r) \in rets
              \/ /\ IsLive(cur, r)
                 /\ \E i \in kept : i < k + 1 /\ Replaces(i, r) /\ Asserted(adds[i]) \in rows
        /\ \A c \in cur : c \notin wcur =>
              /\ c.a \in NoHistory
              /\ \E i \in kept : i < k + 1 /\ Replaces(i, c) /\ Asserted(adds[i]) \in rows
    BY Zenon, <1>1, <1>2 DEF BatchInv
  <2>7. \A t \in rets : Retracted(t) \in rows
    BY Zenon, <1>1 DEF BatchInv
  <2> QED
    BY Zenon, <1>5, <1>8, <1>9, <2>3, <2>4, <2>5, <2>6, <2>7
<1>10. CASE /\ rows' = rows \cup {Asserted(d)} /\ wcur' = wcur /\ ~IsLive(wcur, d)
            /\ d.a \notin CardMany => \A c \in wcur : c.e # d.e \/ c.a # d.a
  <2>1. ASSUME NEW c \in wcur, Replaces(k, c)
        PROVE  FALSE
    BY Zenon, <1>10, <2>1 DEF Replaces
  <2>2. ~IsLive(cur, Asserted(d))
    BY Zenon, <1>3, <1>6, <1>10 DEF IsLive, Key
  <2>3. \A i \in kept : i < k + 1 => Asserted(adds[i]) \in rows' \/ IsLive(cur, adds[i])
    BY Zenon, <1>1, <1>2, <1>10 DEF BatchInv
  <2>4. \A i \in kept : \A c \in wcur' : (i < k + 1 /\ Replaces(i, c)) => Retracted(c) \in rows'
    BY Zenon, <1>1, <1>2, <1>10, <2>1 DEF BatchInv
  <2>5. \A i \in kept : \A j \in kept :
           (i < k + 1 /\ adds[i].a \notin CardMany /\ adds[i].e = adds[j].e /\ adds[i].a = adds[j].a) => i = j
    BY Zenon, <1>1, <1>2, <1>4 DEF BatchInv
  <2>6. \A r \in rows' : r.added => ~IsLive(cur, r) /\ \E i \in kept : i < k + 1 /\ adds[i] = Key(r)
    BY Zenon, <1>1, <1>2, <1>3, <1>10, <2>2 DEF BatchInv
  <2>7. \A r \in rows' : ~r.added =>
           \/ Key(r) \in rets
           \/ /\ IsLive(cur, r)
              /\ \E i \in kept : i < k + 1 /\ Replaces(i, r) /\ Asserted(adds[i]) \in rows'
    BY Zenon, <1>1, <1>2, <1>3, <1>10 DEF BatchInv
  <2>8. \A c \in cur : c \notin wcur' =>
           /\ c.a \in NoHistory
           /\ \E i \in kept : i < k + 1 /\ Replaces(i, c) /\ Asserted(adds[i]) \in rows'
    BY Zenon, <1>1, <1>2, <1>10 DEF BatchInv
  <2>9. \A t \in rets : Retracted(t) \in rows'
    BY Zenon, <1>1, <1>10 DEF BatchInv
  <2>10. wcur' \subseteq cur
    BY Zenon, <1>5, <1>10
  <2> QED
    BY Zenon, <1>8, <2>3, <2>4, <2>5, <2>6, <2>7, <2>8, <2>9, <2>10
<1>11. ASSUME d.a \notin CardMany \cup NoHistory, wcur' = wcur, ~IsLive(wcur, d),
              NEW b \in wcur, b.e = d.e, b.a = d.a, b.v # d.v,
              rows' = rows \cup {Retracted(b), Asserted(d)}
       PROVE  BatchInv'
  <2>1. ~IsLive(cur, Asserted(d))
    BY SMTT(30), <1>3, <1>6, <1>11 DEF IsLive, Key
  <2>2. IsLive(cur, Retracted(b)) /\ Replaces(k, Retracted(b))
    BY Zenon, <1>3, <1>5, <1>11 DEF IsLive, Key, Replaces, Retracted
  <2>3. ASSUME NEW c \in wcur, Replaces(k, c)
        PROVE  Retracted(c) \in rows'
    <3>1. c.e = b.e /\ c.a = b.a /\ c.v = b.v
      BY Zenon, <1>11, <2>3 DEF Replaces, OneValue
    <3> QED
      BY Zenon, <1>11, <3>1 DEF Retracted
  <2>4. \A i \in kept : i < k + 1 => Asserted(adds[i]) \in rows' \/ IsLive(cur, adds[i])
    BY Zenon, <1>1, <1>2, <1>11 DEF BatchInv
  <2>5. \A i \in kept : \A c \in wcur : (i < k + 1 /\ Replaces(i, c)) => Retracted(c) \in rows'
    BY Zenon, <1>1, <1>2, <1>11, <2>3 DEF BatchInv
  <2>6. \A i \in kept : \A j \in kept :
           (i < k + 1 /\ adds[i].a \notin CardMany /\ adds[i].e = adds[j].e /\ adds[i].a = adds[j].a) => i = j
    BY Zenon, <1>1, <1>2, <1>4 DEF BatchInv
  <2>7. \A r \in rows' : r.added => ~IsLive(cur, r) /\ \E i \in kept : i < k + 1 /\ adds[i] = Key(r)
    BY <1>1, <1>2, <1>3, <1>5, <1>11, <2>1 DEF BatchInv
  <2>8. \A r \in rows' : ~r.added =>
           \/ Key(r) \in rets
           \/ /\ IsLive(cur, r)
              /\ \E i \in kept : i < k + 1 /\ Replaces(i, r) /\ Asserted(adds[i]) \in rows'
    BY <1>1, <1>2, <1>3, <1>11, <2>2 DEF BatchInv
  <2>9. \A c \in cur : c \notin wcur =>
           /\ c.a \in NoHistory
           /\ \E i \in kept : i < k + 1 /\ Replaces(i, c) /\ Asserted(adds[i]) \in rows'
    BY Zenon, <1>1, <1>2, <1>11 DEF BatchInv
  <2>10. \A t \in rets : Retracted(t) \in rows'
    BY Zenon, <1>1, <1>11 DEF BatchInv
  <2> QED
    BY Zenon, <1>5, <1>8, <1>11, <2>4, <2>5, <2>6, <2>7, <2>8, <2>9, <2>10
<1>12. CASE /\ d.a \in NoHistory \ CardMany /\ ~IsLive(wcur, d)
            /\ rows' = rows \cup {Asserted(d)} /\ wcur' = PruneEA(wcur, d.e, d.a)
  <2>1. ~IsLive(cur, Asserted(d))
    BY Zenon, <1>3, <1>6, <1>12 DEF IsLive, Key
  <2>2. wcur' = {c \in wcur : c.e # d.e \/ c.a # d.a}
    BY Zenon, <1>12 DEF PruneEA
  <2>3. ASSUME NEW c \in wcur, c \notin wcur'
        PROVE  c.a \in NoHistory /\ Replaces(k, c)
    <3>1. c.e = d.e /\ c.a = d.a
      BY Zenon, <2>2, <2>3
    <3>2. c.v # d.v
      BY Zenon, <1>1, <1>12, <3>1 DEF IsLive, Key
    <3> QED
      BY Zenon, <1>12, <3>1, <3>2 DEF Replaces
  <2>4. ASSUME NEW c \in wcur', Replaces(k, c)
        PROVE  FALSE
    BY Zenon, <2>2, <2>4 DEF Replaces
  <2>5. \A i \in kept : i < k + 1 => Asserted(adds[i]) \in rows' \/ IsLive(cur, adds[i])
    BY Zenon, <1>1, <1>2, <1>12 DEF BatchInv
  <2>6. \A i \in kept : \A c \in wcur' : (i < k + 1 /\ Replaces(i, c)) => Retracted(c) \in rows'
    BY Zenon, <1>1, <1>2, <1>12, <2>2, <2>4 DEF BatchInv
  <2>7. \A i \in kept : \A j \in kept :
           (i < k + 1 /\ adds[i].a \notin CardMany /\ adds[i].e = adds[j].e /\ adds[i].a = adds[j].a) => i = j
    BY Zenon, <1>1, <1>2, <1>4 DEF BatchInv
  <2>8. \A r \in rows' : r.added => ~IsLive(cur, r) /\ \E i \in kept : i < k + 1 /\ adds[i] = Key(r)
    BY Zenon, <1>1, <1>2, <1>3, <1>12, <2>1 DEF BatchInv
  <2>9. \A r \in rows' : ~r.added =>
           \/ Key(r) \in rets
           \/ /\ IsLive(cur, r)
              /\ \E i \in kept : i < k + 1 /\ Replaces(i, r) /\ Asserted(adds[i]) \in rows'
    BY Zenon, <1>1, <1>2, <1>3, <1>12 DEF BatchInv
  <2>10. \A c \in cur : c \notin wcur' =>
           /\ c.a \in NoHistory
           /\ \E i \in kept : i < k + 1 /\ Replaces(i, c) /\ Asserted(adds[i]) \in rows'
    BY Zenon, <1>1, <1>2, <1>12, <2>2, <2>3 DEF BatchInv
  <2>11. \A t \in rets : Retracted(t) \in rows'
    BY Zenon, <1>1, <1>12 DEF BatchInv
  <2>12. wcur' \subseteq cur
    BY Zenon, <1>5, <1>12, <2>2
  <2> QED
    BY Zenon, <1>8, <2>5, <2>6, <2>7, <2>8, <2>9, <2>10, <2>11, <2>12
<1> QED
  BY Zenon, <1>9, <1>10, <1>11, <1>12, InsertEffect

\* Before insert_datoms starts the call sees the committed projection; from then
\* on the batch is what BatchInv says, and what is kept is a pending assertion.
StoreInv ==
    /\ pc \in {"scan", "expand"} => wcur = cur
    /\ pc = "insert" => kept \subseteq DOMAIN adds
    /\ BatchInv

\* Every step keeps StoreInv: Upsert starts the batch, Insert extends it.
LEMMA StoreInvStep ==
    ASSUME TypeOK, OneInv, StoreInv, ExactReadBack, [Next]_vars
    PROVE  StoreInv'
<1>1. CASE \E program \in TxOps, speculative \in BOOLEAN : Begin(program, speculative)
  BY Zenon, <1>1 DEF Begin, StoreInv, BatchInv, dbVars
<1>2. CASE EndTx
  BY Zenon, <1>2 DEF EndTx, StoreInv, BatchInv
<1>3. CASE Preparing
  BY Zenon, <1>3 DEF Preparing, StoreInv, BatchInv
<1>4. CASE Upsert
  <2>1. /\ pc = "expand" /\ pc' = "insert" /\ k' = 1 /\ UNCHANGED <<cur, wcur>>
        /\ rows' = {Retracted(t) : t \in rets'}
    BY Zenon, <1>4 DEF Upsert, Expanded, dbVars
  <2>2. PICK m \in Remaps : rets' = {Remap(m, t) : t \in rets} /\ kept' = Kept(m, adds')
    BY Zenon, <1>4 DEF Upsert
  <2>3. kept' \subseteq DOMAIN adds'
    BY Zenon, <2>2 DEF Kept
  <2>4. TypeOK'
    BY Zenon, <1>4, TypeStep DEF Next, Step
  <2>5. \A i \in kept' : ~(i < 1)
    BY <2>3, <2>4 DEF TypeOK
  <2>6. \A t \in rets' : ~Retracted(t).added /\ Key(Retracted(t)) = t
    BY <2>4 DEF TypeOK, Triple, Key, Retracted
  <2>7. wcur' = cur'
    BY Zenon, <2>1 DEF StoreInv
  <2>8. BatchInv'
    BY Zenon, <2>1, <2>5, <2>6, <2>7 DEF BatchInv
  <2> QED
    BY Zenon, <2>1, <2>3, <2>8 DEF StoreInv
<1>5. CASE DropDuplicate
  <2>1. /\ pc = "insert" /\ pc' = "insert" /\ k' = k + 1 /\ k \in Nat /\ kept \subseteq Nat
        /\ UNCHANGED <<cur, wcur, rows, adds, rets, kept>> /\ k \notin kept
    BY Zenon, <1>5 DEF DropDuplicate, Inserting, NextDatom, dbVars, TypeOK
  <2>2. \A i \in kept : i < k + 1 <=> i < k
    BY <2>1
  <2>3. BatchInv'
    BY <2>1, <2>2 DEF StoreInv, BatchInv, Replaces, IsLive
  <2> QED
    BY Zenon, <2>1, <2>3 DEF StoreInv
<1>6. CASE Insert
  <2>1. pc = "insert" /\ pc' = "insert" /\ UNCHANGED <<adds, kept>>
    BY Zenon, <1>6 DEF Insert, Inserting, NextDatom
  <2>2. OneValue(wcur)
    BY Zenon, <2>1 DEF OneInv, Active
  <2> QED
    BY Zenon, <1>6, <2>1, <2>2, BatchInsertStep DEF StoreInv
<1>7. CASE Commit
  BY <1>7, ZenonT(30) DEF Commit, EndTx, StoreInv, BatchInv
<1>8. CASE RebuildProjection
  BY Zenon, <1>8 DEF RebuildProjection, StoreInv, BatchInv, seqVars, txVars
<1>9. CASE UNCHANGED vars
  BY SMTT(30), <1>9 DEF vars, dbVars, seqVars, txVars, StoreInv, BatchInv, Replaces, IsLive
<1> QED
  BY Zenon, <1>1, <1>2, <1>3, <1>4, <1>5, <1>6, <1>7, <1>8, <1>9, StepCases

-----------------------------------------------------------------------------
(* The commit *)

Live == {Key(c) : c \in cur}

\* What the call asserts, and which live facts that replaces.
Asks == {adds[i] : i \in kept} \ rets

GiveWay ==
    {t \in Live : t.a \notin CardMany /\ \E d \in Asks : d.e = t.e /\ d.a = t.a /\ d.v # t.v}

\* When every pending assertion has been handled and the batch has no conflict,
\* its rows are the news among the assertions, the retractions, and those of the
\* facts that give way; noHistory facts give way by being pruned instead.
LEMMA CompleteBatch ==
    ASSUME TypeOK, StoreInv, Inserted, ~BatchConflict(rows)
    PROVE  /\ \A r \in rows : r.added => Key(r) \in Asks \ Live
           /\ \A t \in Asks : t \notin Live => Asserted(t) \in rows
           /\ \A t \in rets : Retracted(t) \in rows
           /\ \A r \in rows : ~r.added => Key(r) \in rets \cup GiveWay
           /\ \A t \in Asks : \A r \in rows : Key(r) = t => r.added
           /\ wcur \subseteq cur
           /\ \A c \in cur : c \notin wcur => c.a \in NoHistory /\ Key(c) \in GiveWay
           /\ \A c \in wcur : Key(c) \in GiveWay => Retracted(c) \in rows
           /\ \A c \in cur : Key(c) \in Asks => c \in wcur
<1>1. pc = "insert" /\ kept \subseteq 1..Len(adds) /\ k > Len(adds) /\ k \in Nat /\ adds \in Seq(Triple)
  BY DEF Inserted, StoreInv, TypeOK
<1>2. \A i \in kept : i < k /\ adds[i] \in Triple
  BY <1>1
<1>3. \A r \in rows : \A s \in rows : Key(r) = Key(s) => r.added = s.added
  BY Zenon DEF BatchConflict
<1>4. cur \in SUBSET CurRow /\ rows \in SUBSET Row /\ rets \in SUBSET Triple /\ wcur \in SUBSET CurRow
  BY Zenon DEF TypeOK
<1>5. \A t \in Triple : /\ Key(Asserted(t)) = t /\ Asserted(t).added
                        /\ Key(Retracted(t)) = t /\ ~Retracted(t).added
  BY DEF Triple, Key, Asserted, Retracted
<1>6. ASSUME NEW i \in kept, Asserted(adds[i]) \in rows
      PROVE  adds[i] \in Asks
  <2>1. adds[i] \notin rets
    BY SMTT(30), <1>1, <1>2, <1>3, <1>5, <1>6 DEF StoreInv, BatchInv
  <2> QED
    BY Zenon, <2>1 DEF Asks
<1>7. ASSUME NEW x, NEW i \in kept, Replaces(i, x), Asserted(adds[i]) \in rows, Key(x) \in Live
      PROVE  Key(x) \in GiveWay
  <2>1. /\ Key(x).e = x.e /\ Key(x).a = x.a /\ Key(x).v = x.v
    BY Zenon DEF Key
  <2> QED
    BY Zenon, <1>6, <1>7, <2>1 DEF GiveWay, Replaces
<1>8. ASSUME NEW x
      PROVE  IsLive(cur, x) <=> Key(x) \in Live
  BY Zenon DEF IsLive, Live
<1>9. ASSUME NEW x, NEW i \in kept, Replaces(i, x)
      PROVE  Key(x) \notin Asks
  <2>1. SUFFICES ASSUME NEW j \in kept, adds[j] = Key(x) PROVE FALSE
    BY Zenon DEF Asks
  <2>2. adds[j].e = x.e /\ adds[j].a = x.a /\ adds[j].v = x.v
    BY <2>1, SMTT(30) DEF Key
  <2>3. i = j
    BY <1>1, <1>2, <1>9, <2>2, SMTT(30) DEF StoreInv, BatchInv, Replaces
  <2> QED
    BY Zenon, <1>9, <2>2, <2>3 DEF Replaces
<1>10. ASSUME NEW r \in rows, r.added
       PROVE  Key(r) \in Asks \ Live
  <2>1. PICK i \in kept : adds[i] = Key(r)
    BY Zenon, <1>1, <1>10 DEF StoreInv, BatchInv
  <2>2. Asserted(adds[i]) = r
    BY <1>4, <1>10, <2>1, SMTT(30) DEF Asserted, Key, Row
  <2> QED
    BY ZenonT(30), <1>1, <1>6, <1>8, <1>10, <2>1, <2>2 DEF StoreInv, BatchInv
<1>11. ASSUME NEW t \in Asks, t \notin Live
       PROVE  Asserted(t) \in rows
  <2>1. PICK i \in kept : t = adds[i]
    BY Zenon DEF Asks
  <2>2. Key(t) = t
    BY Zenon, <1>2, <2>1 DEF Key, Triple
  <2> QED
    BY Zenon, <1>1, <1>2, <1>8, <1>11, <2>1, <2>2 DEF StoreInv, BatchInv
<1>12. ASSUME NEW r \in rows, ~r.added, Key(r) \notin rets
       PROVE  Key(r) \in GiveWay /\ Key(r) \notin Asks
  <2>1. IsLive(cur, r) /\ \E i \in kept : Replaces(i, r) /\ Asserted(adds[i]) \in rows
    BY Zenon, <1>1, <1>12 DEF StoreInv, BatchInv
  <2> QED
    BY Zenon, <1>7, <1>8, <1>9, <2>1
<1>13. ASSUME NEW c \in cur, c \notin wcur
       PROVE  c.a \in NoHistory /\ Key(c) \in GiveWay /\ Key(c) \notin Asks
  <2>1. c.a \in NoHistory /\ \E i \in kept : Replaces(i, c) /\ Asserted(adds[i]) \in rows
    BY Zenon, <1>1, <1>13 DEF StoreInv, BatchInv
  <2>2. Key(c) \in Live
    BY Zenon DEF Live
  <2> QED
    BY Zenon, <1>7, <1>9, <2>1, <2>2
<1>14. ASSUME NEW c \in wcur, Key(c) \in GiveWay
       PROVE  Retracted(c) \in rows
  <2>1. PICK i \in kept : /\ Key(c).a \notin CardMany /\ adds[i].e = Key(c).e
                          /\ adds[i].a = Key(c).a /\ adds[i].v # Key(c).v
    BY Zenon, <1>14 DEF GiveWay, Asks
  <2>2. Replaces(i, c)
    BY Zenon, <2>1 DEF Key, Replaces
  <2> QED
    BY Zenon, <1>1, <1>2, <2>2 DEF StoreInv, BatchInv
<1>15. \A t \in Asks : t \notin rets
  BY Zenon DEF Asks
<1>16. wcur \subseteq cur /\ \A t \in rets : Retracted(t) \in rows
  BY Zenon, <1>1 DEF StoreInv, BatchInv
<1> QED
  BY Zenon, <1>10, <1>11, <1>12, <1>13, <1>14, <1>15, <1>16

\* maintain_current_projection leaves the facts the request asks for.
LEMMA CommitLive ==
    ASSUME TypeOK, StoreInv, Commit
    PROVE  Live' = ((Live \ rets) \ GiveWay) \cup Asks
<1>1. /\ Inserted /\ ~BatchConflict(rows)
      /\ cur' = {c \in wcur : \A r \in rows : Key(r) # Key(c)}
                    \cup {CurAt(r, txid) : r \in {s \in rows : s.added}}
  BY Zenon DEF Commit, MaintainProjection
<1>2. /\ \A r \in rows : r.added => Key(r) \in Asks \ Live
      /\ \A t \in Asks : t \notin Live => Asserted(t) \in rows
      /\ \A t \in rets : Retracted(t) \in rows
      /\ \A r \in rows : ~r.added => Key(r) \in rets \cup GiveWay
      /\ \A t \in Asks : \A r \in rows : Key(r) = t => r.added
      /\ wcur \subseteq cur
      /\ \A c \in cur : c \notin wcur => Key(c) \in GiveWay
      /\ \A c \in wcur : Key(c) \in GiveWay => Retracted(c) \in rows
      /\ \A c \in cur : Key(c) \in Asks => c \in wcur
  BY Zenon, <1>1, CompleteBatch
<1>3. Live' = {Key(c) : c \in cur'} /\ Live = {Key(c) : c \in cur}
  BY Zenon DEF Live
<1>4. \A r \in rows : Key(CurAt(r, txid)) = Key(r)
  BY Zenon DEF Key, CurAt
<1>5. ASSUME NEW t \in Live'
      PROVE  t \in ((Live \ rets) \ GiveWay) \cup Asks
  <2>1. PICK c \in cur' : t = Key(c)
    BY Zenon, <1>3
  <2>2. CASE c \in wcur /\ \A r \in rows : Key(r) # Key(c)
    <3>1. Key(Retracted(c)) = Key(c)
      BY Zenon DEF Key, Retracted
    <3>2. t \notin rets
      <4>1. SUFFICES ASSUME t \in rets PROVE FALSE
        BY Zenon
      <4>2. Key(Retracted(t)) = t
        BY Zenon, <4>1 DEF TypeOK, Triple, Key, Retracted
      <4> QED
        BY Zenon, <1>2, <2>1, <2>2, <4>1, <4>2
    <3>3. t \notin GiveWay
      BY Zenon, <1>2, <2>1, <2>2, <3>1
    <3> QED
      BY Zenon, <1>2, <1>3, <2>1, <2>2, <3>2, <3>3
  <2>3. CASE \E r \in rows : r.added /\ c = CurAt(r, txid)
    BY Zenon, <1>2, <1>4, <2>1, <2>3
  <2> QED
    BY Zenon, <1>1, <2>1, <2>2, <2>3
<1>6. ASSUME NEW t \in Live, \A r \in rows : Key(r) # t, t \notin GiveWay \/ t \in Asks
      PROVE  t \in Live'
  BY Zenon, <1>1, <1>2, <1>3, <1>6
<1>7. ASSUME NEW t \in Asks
      PROVE  t \in Live'
  <2>1. CASE t \in Live
    BY Zenon, <1>2, <1>6, <2>1
  <2>2. CASE t \notin Live
    <3>1. Asserted(t) \in rows /\ Asserted(t).added
      BY Zenon, <1>2, <2>2 DEF Asserted
    <3>2. CurAt(Asserted(t), txid) \in cur' /\ Key(CurAt(Asserted(t), txid)) = Key(Asserted(t))
      BY Zenon, <1>1, <1>4, <3>1
    <3>3. Key(Asserted(t)) = t
      <4>1. t \in Triple
        BY <1>1 DEF Asks, StoreInv, Inserted, TypeOK
      <4> QED
        BY Zenon, <4>1 DEF Key, Asserted, Triple
    <3> QED
      BY Zenon, <1>3, <3>2, <3>3
  <2> QED
    BY Zenon, <2>1, <2>2
<1>8. ASSUME NEW t \in Live, t \notin rets, t \notin GiveWay
      PROVE  t \in Live'
  <2>1. CASE t \in Asks
    BY Zenon, <1>7, <2>1
  <2>2. CASE t \notin Asks
    BY Zenon, <1>2, <1>6, <1>8, <2>2
  <2> QED
    BY Zenon, <2>1, <2>2
<1> QED
  BY Zenon, <1>5, <1>7, <1>8

\* batch_insert_datoms records the news, the retractions and what gave way.
LEMMA CommitHistory ==
    ASSUME TypeOK, ProjInv, StoreInv, Commit
    PROVE  {r \in log' : r.a \notin NoHistory} =
               {r \in log : r.a \notin NoHistory}
                   \cup {AtTx(Asserted(t), txid) : t \in {s \in Asks \ Live : s.a \notin NoHistory}}
                   \cup {AtTx(Retracted(t), txid) :
                            t \in {s \in rets \cup GiveWay : s.a \notin NoHistory}}
<1>1. /\ Inserted /\ ~BatchConflict(rows) /\ log' = wlog \cup {AtTx(r, txid) : r \in rows}
      /\ rows \in SUBSET Row
  BY Zenon DEF Commit, BatchInsert, TypeOK
<1>2. wlog \subseteq log /\ \A r \in log \ wlog : r.a \in NoHistory
  BY Zenon, <1>1 DEF ProjInv, Active, Inserted
<1>3. /\ \A r \in rows : r.added => Key(r) \in Asks \ Live
      /\ \A t \in Asks : t \notin Live => Asserted(t) \in rows
      /\ \A t \in rets : Retracted(t) \in rows
      /\ \A r \in rows : ~r.added => Key(r) \in rets \cup GiveWay
      /\ \A c \in cur : c \notin wcur => c.a \in NoHistory
      /\ \A c \in wcur : Key(c) \in GiveWay => Retracted(c) \in rows
  BY Zenon, <1>1, CompleteBatch
<1>4. ASSUME NEW r \in Row
      PROVE  /\ r.added => r = Asserted(Key(r))
             /\ ~r.added => r = Retracted(Key(r))
             /\ Key(r).a = r.a /\ AtTx(r, txid).a = r.a
  BY Zenon DEF Row, Asserted, Retracted, Key, AtTx
<1>5. ASSUME NEW t \in GiveWay, t.a \notin NoHistory
      PROVE  Retracted(t) \in rows
  <2>1. PICK c \in cur : t = Key(c)
    BY Zenon DEF GiveWay, Live
  <2>2. t.a = c.a /\ Retracted(t) = Retracted(c)
    BY Zenon, <2>1 DEF Key, Retracted
  <2> QED
    BY Zenon, <1>3, <1>5, <2>1, <2>2
<1>6. ASSUME NEW t
      PROVE  AtTx(Asserted(t), txid).a = t.a /\ AtTx(Retracted(t), txid).a = t.a
  BY Zenon DEF AtTx, Asserted, Retracted
<1>7. {AtTx(r, txid) : r \in {s \in rows : s.a \notin NoHistory}} =
          {AtTx(Asserted(t), txid) : t \in {s \in Asks \ Live : s.a \notin NoHistory}}
              \cup {AtTx(Retracted(t), txid) :
                       t \in {s \in rets \cup GiveWay : s.a \notin NoHistory}}
  <2>1. ASSUME NEW r \in rows, r.a \notin NoHistory
        PROVE  \/ \E t \in {s \in Asks \ Live : s.a \notin NoHistory} : r = Asserted(t)
               \/ \E t \in {s \in rets \cup GiveWay : s.a \notin NoHistory} : r = Retracted(t)
    BY Zenon, <1>1, <1>3, <1>4, <2>1
  <2>2. ASSUME NEW t \in {s \in Asks \ Live : s.a \notin NoHistory}
        PROVE  Asserted(t) \in rows /\ Asserted(t).a \notin NoHistory
    BY Zenon, <1>3 DEF Asserted
  <2>3. ASSUME NEW t \in {s \in rets \cup GiveWay : s.a \notin NoHistory}
        PROVE  Retracted(t) \in rows /\ Retracted(t).a \notin NoHistory
    BY Zenon, <1>3, <1>5 DEF Retracted
  <2> QED
    BY Zenon, <2>1, <2>2, <2>3
<1>8. {r \in log' : r.a \notin NoHistory} =
          {r \in log : r.a \notin NoHistory}
              \cup {AtTx(r, txid) : r \in {s \in rows : s.a \notin NoHistory}}
  BY <1>1, <1>2, <1>4
<1> QED
  BY Zenon, <1>7, <1>8

-----------------------------------------------------------------------------
(* Refinement *)

History == {r \in log : r.a \notin NoHistory}

Idle == [st |-> "none", tx |-> 0, asserts |-> {}, retracts |-> {}]

\* Every step of the call is a step of the abstract store, or none: Upsert
\* proposes the request, Commit applies it, an error abandons it.
LEMMA StoreStep ==
    ASSUME TypeOK, ProjInv, OneInv, StoreInv, [Next]_vars
    PROVE  [Promise!StoreNext]_<<Live, History, Requested>>
<1> USE DEF Live, History
<1>1. ASSUME UNCHANGED <<log, cur>>, pc # "insert", pc' # "insert"
      PROVE  UNCHANGED <<Live, History, Requested>>
  BY Zenon, <1>1 DEF Requested
<1>2. ASSUME UNCHANGED <<log, cur, pc, txid, adds, kept, rets>>
      PROVE  UNCHANGED <<Live, History, Requested>>
  BY Zenon, <1>2 DEF Requested
<1>3. CASE \E program \in TxOps, speculative \in BOOLEAN : Begin(program, speculative)
  BY Zenon, <1>1, <1>3 DEF Begin, dbVars
<1>4. CASE EndTx /\ UNCHANGED <<dbVars, seqVars>>
  <2>1. UNCHANGED <<log, cur>> /\ pc' = "idle"
    BY Zenon, <1>4 DEF EndTx, dbVars
  <2>2. CASE pc = "insert"
    <3>1. Requested.st = "some" /\ Requested' = Idle
      BY Zenon, <2>1, <2>2 DEF Requested, Idle
    <3>2. Requested # Idle
      BY <3>1 DEF Idle
    <3>3. Promise!Abandon
      BY Zenon, <2>1, <3>1, <3>2 DEF Promise!Abandon, Promise!NoRequest, Idle
    <3> QED
      BY Zenon, <3>3 DEF Promise!StoreNext
  <2> QED
    BY Zenon, <1>1, <2>1, <2>2
<1>5. CASE Preparing
  BY Zenon, <1>1, <1>5 DEF Preparing
<1>6. CASE Upsert
  <2>1. pc = "expand" /\ pc' = "insert" /\ UNCHANGED <<log, cur, txid>>
    BY Zenon, <1>6 DEF Upsert, Expanded, dbVars
  <2>2. TypeOK'
    BY Zenon, TypeStep
  <2>3. PICK m \in Remaps : kept' = Kept(m, adds')
    BY Zenon, <1>6 DEF Upsert
  <2>4. kept' \subseteq DOMAIN adds'
    BY Zenon, <2>3 DEF Kept
  <2>5. {adds'[i] : i \in kept'} \subseteq Triple
    BY SMTT(30), <2>2, <2>4 DEF TypeOK
  <2>6. Requested = Idle
    BY Zenon, <2>1 DEF Requested, Idle
  <2>7. Requested' = [st |-> "some", tx |-> txid', asserts |-> {adds'[i] : i \in kept'} \ rets',
                      retracts |-> rets']
    BY Zenon, <2>1 DEF Requested
  <2>8. Requested' \in [st : {"some"}, tx : Nat, asserts : SUBSET Triple, retracts : SUBSET Triple]
    BY Zenon, <2>2, <2>5, <2>7 DEF TypeOK
  <2>9. \A r \in History : r.tx < txid'
    BY Zenon, <2>1 DEF ProjInv, Active
  <2>10. Requested'.asserts \cap Requested'.retracts = {} /\ Requested'.tx = txid'
    BY Zenon, <2>7
  <2>11. Promise!Propose
    BY Zenon, <2>1, <2>6, <2>8, <2>9, <2>10
    DEF Promise!Propose, Promise!Request, Promise!NoRequest, Promise!Triple, Promise!Entity,
        Promise!Value, Triple, Entity, Value, Idle
  <2> QED
    BY Zenon, <2>11 DEF Promise!StoreNext
<1>7. CASE DropDuplicate
  BY Zenon, <1>2, <1>7 DEF DropDuplicate, NextDatom, dbVars
<1>8. CASE Insert
  BY Zenon, <1>2, <1>8 DEF Insert, NextDatom, dbVars
<1>9. CASE Commit
  <2>1. pc = "insert" /\ pc' = "idle"
    BY Zenon, <1>9 DEF Commit, Inserted, EndTx
  <2>2. /\ Requested = [st |-> "some", tx |-> txid, asserts |-> Asks, retracts |-> rets]
        /\ Requested' = Idle
    BY Zenon, <2>1 DEF Requested, Asks, Idle
  <2>3. Requested # Idle /\ Requested.tx = txid /\ Requested.asserts = Asks /\ Requested.retracts = rets
    BY Zenon, <2>2 DEF Idle
  <2>4. Promise!Replaced(Asks) = GiveWay
    BY Zenon DEF Promise!Replaced, GiveWay
  <2>5. Promise!Recorded(Requested) =
            {AtTx(Asserted(t), txid) : t \in {s \in Asks \ Live : s.a \notin NoHistory}}
                \cup {AtTx(Retracted(t), txid) :
                         t \in {s \in rets \cup GiveWay : s.a \notin NoHistory}}
    BY Zenon, <2>3, <2>4
    DEF Promise!Recorded, Promise!AtTx, Promise!Asserted, Promise!Retracted, AtTx, Asserted, Retracted
  <2>6. History' = History \cup Promise!Recorded(Requested)
    BY Zenon, <1>9, <2>5, CommitHistory
  <2>7. Live' = ((Live \ rets) \ Promise!Replaced(Asks)) \cup Asks
    BY Zenon, <1>9, <2>4, CommitLive
  <2>8. Promise!Apply
    BY <2>2, <2>3, <2>6, <2>7, Zenon DEF Promise!Apply, Promise!NoRequest, Idle
  <2> QED
    BY Zenon, <2>8 DEF Promise!StoreNext
<1>10. CASE RebuildProjection
  BY Zenon, <1>2, <1>10 DEF RebuildProjection, ProjInv, txVars
<1>11. CASE UNCHANGED vars
  BY Zenon, <1>2, <1>11 DEF vars, dbVars, txVars
<1> QED
  BY Zenon, <1>3, <1>4, <1>5, <1>6, <1>7, <1>8, <1>9, <1>10, <1>11, StepCases

\* A call of mentat_transact is one step of the abstract store, whatever the
\* schema and the transactions: its assertions and retractions take effect
\* together, with the values they replace, or it leaves no trace.  Values must be
\* read back exactly, as they are for every type but instants.
THEOREM TransactImplementsStore ==
    ASSUME ExactReadBack
    PROVE  Spec => ImplementsStore
<1> DEFINE Inv == TypeOK /\ ProjInv /\ UniqueInv /\ OneInv /\ StoreInv
<1>1. Init => Inv
  <2>1. ASSUME Init PROVE UniqueInv /\ OneInv /\ StoreInv
    BY Zenon, <2>1 DEF Init, UniqueInv, OneInv, Active, OneOwner, OneValue, StoreInv, BatchInv
  <2> QED
    BY Zenon, <2>1, ProjInitially, TypeInitially
<1>2. Inv /\ [Next]_vars => Inv'
  BY Zenon, TypeStep, ProjStep, UniqueStep, OneStep, StoreInvStep
<1>3. Init => Promise!StoreInit
  BY Zenon DEF Init, Promise!StoreInit, Promise!NoRequest, Requested
<1>4. Inv /\ [Next]_vars => [Promise!StoreNext]_(Promise!storeVars)
  BY Zenon, StoreStep DEF Promise!storeVars, Live, History
<1> QED
  BY <1>1, <1>2, <1>3, <1>4, PTL DEF Spec, ImplementsStore, Promise!StoreSpec

\* A committed transaction has the effect its client asked for: what it asserted
\* and did not retract is live in the projection, what it retracted is not.
THEOREM CommitTakesEffect ==
    ASSUME ExactReadBack
    PROVE  Spec => CommittedAssertionsLive /\ CommittedRetractionsGone
<1> DEFINE Inv == TypeOK /\ ProjInv /\ UniqueInv /\ OneInv /\ StoreInv
<1>1. Init => Inv
  <2>1. ASSUME Init PROVE UniqueInv /\ OneInv /\ StoreInv
    BY Zenon, <2>1 DEF Init, UniqueInv, OneInv, Active, OneOwner, OneValue, StoreInv, BatchInv
  <2> QED
    BY Zenon, <2>1, ProjInitially, TypeInitially
<1>2. Inv /\ [Next]_vars => Inv'
  BY Zenon, TypeStep, ProjStep, UniqueStep, OneStep, StoreInvStep
<1>3. ASSUME TypeOK, StoreInv, [Next]_vars, Committing
      PROVE  /\ \A i \in kept : adds[i] \in rets \/ IsLive(cur', adds[i])
             /\ \A t \in rets : ~IsLive(cur', t)
  <2>1. Commit
    BY Zenon, <1>3, StepCases
    DEF Committing, Begin, Preparing, Upsert, DropDuplicate, Insert, NextDatom, RebuildProjection,
        vars, dbVars, seqVars
  <2>2. Live' = ((Live \ rets) \ GiveWay) \cup Asks
    BY Zenon, <1>3, <2>1, CommitLive
  <2>3. ASSUME NEW t \in Triple
        PROVE  IsLive(cur', t) <=> t \in Live'
    <3>1. Key(t) = t
      BY Zenon DEF Key, Triple
    <3> QED
      BY Zenon, <3>1 DEF IsLive, Live
  <2>4. \A i \in kept : adds[i] \in Triple
    BY <1>3, <2>1 DEF Commit, Inserted, StoreInv, TypeOK
  <2>5. rets \subseteq Triple
    BY Zenon, <1>3 DEF TypeOK
  <2> QED
    BY Zenon, <2>2, <2>3, <2>4, <2>5 DEF Asks
<1>4. Inv /\ [Next]_vars =>
          /\ [Committing => \A i \in kept : adds[i] \in rets \/ IsLive(cur', adds[i])]_vars
          /\ [Committing => \A t \in rets : ~IsLive(cur', t)]_vars
  BY Zenon, <1>3
<1> QED
  BY <1>1, <1>2, <1>4, PTL DEF Spec, CommittedAssertionsLive, CommittedRetractionsGone

-----------------------------------------------------------------------------
(* noHistory *)

NoHistoryOne == NoHistory \ CardMany

OneAssertion(L) ==
    \A r, s \in L :
        (r.added /\ s.added /\ r.e = s.e /\ r.a = s.a /\ r.a \in NoHistoryOne) => r = s

\* An asserted row of a noHistory cardinality-one attribute has nothing left of
\* its (e, a) in the log, and every pending assertion of the (e, a) has its value.
PruneInv ==
    /\ OneAssertion(log)
    /\ Active => OneAssertion(wlog)
    /\ pc = "insert" =>
          \A r \in rows : (r.added /\ r.a \in NoHistoryOne) =>
              /\ \A s \in wlog : s.e # r.e \/ s.a # r.a
              /\ \A i \in kept : (adds[i].e = r.e /\ adds[i].a = r.a) => adds[i].v = r.v

\* Every step keeps PruneInv: whatever Insert reads, it prunes before it asserts.
LEMMA PruneStep ==
    ASSUME TypeOK, ProjInv, UniqueInv, PruneInv, [Next]_vars
    PROVE  PruneInv'
<1>1. CASE \E program \in TxOps, speculative \in BOOLEAN : Begin(program, speculative)
  BY Zenon, <1>1 DEF Begin, PruneInv, Active, dbVars
<1>2. CASE EndTx /\ UNCHANGED <<dbVars, seqVars>>
  BY Zenon, <1>2 DEF EndTx, PruneInv, Active, dbVars
<1>3. CASE Preparing
  BY Zenon, <1>3 DEF Preparing, PruneInv, Active
<1>4. CASE Upsert
  BY <1>4, SMTT(30), SMTT(60) DEF Upsert, Expanded, PruneInv, Active, dbVars, Retracted
<1>5. CASE DropDuplicate
  BY Zenon, <1>5 DEF DropDuplicate, Inserting, NextDatom, PruneInv, Active, dbVars
<1>6. CASE Insert
  <2> DEFINE d == adds[k]
  <2>1. /\ pc = "insert" /\ pc' = "insert" /\ UNCHANGED <<log, adds, kept>> /\ d \in Triple /\ k \in kept
    BY Zenon, <1>6, CurrentDatom DEF Insert, Inserting, NextDatom, dbVars
  <2>2. wlog' \subseteq wlog
    BY Zenon, <1>6, <2>1, InsertView DEF ProjInv, Active
  <2>3. OneAssertion(log') /\ OneAssertion(wlog')
    BY Zenon, <2>1, <2>2 DEF PruneInv, Active, OneAssertion
  <2>4. ASSUME NEW r \in rows', r.added, r.a \in NoHistoryOne
        PROVE  /\ \A s \in wlog' : s.e # r.e \/ s.a # r.a
               /\ \A i \in kept : (adds[i].e = r.e /\ adds[i].a = r.a) => adds[i].v = r.v
    <3>1. CASE r \in rows
      BY Zenon, <2>1, <2>2, <2>4, <3>1 DEF PruneInv
    <3>2. CASE r \notin rows
      <4>1. r = Asserted(d) /\ Accepted(d)
        BY Zenon, <1>6, <2>4, <3>2, InsertRows
      <4>2. r.e = d.e /\ r.a = d.a /\ r.v = d.v /\ d.a \in NoHistory /\ d.a \notin CardMany
        BY Zenon, <2>4, <4>1 DEF Asserted, NoHistoryOne
      <4>3. \A i \in kept : (adds[i].e = d.e /\ adds[i].a = d.a) => i = k
        BY Zenon, <2>1, <4>1, <4>2 DEF Accepted, ValidInTx
      <4>4. wlog' = PruneEA(wlog, d.e, d.a)
        BY Zenon, <1>6, <2>4, <3>2, <4>2
        DEF Insert, InsertSkip, InsertOne, InsertMany, InsertNoHistoryOne, InsertNoHistoryMany
      <4> QED
        BY Zenon, <4>2, <4>3, <4>4 DEF PruneEA
    <3> QED
      BY Zenon, <3>1, <3>2
  <2> QED
    BY Zenon, <2>1, <2>3, <2>4 DEF PruneInv, Active
<1>7. CASE Commit
  <2>1. pc = "insert" /\ pc' = "idle" /\ log' = wlog \cup {AtTx(r, txid) : r \in rows} /\ rows \in SUBSET Row
    BY Zenon, <1>7 DEF Commit, Inserted, EndTx, BatchInsert, TypeOK
  <2>2. OneAssertion(wlog)
    BY Zenon, <2>1 DEF PruneInv, Active
  <2>3. ASSUME NEW q \in rows, NEW s \in wlog, q.added, q.a \in NoHistoryOne
        PROVE  s.e # q.e \/ s.a # q.a
    BY Zenon, <2>1, <2>3 DEF PruneInv
  <2>4. ASSUME NEW q \in rows, NEW s \in rows, q.added, s.added, q.e = s.e, q.a = s.a, q.a \in NoHistoryOne
        PROVE  q = s
    <3>1. PICK i \in kept : adds[i] = Key(s)
      BY Zenon, <2>1, <2>4 DEF UniqueInv
    <3>2. q.v = s.v
      BY SMTT(30), <2>1, <2>4, <3>1 DEF PruneInv, Key
    <3> QED
      BY <2>1, <2>4, <3>2, SMTT(30) DEF Row
  <2>5. ASSUME NEW q \in rows
        PROVE  /\ AtTx(q, txid).e = q.e /\ AtTx(q, txid).a = q.a /\ AtTx(q, txid).added = q.added
    BY Zenon DEF AtTx
  <2>6. OneAssertion(log')
    BY <2>1, <2>2, <2>3, <2>4, <2>5, SMTT(30) DEF OneAssertion
  <2> QED
    BY Zenon, <2>1, <2>6 DEF PruneInv, Active
<1>8. CASE RebuildProjection
  BY Zenon, <1>8 DEF RebuildProjection, PruneInv, Active, txVars
<1>9. CASE UNCHANGED vars
  BY <1>9, ZenonT(30) DEF vars, dbVars, seqVars, txVars, PruneInv, Active
<1> QED
  BY Zenon, <1>1, <1>2, <1>3, <1>4, <1>5, <1>6, <1>7, <1>8, <1>9, StepCases

\* A noHistory cardinality-one attribute never has two assertions of one entity
\* in the log, read-back of values exact or not: prune_no_history_ea runs before
\* every assertion that the batch takes.
THEOREM NoHistoryHolds == Spec => []NoHistoryKeepsOneAssertion
<1> DEFINE Inv == TypeOK /\ ProjInv /\ UniqueInv /\ PruneInv
<1>1. Init => Inv
  <2>1. ASSUME Init PROVE UniqueInv /\ PruneInv
    BY Zenon, <2>1 DEF Init, UniqueInv, PruneInv, Active, OneOwner, OneAssertion
  <2> QED
    BY Zenon, <2>1, ProjInitially, TypeInitially
<1>2. Inv /\ [Next]_vars => Inv'
  BY Zenon, TypeStep, ProjStep, UniqueStep, PruneStep
<1>3. Inv => NoHistoryKeepsOneAssertion
  BY Zenon DEF PruneInv, OneAssertion, NoHistoryOne, NoHistoryKeepsOneAssertion
<1> QED
  BY <1>1, <1>2, <1>3, PTL DEF Spec

=============================================================================
