------------------------------ MODULE Transact ------------------------------
(***************************************************************************)
(* mentat_transact on one connection: functions/transact.rs.  A PostgreSQL *)
(* transaction runs one call; its statements read the transaction's own    *)
(* view (wlog, wcur) of the log and the projection, and the view is        *)
(* published when the transaction commits or dropped when it fails.        *)
(*                                                                         *)
(* pending_datoms is split into the sequence of assertions (adds) and the  *)
(* set of retractions (rets): the code appends retractions to the batch    *)
(* without looking at them, so only the order of the assertions matters.   *)
(***************************************************************************)
EXTENDS Upserts

CONSTANTS
    TempId,   \* tempid strings
    TxOps,    \* the transactions clients submit: sequences of operations
    Nil,      \* EDN nil
    MaxTx     \* bound: the number of transaction ids handed out

VARIABLES
    log,            \* committed rows of the log
    cur,            \* committed rows of the projection
    transactions,   \* committed rows of mentat.transactions (and, with each,
                    \* the :db/txInstant datom of log and projection)
    txSeq,          \* last value of partition_tx_seq
    userSeq,        \* last value of partition_user_seq
    pc,             \* what the running call does next
    txid,           \* its transaction id
    ops,            \* the operations of the call
    k,              \* position in ops, then in adds
    tempids,        \* tempid_map, 0 for a tempid not yet allocated
    adds,           \* pending assertions
    rets,           \* pending retractions
    kept,           \* the assertions left by deduplication
    rows,           \* rows_to_insert
    wlog,           \* the log as the call sees it
    wcur,           \* the projection as the call sees it
    dry             \* mentat_with: the call is rolled back when it succeeds

dbVars == <<log, cur, transactions>>
seqVars == <<txSeq, userSeq>>
txVars == <<pc, txid, ops, k, tempids, adds, rets, kept, rows, wlog, wcur, dry>>
vars == <<dbVars, seqVars, txVars>>

\* Entity places: an entity id, a tempid, or a lookup ref [attribute value].
Place ==
    [p : {"id"}, id : Entity]
        \cup [p : {"tempid"}, t : TempId]
        \cup [p : {"lookup"}, a : Attr, v : Value]

\* Value places: a scalar, or an entity place under a reference attribute.
ValuePlace == [p : {"scalar"}, s : Scalar] \cup Place

Op ==
    [f : {"add", "retract"}, e : Place, a : Attr, v : ValuePlace]
        \cup [f : {"cas"}, e : Place, a : Attr, old : ValuePlace \cup {Nil}, v : ValuePlace]
        \cup [f : {"retractEntity"}, e : Place]

ASSUME TransactAssumption ==
    /\ MaxTx \in Nat
    /\ TxOps \subseteq Seq(Op)

-----------------------------------------------------------------------------
(* Places *)

PlacesOf(op) ==
    {op.e} \cup (IF op.f \in {"add", "retract", "cas"} THEN {op.v} ELSE {})
           \cup (IF op.f = "cas" /\ op.old # Nil THEN {op.old} ELSE {})

Unallocated(op) ==
    {t \in TempId : tempids[t] = 0 /\ [p |-> "tempid", t |-> t] \in PlacesOf(op)}

\* A lookup ref fails on a non-unique attribute and when nothing owns the value;
\* a scalar is no entity place, so it fails under a reference attribute.
PlaceFails(op) ==
    \/ \E x \in PlacesOf(op) :
          /\ x.p = "lookup"
          /\ x.a \notin UniqueAttr \/ Owners(wlog, x.a, x.v) = {}
    \/ /\ op.f # "retractEntity"
       /\ op.a \in RefAttr
       /\ \E x \in PlacesOf(op) : x.p = "scalar"

\* The value a resolved place denotes.
Resolve(x) ==
    CASE x.p = "id" -> x.id
      [] x.p = "tempid" -> tempids[x.t]
      [] x.p = "lookup" -> CHOOSE o \in Owners(wlog, x.a, x.v) : TRUE
      [] x.p = "scalar" -> x.s

TripleOf(op) == [e |-> Resolve(op.e), a |-> op.a, v |-> Resolve(op.v)]

-----------------------------------------------------------------------------
(* The beginning and the end of a call *)

Init ==
    /\ log = {} /\ cur = {} /\ transactions = {}
    /\ txSeq = 0 /\ userSeq = 0
    /\ pc = "idle" /\ txid = 0 /\ ops = <<>> /\ k = 0
    /\ tempids = [t \in TempId |-> 0]
    /\ adds = <<>> /\ rets = {} /\ kept = {} /\ rows = {}
    /\ wlog = {} /\ wcur = {} /\ dry = FALSE

\* allocate_tx_id: the id is taken from the sequence before anything else, and
\* a sequence is not rolled back.
Begin(program, speculative) ==
    /\ pc = "idle"
    /\ txSeq < MaxTx
    /\ txSeq' = txSeq + 1
    /\ txid' = txSeq + 1
    /\ pc' = "scan" /\ ops' = program /\ k' = 1 /\ dry' = speculative
    /\ wlog' = log /\ wcur' = cur
    /\ UNCHANGED <<dbVars, userSeq, tempids, adds, rets, kept, rows>>

EndTx ==
    /\ pc' = "idle" /\ txid' = 0 /\ ops' = <<>> /\ k' = 0
    /\ tempids' = [t \in TempId |-> 0]
    /\ adds' = <<>> /\ rets' = {} /\ kept' = {} /\ rows' = {}
    /\ wlog' = {} /\ wcur' = {} /\ dry' = FALSE

\* An error: PostgreSQL rolls the whole transaction back.
Fail == EndTx /\ UNCHANGED <<dbVars, seqVars>>

\* A malformed operation, a cancelled statement, a lost connection.
Cancel == pc # "idle" /\ Fail

-----------------------------------------------------------------------------
(* Pass 1: the tempids in the entity places of the assertions get their ids *)

\* nextval of partition_user_seq, which is not rolled back either.
Allocate(t) ==
    /\ userSeq + 1 \in Entity
    /\ userSeq' = userSeq + 1
    /\ tempids' = [tempids EXCEPT ![t] = userSeq + 1]
    /\ UNCHANGED <<dbVars, txSeq, pc, txid, ops, k, adds, rets, kept, rows, wlog, wcur, dry>>

ToScan ==
    {i \in DOMAIN ops :
        ops[i].f = "add" /\ ops[i].e.p = "tempid" /\ tempids[ops[i].e.t] = 0}

ScanTempid ==
    /\ pc = "scan"
    /\ \E i \in ToScan :
          /\ \A j \in ToScan : i <= j
          /\ Allocate(ops[i].e.t)

EndScan ==
    /\ pc = "scan"
    /\ ToScan = {}
    /\ pc' = "expand"
    /\ UNCHANGED <<dbVars, seqVars, txid, ops, k, tempids, adds, rets, kept, rows, wlog, wcur, dry>>

-----------------------------------------------------------------------------
(* Pass 2: from operations to pending datoms *)

Expanding == pc = "expand" /\ k <= Len(ops)

AllocateTempid == Expanding /\ \E t \in Unallocated(ops[k]) : Allocate(t)

ResolvePlacesFails == Expanding /\ PlaceFails(ops[k]) /\ Fail

Expand(f) ==
    /\ Expanding
    /\ ops[k].f = f
    /\ Unallocated(ops[k]) = {}
    /\ ~PlaceFails(ops[k])

NextOp ==
    /\ k' = k + 1
    /\ UNCHANGED <<dbVars, seqVars, pc, txid, ops, tempids, kept, rows, wlog, wcur, dry>>

ExpandAdd ==
    /\ Expand("add")
    /\ adds' = Append(adds, TripleOf(ops[k]))
    /\ rets' = rets
    /\ NextOp

ExpandRetract ==
    /\ Expand("retract")
    /\ rets' = rets \cup {TripleOf(ops[k])}
    /\ adds' = adds
    /\ NextOp

\* The live values of (e, a) must be exactly the expected one, or none for nil.
CasMatches(op) ==
    LET current == CurrentValues(wcur, Resolve(op.e), op.a)
    IN  IF op.old = Nil THEN current = {} ELSE current = {Resolve(op.old)}

ExpandCas ==
    /\ Expand("cas")
    /\ CasMatches(ops[k])
    /\ rets' = rets \cup (IF ops[k].old = Nil THEN {}
                         ELSE {[TripleOf(ops[k]) EXCEPT !.v = Resolve(ops[k].old)]})
    /\ adds' = Append(adds, TripleOf(ops[k]))
    /\ NextOp

CasFails == Expand("cas") /\ ~CasMatches(ops[k]) /\ Fail

\* Mutant: the component references themselves are not retracted.
ExpandRetractEntityKeepsRefs ==
    /\ Expand("retractEntity")
    /\ rets' = rets \cup
           {Key(r) : r \in {s \in wlog : /\ s.added /\ s.a \notin Component
                                        /\ s.e \in ComponentClosure(wlog, Resolve(ops[k].e))}}
    /\ adds' = adds
    /\ NextOp

\* Every assertion the log holds for the entity and its components is retracted.
ExpandRetractEntity ==
    /\ Expand("retractEntity")
    /\ rets' = rets \cup
           {Key(r) : r \in {s \in wlog : /\ s.added
                                        /\ s.e \in ComponentClosure(wlog, Resolve(ops[k].e))}}
    /\ adds' = adds
    /\ NextOp

-----------------------------------------------------------------------------
(* Upsert resolution *)

Expanded == pc = "expand" /\ k > Len(ops)

UpsertFails == Expanded /\ ConflictingUpsert(wlog, adds) /\ Fail

\* Remap entities and references, drop duplicate assertions, and start the
\* batch with the retractions, which insert_datoms appends unconditionally.
\* What is resolved is a map on entities (UpsertsType, in UpsertsProofs).
Upsert ==
    /\ Expanded
    /\ ~ConflictingUpsert(wlog, adds)
    /\ \E m \in {ResolveUpserts(wlog, adds)} \cap Remaps :
          /\ adds' = [i \in DOMAIN adds |-> Remap(m, adds[i])]
          /\ rets' = {Remap(m, t) : t \in rets}
          /\ tempids' = [t \in TempId |-> IF tempids[t] = 0 THEN 0 ELSE m[tempids[t]]]
          /\ kept' = Kept(m, adds')
    /\ rows' = {Retracted(t) : t \in rets'}
    /\ pc' = "insert" /\ k' = 1
    /\ UNCHANGED <<dbVars, seqVars, txid, ops, wlog, wcur, dry>>

-----------------------------------------------------------------------------
(* insert_datoms: one step per pending assertion *)

Inserting == pc = "insert" /\ k <= Len(adds)

\* The checks of validate_datom_constraints that only look at the transaction.
ValidInTx(d) ==
    /\ d.v \in Typed(d.a)
    /\ d.a \notin CardMany =>
          \A i, j \in kept :
              (/\ adds[i].e = d.e /\ adds[i].a = d.a
               /\ adds[j].e = d.e /\ adds[j].a = d.a) => i = j
    /\ d.a \in UniqueAttr =>
          \A i \in kept : (adds[i].a = d.a /\ adds[i].v = d.v) => adds[i].e = d.e

\* The unique check reads one owner of the value (LIMIT 1).
OwnedByAnother(d) == d.a \in UniqueAttr /\ \E o \in Owners(wlog, d.a, d.v) : o # d.e

NotOwnedByAnother(d) ==
    d.a \in UniqueAttr =>
        Owners(wlog, d.a, d.v) = {} \/ d.e \in Owners(wlog, d.a, d.v)

Reject ==
    /\ Inserting
    /\ k \in kept
    /\ ~ValidInTx(adds[k]) \/ OwnedByAnother(adds[k])
    /\ Fail

Accepted(d) == ValidInTx(d) /\ NotOwnedByAnother(d)

NextDatom ==
    /\ k' = k + 1
    /\ UNCHANGED <<dbVars, seqVars, pc, txid, ops, tempids, adds, rets, kept, dry>>

DropDuplicate ==
    /\ Inserting
    /\ k \notin kept
    /\ NextDatom
    /\ UNCHANGED <<rows, wlog, wcur>>

\* retract_existing_cardinality_one reads one current value (LIMIT 1): none is
\* there (Insert), the new value is (Skip), or another one is (Replace).
NoCurrentValue(d) == CurrentValues(wcur, d.e, d.a) = {}

Skips(d) == \E old \in CurrentValues(wcur, d.e, d.a) : ReadBack[old] = d.v

ReplacedValues(d) == {ReadBack[old] : old \in CurrentValues(wcur, d.e, d.a)} \ {d.v}

InsertSkip(d) ==
    /\ IF d.a \in CardMany THEN IsLive(wcur, d) ELSE Skips(d)
    /\ UNCHANGED <<rows, wlog, wcur>>

\* Mutant: the value that is replaced is not retracted.
InsertOneKeepsOld(d) ==
    /\ d.a \notin CardMany \cup NoHistory
    /\ NoCurrentValue(d) \/ ReplacedValues(d) # {}
    /\ rows' = rows \cup {Asserted(d)}
    /\ UNCHANGED <<wlog, wcur>>

InsertOne(d) ==
    /\ d.a \notin CardMany \cup NoHistory
    /\ \/ NoCurrentValue(d) /\ rows' = rows \cup {Asserted(d)}
       \/ \E old \in ReplacedValues(d) :
             rows' = rows \cup {Retracted([d EXCEPT !.v = old]), Asserted(d)}
    /\ UNCHANGED <<wlog, wcur>>

\* Mutant: a datom that is live already is asserted once more.
InsertManyAgain(d) ==
    /\ d.a \in CardMany \ NoHistory
    /\ rows' = rows \cup {Asserted(d)}
    /\ UNCHANGED <<wlog, wcur>>

InsertMany(d) ==
    /\ d.a \in CardMany \ NoHistory
    /\ ~IsLive(wcur, d)
    /\ rows' = rows \cup {Asserted(d)}
    /\ UNCHANGED <<wlog, wcur>>

\* Mutant: only the projection is pruned.
InsertNoHistoryOneKeepsLog(d) ==
    /\ d.a \in NoHistory \ CardMany
    /\ NoCurrentValue(d) \/ ReplacedValues(d) # {}
    /\ wcur' = PruneEA(wcur, d.e, d.a)
    /\ rows' = rows \cup {Asserted(d)}
    /\ UNCHANGED wlog

\* :db/noHistory, cardinality one: every row of the (e, a) is pruned.
InsertNoHistoryOne(d) ==
    /\ d.a \in NoHistory \ CardMany
    /\ NoCurrentValue(d) \/ ReplacedValues(d) # {}
    /\ wlog' = PruneEA(wlog, d.e, d.a)
    /\ wcur' = PruneEA(wcur, d.e, d.a)
    /\ rows' = rows \cup {Asserted(d)}

\* :db/noHistory, cardinality many: the rows of the (e, a, v) are pruned.
InsertNoHistoryMany(d) ==
    /\ d.a \in NoHistory \cap CardMany
    /\ ~IsLive(wcur, d)
    /\ wlog' = PruneEAV(wlog, d)
    /\ rows' = rows \cup {Asserted(d)}
    /\ wcur' = wcur

Insert ==
    /\ Inserting
    /\ k \in kept
    /\ Accepted(adds[k])
    /\ \/ InsertSkip(adds[k])
       \/ InsertOne(adds[k])
       \/ InsertMany(adds[k])
       \/ InsertNoHistoryOne(adds[k])
       \/ InsertNoHistoryMany(adds[k])
    /\ NextDatom

-----------------------------------------------------------------------------
(* The batch and the end of the transaction *)

Inserted == pc = "insert" /\ k > Len(adds)

BatchFails == Inserted /\ BatchConflict(rows) /\ Fail

\* mentat_with raises after a successful run, which undoes its writes.
RollBackSpeculation == Inserted /\ ~BatchConflict(rows) /\ dry /\ Fail

\* The tx-data of the report: the pending datoms, after deduplication.
TxData == {Asserted(adds[i]) : i \in kept} \cup {Retracted(t) : t \in rets}

Commit ==
    /\ Inserted
    /\ ~BatchConflict(rows)
    /\ ~dry
    /\ log' = BatchInsert(wlog, rows, txid)
    /\ cur' = MaintainProjection(wcur, rows, txid)
    /\ transactions' = transactions \cup {txid}
    /\ EndTx
    /\ UNCHANGED seqVars

\* mentat.rebuild_current_projection()
RebuildProjection ==
    /\ pc = "idle"
    /\ cur' = Rebuilt(log)
    /\ UNCHANGED <<log, transactions, seqVars, txVars>>

Step ==
    \/ Cancel
    \/ ScanTempid
    \/ EndScan
    \/ AllocateTempid
    \/ ResolvePlacesFails
    \/ ExpandAdd
    \/ ExpandRetract
    \/ ExpandCas
    \/ CasFails
    \/ ExpandRetractEntity
    \/ UpsertFails
    \/ Upsert
    \/ Reject
    \/ DropDuplicate
    \/ Insert
    \/ BatchFails
    \/ RollBackSpeculation
    \/ Commit
    \/ RebuildProjection

Next ==
    \/ \E program \in TxOps, speculative \in BOOLEAN : Begin(program, speculative)
    \/ Step

Spec == Init /\ [][Next]_vars

-----------------------------------------------------------------------------
(* Properties *)

\* Every variable has its type: log rows are datoms, a call holds a transaction
\* id taken from the sequence, and tempids stand for allocated entities.
TypeOK ==
    /\ log \subseteq LogRow /\ cur \subseteq CurRow /\ transactions \subseteq Nat
    /\ txSeq \in Nat /\ userSeq \in 0..MaxEntity
    /\ pc \in {"idle", "scan", "expand", "insert"}
    /\ txid \in Nat /\ ops \in Seq(Op)
    /\ k \in Nat /\ (pc # "idle" => k > 0)
    /\ tempids \in [TempId -> 0..MaxEntity]
    /\ adds \in Seq(Triple) /\ rets \subseteq Triple
    /\ kept \subseteq Nat /\ rows \subseteq Row
    /\ wlog \subseteq LogRow /\ wcur \subseteq CurRow
    /\ dry \in BOOLEAN

\* verify_current_projection returns 0 after any sequence of transactions: the
\* incrementally maintained projection is the latest-tx-wins resolution of the
\* log, transaction column included.
ProjectionMatchesLog == cur = Rebuilt(log)

\* A cardinality-one attribute has at most one live value per entity: the
\* transact path retracts the prior value first.
CardinalityOne ==
    \A c, d \in cur : (c.e = d.e /\ c.a = d.a /\ c.a \notin CardMany) => c.v = d.v

\* No two entities were ever given the same value of a unique attribute, not
\* even one after the other: the check and the resolution of upserts read the
\* assertions of the log, so an entity that was retracted keeps its values.
UniqueValues ==
    \A r, s \in log :
        (r.added /\ s.added /\ r.a = s.a /\ r.v = s.v /\ r.a \in UniqueAttr) => r.e = s.e

\* "Recreate with same uid - should create a new entity (old one is retracted)"
\* (datalog_feature_tests.rs:416): the owner of a unique value, for the check
\* and for upserts, is an entity that has it now.
OwnersAreLive ==
    \A r \in log : r.a \in UniqueAttr =>
        \A e \in Owners(log, r.a, r.v) : \E c \in cur : c.e = e /\ c.a = r.a /\ c.v = r.v

\* The log is append-only: a step removes rows of noHistory attributes only, and
\* the rows it adds are newer than every committed transaction.
AppendOnly ==
    [][/\ \A r \in log \ log' : r.a \in NoHistory
       /\ \A r \in log' \ log : \A t \in transactions : t < r.tx]_log

Committing == transactions' # transactions

\* When a transaction commits, what it asserted and did not also retract is live.
CommittedAssertionsLive ==
    [][Committing => \A i \in kept : adds[i] \in rets \/ IsLive(cur', adds[i])]_vars

\* When a transaction commits, what it retracted is not live.
CommittedRetractionsGone ==
    [][Committing => \A t \in rets : ~IsLive(cur', t)]_vars

\* A noHistory cardinality-one attribute keeps at most one assertion per entity
\* in the log: prune_no_history_ea removes the earlier ones.
NoHistoryKeepsOneAssertion ==
    \A r, s \in log :
        (/\ r.added /\ s.added /\ r.e = s.e /\ r.a = s.a
         /\ r.a \in NoHistory \ CardMany) => r = s

\* Upsert resolution leaves all assertions of one identity value, as it was written,
\* about one entity, however many tempids and ids they were written with, unless
\* the owners that Phase A finds lead from an entity back to itself.
UpsertsUnified ==
    [][(pc = "expand" /\ pc' = "insert" /\ Acyclic(PhaseA(wlog, adds))) =>
        \A i, j \in DOMAIN adds :
            (/\ adds[i].a \in UniqueIdentity
             /\ adds[i].a = adds[j].a /\ adds[i].v = adds[j].v) => adds'[i].e = adds'[j].e]_vars

\* A committed :db/retractEntity leaves no datom of the entity live but those
\* the same transaction asserts.  The transaction asserts no identity value: upsert
\* resolution may remap the pending retractions along with the assertions, and
\* then they are about the owner of the value, not about the entity given.
RetractEntityClears ==
    [][(Committing /\ \A j \in DOMAIN adds : adds[j].a \notin UniqueIdentity) =>
        \A i \in DOMAIN ops :
            (ops[i].f = "retractEntity" /\ ops[i].e.p = "id") =>
                \A c \in cur' : c.e = ops[i].e.id => \E j \in kept : adds[j] = Key(c)]_vars

-----------------------------------------------------------------------------
(* What the store promises *)

\* The running call as a request: what it asserts and does not also retract.
Requested ==
    IF pc # "insert" THEN [st |-> "none", tx |-> 0, asserts |-> {}, retracts |-> {}]
    ELSE [st |-> "some", tx |-> txid, asserts |-> {adds[i] : i \in kept} \ rets, retracts |-> rets]

Promise ==
    INSTANCE Store WITH live <- {Key(c) : c \in cur},
                        history <- {r \in log : r.a \notin NoHistory},
                        request <- Requested

\* The statements of a call, from the checks of each datom to the batch and the
\* maintenance of the projection, amount to one step of the abstract store: the
\* call's assertions and retractions take effect together, replaced values
\* included, or the call leaves no trace.
ImplementsStore == Promise!StoreSpec

-----------------------------------------------------------------------------
(* What comments and documents say, and the code does not do *)

\* After upsert resolution every identity value is asserted on its owner in the
\* store, if it has one, so the unique check that follows cannot fail for it.
UpsertsFindOwner ==
    (pc = "insert" /\ k = 1) =>
        \A i \in DOMAIN adds :
            adds[i].a \in UniqueIdentity => Owners(wlog, adds[i].a, adds[i].v) \subseteq {adds[i].e}

\* An entity id written as a literal is the entity of the committed datom.
LiteralIdsKept ==
    [][Committing =>
        \A i \in DOMAIN ops :
            (ops[i].f = "add" /\ ops[i].e.p = "id") =>
                \E j \in DOMAIN adds :
                    adds[j].e = ops[i].e.id /\ adds[j].a = ops[i].a]_vars

\* A datom that a committed transaction retracts and asserts again is live.
ReassertedLive ==
    [][Committing => \A i \in kept : IsLive(cur', adds[i])]_vars

\* The tx-data of the report lists every datom the transaction wrote, the
\* implicit retractions of cardinality-one replacement included.
TxDataComplete == [][Committing => rows \subseteq TxData]_vars

\* A committed transaction of :db/retractEntity alone removes datoms only of the
\* entity and of its current components.
RetractsCurrentComponents ==
    [][(Committing /\ Len(ops) = 1 /\ ops[1].f = "retractEntity") =>
        \A c \in cur \ cur' :
            c.e \in ComponentClosure({AtTx(Asserted(d), d.tx) : d \in cur}, Resolve(ops[1].e))]_vars

\* The log holds exactly the current value of a noHistory attribute.
NoHistoryKeepsCurrentOnly ==
    \A r \in log : r.a \in NoHistory => IsLive(cur, r)

=============================================================================
