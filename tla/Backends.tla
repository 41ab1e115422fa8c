------------------------------ MODULE Backends ------------------------------
(***************************************************************************)
(* mentat_transact on several connections at once, under READ COMMITTED:   *)
(* the isolation level is never raised.  A step is one SQL statement, or   *)
(* one row of a DELETE or an upsert, because those wait for each other row *)
(* by row.  Transactions assert, retract and compare-and-swap on entity    *)
(* ids; tempids, upserts, noHistory and components are in Transact.        *)
(*                                                                         *)
(* What PostgreSQL does is modelled as far as the statements depend on it: *)
(* a statement sees what was committed when it started, a write to a row   *)
(* another open transaction has written waits for that transaction, an     *)
(* advisory lock is held to the end of the transaction, and a transaction  *)
(* in a cycle of waits is aborted.                                         *)
(***************************************************************************)
EXTENDS Datoms, Sequences

CONSTANTS
    Backend,     \* the connections
    TxOps,       \* the transactions clients submit: sequences of operations
    Nil,         \* EDN nil, the expected value of a compare-and-swap
    LockKey,     \* a ^ hash(v): the advisory lock of a unique (a, v)
    CacheSize,   \* ids a connection takes from the sequence at a time
    MaxTx        \* bound: the number of transaction ids handed out

VARIABLES
    log,            \* committed rows of the log
    cur,            \* committed rows of the projection
    transactions,   \* committed rows of mentat.transactions
    txSeq,          \* last value any connection took from partition_tx_seq
    cached,         \* ids each connection has taken and not used
    pc, txid,
    ops, k,         \* the call's operations and its position in ops or adds
    adds, rets,     \* pending assertions and retractions
    rows,           \* rows_to_insert
    locks,          \* advisory locks held
    todo,           \* keys the running DELETE or upsert has still to visit
    deleted,        \* keys deleted from the projection, not yet committed
    upserted        \* keys upserted into the projection, not yet committed

dbVars == <<log, cur, transactions>>
seqVars == <<txSeq, cached>>
txVars == <<pc, txid, ops, k, adds, rets, rows, locks, todo, deleted, upserted>>
vars == <<dbVars, seqVars, txVars>>

Op ==
    [f : {"add", "retract"}, e : Entity, a : Attr, v : Value]
        \cup [f : {"cas"}, e : Entity, a : Attr, old : Value \cup {Nil}, v : Value]

ASSUME BackendsAssumption ==
    /\ UniqueIdentity = {} /\ NoHistory = {}
    /\ TxOps \subseteq Seq(Op)
    /\ CacheSize \in Nat \ {0}
    /\ MaxTx \in Nat

ASSUME LockKeyAssumption == LockKey \in [Attr \X Value -> Int]

TripleOf(op) == [e |-> op.e, a |-> op.a, v |-> op.v]

-----------------------------------------------------------------------------
(* The beginning and the end of a call *)

Init ==
    /\ log = {} /\ cur = {} /\ transactions = {}
    /\ txSeq = 0 /\ cached = [b \in Backend |-> {}]
    /\ pc = [b \in Backend |-> "idle"] /\ txid = [b \in Backend |-> 0]
    /\ ops = [b \in Backend |-> <<>>] /\ k = [b \in Backend |-> 0]
    /\ adds = [b \in Backend |-> <<>>] /\ rets = [b \in Backend |-> {}]
    /\ rows = [b \in Backend |-> {}] /\ locks = [b \in Backend |-> {}]
    /\ todo = [b \in Backend |-> {}]
    /\ deleted = [b \in Backend |-> {}] /\ upserted = [b \in Backend |-> {}]

\* The ids a connection can use: what it has cached, or the next CacheSize ids.
Available(b) ==
    IF cached[b] # {} THEN cached[b] ELSE (txSeq + 1)..(txSeq + CacheSize)

\* Mutant: the sequence advances by one id while a connection caches several.
BeginAdvancesByOne(b, program) ==
    /\ pc[b] = "idle"
    /\ \E t \in Available(b) :
          /\ t <= MaxTx
          /\ \A u \in Available(b) : t <= u
          /\ txid' = [txid EXCEPT ![b] = t]
          /\ cached' = [cached EXCEPT ![b] = Available(b) \ {t}]
    /\ txSeq' = IF cached[b] = {} THEN txSeq + 1 ELSE txSeq
    /\ pc' = [pc EXCEPT ![b] = "expand"]
    /\ ops' = [ops EXCEPT ![b] = program]
    /\ k' = [k EXCEPT ![b] = 1]
    /\ UNCHANGED <<dbVars, adds, rets, rows, locks, todo, deleted, upserted>>

\* allocate_tx_id: nextval of a sequence with CACHE.
Begin(b, program) ==
    /\ pc[b] = "idle"
    /\ \E t \in Available(b) :
          /\ t <= MaxTx
          /\ \A u \in Available(b) : t <= u
          /\ txid' = [txid EXCEPT ![b] = t]
          /\ cached' = [cached EXCEPT ![b] = Available(b) \ {t}]
    /\ txSeq' = IF cached[b] = {} THEN txSeq + CacheSize ELSE txSeq
    /\ pc' = [pc EXCEPT ![b] = "expand"]
    /\ ops' = [ops EXCEPT ![b] = program]
    /\ k' = [k EXCEPT ![b] = 1]
    /\ UNCHANGED <<dbVars, adds, rets, rows, locks, todo, deleted, upserted>>

\* The end of a transaction frees what it held; forget is what other open
\* statements no longer find.
EndTx(b, forget) ==
    /\ pc' = [pc EXCEPT ![b] = "idle"]
    /\ txid' = [txid EXCEPT ![b] = 0]
    /\ ops' = [ops EXCEPT ![b] = <<>>]
    /\ k' = [k EXCEPT ![b] = 0]
    /\ adds' = [adds EXCEPT ![b] = <<>>]
    /\ rets' = [rets EXCEPT ![b] = {}]
    /\ rows' = [rows EXCEPT ![b] = {}]
    /\ locks' = [locks EXCEPT ![b] = {}]
    /\ deleted' = [deleted EXCEPT ![b] = {}]
    /\ upserted' = [upserted EXCEPT ![b] = {}]
    /\ todo' = [c \in Backend |->
                   IF c = b THEN {}
                   ELSE IF pc[c] = "delete" THEN todo[c] \ forget ELSE todo[c]]

Fail(b) == EndTx(b, {}) /\ UNCHANGED <<dbVars, seqVars>>

Cancel(b) == pc[b] # "idle" /\ Fail(b)

\* A closed connection takes its cached ids with it.
Disconnect(b) ==
    /\ EndTx(b, {})
    /\ cached' = [cached EXCEPT ![b] = {}]
    /\ UNCHANGED <<dbVars, txSeq>>

-----------------------------------------------------------------------------
(* Pass 2 *)

Expanding(b, f) == pc[b] = "expand" /\ k[b] <= Len(ops[b]) /\ ops[b][k[b]].f = f

NextOp(b) ==
    /\ k' = [k EXCEPT ![b] = k[b] + 1]
    /\ UNCHANGED <<dbVars, seqVars, pc, txid, ops, rows, locks, todo, deleted, upserted>>

ExpandAdd(b) ==
    /\ Expanding(b, "add")
    /\ adds' = [adds EXCEPT ![b] = Append(adds[b], TripleOf(ops[b][k[b]]))]
    /\ NextOp(b)
    /\ UNCHANGED rets

ExpandRetract(b) ==
    /\ Expanding(b, "retract")
    /\ rets' = [rets EXCEPT ![b] = rets[b] \cup {TripleOf(ops[b][k[b]])}]
    /\ NextOp(b)
    /\ UNCHANGED adds

\* execute_cas_fn reads the committed projection, with no lock on what it reads.
CasMatches(op) ==
    CurrentValues(cur, op.e, op.a) = IF op.old = Nil THEN {} ELSE {op.old}

ExpandCas(b) ==
    LET op == ops[b][k[b]]
    IN  /\ Expanding(b, "cas")
        /\ CasMatches(op)
        /\ adds' = [adds EXCEPT ![b] = Append(adds[b], TripleOf(op))]
        /\ rets' = [rets EXCEPT ![b] = rets[b] \cup
                       IF op.old = Nil THEN {} ELSE {[TripleOf(op) EXCEPT !.v = op.old]}]
        /\ NextOp(b)

CasFails(b) == Expanding(b, "cas") /\ ~CasMatches(ops[b][k[b]]) /\ Fail(b)

StartInsert(b) ==
    /\ pc[b] = "expand"
    /\ k[b] > Len(ops[b])
    /\ pc' = [pc EXCEPT ![b] = "insert"]
    /\ k' = [k EXCEPT ![b] = 1]
    /\ rows' = [rows EXCEPT ![b] = {Retracted(t) : t \in rets[b]}]
    /\ UNCHANGED <<dbVars, seqVars, txid, ops, adds, rets, locks, todo, deleted, upserted>>

-----------------------------------------------------------------------------
(* insert_datoms: validate, lock, check and read, one statement at a time *)

Datom(b) == adds[b][k[b]]

Inserting(b) == pc[b] = "insert" /\ k[b] <= Len(adds[b])

ValidInTx(b, d) ==
    /\ d.v \in Typed(d.a)
    /\ d.a \notin CardMany =>
          \A i, j \in DOMAIN adds[b] :
              (/\ adds[b][i].e = d.e /\ adds[b][i].a = d.a
               /\ adds[b][j].e = d.e /\ adds[b][j].a = d.a) => i = j
    /\ d.a \in UniqueAttr =>
          \A i \in DOMAIN adds[b] :
              (adds[b][i].a = d.a /\ adds[b][i].v = d.v) => adds[b][i].e = d.e

Reject(b) == Inserting(b) /\ ~ValidInTx(b, Datom(b)) /\ Fail(b)

KeyOf(d) == LockKey[<<d.a, d.v>>]

GoTo(b, step) ==
    /\ pc' = [pc EXCEPT ![b] = step]
    /\ UNCHANGED <<dbVars, seqVars, txid, ops, k, adds, rets, rows, todo, deleted, upserted>>

\* Mutant: the check runs without the lock.
CheckWithoutLock(b) ==
    /\ Inserting(b)
    /\ ValidInTx(b, Datom(b))
    /\ Datom(b).a \in UniqueAttr
    /\ GoTo(b, "check")
    /\ UNCHANGED locks

\* pg_advisory_xact_lock waits for the holder's transaction to end.
AcquireLock(b) ==
    /\ Inserting(b)
    /\ ValidInTx(b, Datom(b))
    /\ Datom(b).a \in UniqueAttr
    /\ \A c \in Backend \ {b} : KeyOf(Datom(b)) \notin locks[c]
    /\ locks' = [locks EXCEPT ![b] = locks[b] \cup {KeyOf(Datom(b))}]
    /\ GoTo(b, "check")

SkipLock(b) ==
    /\ Inserting(b)
    /\ ValidInTx(b, Datom(b))
    /\ Datom(b).a \notin UniqueAttr
    /\ GoTo(b, "read")
    /\ UNCHANGED locks

\* check_unique_typed_value, a new statement, runs with the lock held.
CheckUnique(b) ==
    /\ pc[b] = "check"
    /\ Owners(log, Datom(b).a, Datom(b).v) \subseteq {Datom(b).e}
    /\ GoTo(b, "read")
    /\ UNCHANGED locks

CheckFails(b) ==
    /\ pc[b] = "check"
    /\ ~(Owners(log, Datom(b).a, Datom(b).v) \subseteq {Datom(b).e})
    /\ Fail(b)

NextDatom(b) ==
    /\ pc' = [pc EXCEPT ![b] = "insert"]
    /\ k' = [k EXCEPT ![b] = k[b] + 1]
    /\ UNCHANGED <<dbVars, seqVars, txid, ops, adds, rets, locks, todo, deleted, upserted>>

\* The rows an assertion adds: none when it is already live, the assertion when
\* nothing is replaced, and the retraction of one value that it replaces.
Batches(d) ==
    LET current == {ReadBack[v] : v \in CurrentValues(cur, d.e, d.a)}
    IN  IF d.a \in CardMany
        THEN {IF IsLive(cur, d) THEN {} ELSE {Asserted(d)}}
        ELSE IF current = {} THEN {{Asserted(d)}}
        ELSE {IF old = d.v THEN {} ELSE {Retracted([d EXCEPT !.v = old]), Asserted(d)} :
                 old \in current}

ReadCurrent(b) ==
    /\ pc[b] = "read"
    /\ \E batch \in Batches(Datom(b)) : rows' = [rows EXCEPT ![b] = rows[b] \cup batch]
    /\ NextDatom(b)

-----------------------------------------------------------------------------
(* batch_insert_datoms and maintain_current_projection *)

Inserted(b) == pc[b] = "insert" /\ k[b] > Len(adds[b])

BatchFails(b) == Inserted(b) /\ BatchConflict(rows[b]) /\ Fail(b)

\* The rows of the log carry the transaction id in their key and meet no other
\* row.  The DELETE that follows visits the retracted keys it finds when it
\* starts.
InsertBatch(b) ==
    /\ Inserted(b)
    /\ ~BatchConflict(rows[b])
    /\ pc' = [pc EXCEPT ![b] = "delete"]
    /\ todo' = [todo EXCEPT ![b] = {Key(r) : r \in {s \in rows[b] : ~s.added /\ IsLive(cur, s)}}]
    /\ UNCHANGED <<dbVars, seqVars, txid, ops, k, adds, rets, rows, locks, deleted, upserted>>

\* No other open transaction has written the row.
Unlocked(b, key) == \A c \in Backend \ {b} : key \notin deleted[c] \cup upserted[c]

DeleteRow(b, key) ==
    /\ pc[b] = "delete"
    /\ Unlocked(b, key)
    /\ todo' = [todo EXCEPT ![b] = todo[b] \ {key}]
    /\ deleted' = [deleted EXCEPT ![b] = deleted[b] \cup {key}]
    /\ UNCHANGED <<dbVars, seqVars, pc, txid, ops, k, adds, rets, rows, locks, upserted>>

\* Mutant: the upsert takes the retractions of the batch too.
StartUpsertOfAll(b) ==
    /\ pc[b] = "delete"
    /\ todo[b] = {}
    /\ pc' = [pc EXCEPT ![b] = "upsert"]
    /\ todo' = [todo EXCEPT ![b] = {Key(r) : r \in rows[b]}]
    /\ UNCHANGED <<dbVars, seqVars, txid, ops, k, adds, rets, rows, locks, deleted, upserted>>

StartUpsert(b) ==
    /\ pc[b] = "delete"
    /\ todo[b] = {}
    /\ pc' = [pc EXCEPT ![b] = "upsert"]
    /\ todo' = [todo EXCEPT ![b] = {Key(r) : r \in {s \in rows[b] : s.added}}]
    /\ UNCHANGED <<dbVars, seqVars, txid, ops, k, adds, rets, rows, locks, deleted, upserted>>

UpsertRow(b, key) ==
    /\ pc[b] = "upsert"
    /\ Unlocked(b, key)
    /\ todo' = [todo EXCEPT ![b] = todo[b] \ {key}]
    /\ upserted' = [upserted EXCEPT ![b] = upserted[b] \cup {key}]
    /\ UNCHANGED <<dbVars, seqVars, pc, txid, ops, k, adds, rets, rows, locks, deleted>>

Commit(b) ==
    /\ pc[b] = "upsert"
    /\ todo[b] = {}
    /\ log' = BatchInsert(log, rows[b], txid[b])
    /\ cur' = {c \in cur : Key(c) \notin deleted[b] \cup upserted[b]}
                 \cup {CurAt(t, txid[b]) : t \in upserted[b]}
    /\ transactions' = transactions \cup {txid[b]}
    /\ EndTx(b, deleted[b])
    /\ UNCHANGED seqVars

-----------------------------------------------------------------------------
(* Waiting *)

\* b cannot go on before c's transaction ends.
WaitsFor(b, c) ==
    \/ /\ Inserting(b)
       /\ ValidInTx(b, Datom(b))
       /\ Datom(b).a \in UniqueAttr
       /\ KeyOf(Datom(b)) \in locks[c]
    \/ /\ pc[b] \in {"delete", "upsert"}
       /\ todo[b] # {}
       /\ todo[b] \subseteq UNION {deleted[d] \cup upserted[d] : d \in Backend \ {b}}
       /\ todo[b] \cap (deleted[c] \cup upserted[c]) # {}

\* Mutant: a transaction waits for ever.
DeadlockIgnored(b) == FALSE

\* PostgreSQL aborts a transaction that waits in a cycle.  Its error unwinds the
\* call; the retry loop of execute_transaction_body sees returned errors only.
DeadlockDetected(b) ==
    /\ \E S \in SUBSET Backend :
          /\ b \in S
          /\ \A c \in S : \E d \in S \ {c} : WaitsFor(c, d)
    /\ Fail(b)

Step(b) ==
    \/ ExpandAdd(b)
    \/ ExpandRetract(b)
    \/ ExpandCas(b)
    \/ CasFails(b)
    \/ StartInsert(b)
    \/ Reject(b)
    \/ AcquireLock(b)
    \/ SkipLock(b)
    \/ CheckUnique(b)
    \/ CheckFails(b)
    \/ ReadCurrent(b)
    \/ BatchFails(b)
    \/ InsertBatch(b)
    \/ \E key \in todo[b] : DeleteRow(b, key)
    \/ StartUpsert(b)
    \/ \E key \in todo[b] : UpsertRow(b, key)
    \/ Commit(b)
    \/ DeadlockDetected(b)

Next ==
    \E b \in Backend :
        \/ \E program \in TxOps : Begin(b, program)
        \/ Step(b)
        \/ Cancel(b)
        \/ Disconnect(b)

Spec == Init /\ [][Next]_vars

\* A running statement proceeds when it can, and a deadlock is detected.
FairSpec == Spec /\ \A b \in Backend : WF_vars(Step(b))

-----------------------------------------------------------------------------
(* Properties *)

\* Every variable has its type, and a unique check or a read is about a pending
\* assertion.
TypeOK ==
    /\ log \subseteq LogRow /\ cur \subseteq CurRow /\ transactions \subseteq Nat
    /\ txSeq \in Nat /\ cached \in [Backend -> SUBSET Nat]
    /\ pc \in [Backend -> {"idle", "expand", "insert", "check", "read", "delete", "upsert"}]
    /\ txid \in [Backend -> Nat]
    /\ ops \in [Backend -> Seq(Op)]
    /\ k \in [Backend -> Nat] /\ \A b \in Backend : pc[b] # "idle" => k[b] > 0
    /\ adds \in [Backend -> Seq(Triple)]
    /\ \A b \in Backend : pc[b] \in {"check", "read"} => k[b] <= Len(adds[b])
    /\ rets \in [Backend -> SUBSET Triple]
    /\ rows \in [Backend -> SUBSET Row]
    /\ locks \in [Backend -> SUBSET Int]
    /\ todo \in [Backend -> SUBSET Triple]
    /\ deleted \in [Backend -> SUBSET Triple]
    /\ upserted \in [Backend -> SUBSET Triple]

\* No two entities were ever given the same value of a unique attribute, however
\* the connections interleave: the lock is held from the check to the commit.
UniqueValues ==
    \A r, s \in log :
        (r.added /\ s.added /\ r.a = s.a /\ r.v = s.v /\ r.a \in UniqueAttr) => r.e = s.e

\* Two transactions never get one id, whatever connections cache and lose.
TxIdsUnique ==
    \A b \in Backend : pc[b] # "idle" =>
        /\ txid[b] \notin transactions
        /\ \A c \in Backend \ {b} : txid[c] # txid[b] /\ txid[b] \notin cached[c]

\* A live datom is an assertion of the log, with the transaction that made it
\* or renewed it: the projection never shows what nobody committed.
ProjectionIsAsserted ==
    \A c \in cur : \E r \in log : r.added /\ Key(r) = Key(c) /\ r.tx = c.tx

\* Every transaction ends: waits on advisory locks and on rows of the projection
\* are resolved by the holder's end or by deadlock detection.
TransactionsEnd == \A b \in Backend : pc[b] # "idle" ~> pc[b] = "idle"

-----------------------------------------------------------------------------
(* What comments and documents say, and the code does not do *)

\* verify_current_projection returns 0: the projection and the resolution of the
\* log agree on what is live.
ProjectionMatchesLog ==
    {Key(c) : c \in cur} = {Key(c) : c \in Rebuilt(log)}

\* A cardinality-one attribute has at most one live value per entity.
CardinalityOne ==
    \A c, d \in cur : (c.e = d.e /\ c.a = d.a /\ c.a \notin CardMany) => c.v = d.v

\* A compare-and-swap that commits replaces the value it compared.
CasAtomic ==
    [][\A b \in Backend :
          (transactions' # transactions /\ txid'[b] # txid[b]) =>
              \A i \in DOMAIN ops[b] :
                  ops[b][i].f = "cas" => CasMatches(ops[b][i])]_vars

\* The state of the store as of a committed transaction never changes.
AsOfStable ==
    [][\A t \in transactions :
          {r \in log' : r.tx <= t} = {r \in log : r.tx <= t}]_vars

=============================================================================
