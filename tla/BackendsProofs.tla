--------------------------- MODULE BackendsProofs ---------------------------
(***************************************************************************)
(* Proofs about Backends for any number of connections, any schema of its  *)
(* kind, any transactions and any hash of unique values: type correctness, *)
(* distinct transaction ids, and unique values with one owner.             *)
(***************************************************************************)
EXTENDS Backends, TLAPS

-----------------------------------------------------------------------------
(* Type correctness *)

\* The types of one connection's variables.
LEMMA AtBackend ==
    ASSUME TypeOK, NEW b \in Backend
    PROVE  /\ ops[b] \in Seq(Op) /\ k[b] \in Nat /\ adds[b] \in Seq(Triple)
           /\ rets[b] \subseteq Triple /\ rows[b] \subseteq Row /\ locks[b] \subseteq Int
           /\ todo[b] \subseteq Triple /\ deleted[b] \subseteq Triple
           /\ upserted[b] \subseteq Triple /\ cached[b] \subseteq Nat
           /\ pc[b] # "idle" => k[b] > 0
           /\ pc[b] \in {"check", "read"} => k[b] <= Len(adds[b])
BY Zenon DEF TypeOK

\* The datom a connection inserts.
LEMMA CurrentDatom ==
    ASSUME TypeOK, NEW b \in Backend, Inserting(b) \/ pc[b] \in {"check", "read"}
    PROVE  k[b] \in DOMAIN adds[b] /\ Datom(b) \in Triple
<1>1. adds[b] \in Seq(Triple) /\ k[b] \in 1..Len(adds[b])
  BY AtBackend DEF Inserting
<1> QED
  BY <1>1 DEF Datom

\* The datom of an operation is well typed.
LEMMA TripleOfType ==
    ASSUME NEW op \in Op
    PROVE  TripleOf(op) \in Triple
BY Zenon DEF TripleOf, Op, Triple

\* The operation and the datom a connection stands at.
LEMMA CurrentOp ==
    ASSUME TypeOK, NEW b \in Backend, NEW f, Expanding(b, f)
    PROVE  ops[b][k[b]] \in Op /\ ops[b][k[b]].f = f
<1>1. ops[b] \in Seq(Op) /\ k[b] \in 1..Len(ops[b])
  BY AtBackend DEF Expanding
<1> QED
  BY <1>1 DEF Expanding

\* The rows an assertion adds are well typed.
LEMMA BatchesType ==
    ASSUME TypeOK, NEW d \in Triple, NEW batch \in Batches(d)
    PROVE  batch \subseteq Row
<1>1. Asserted(d) \in Row
  BY Zenon DEF Asserted, Row, Triple
<1>2. ASSUME NEW old \in {ReadBack[v] : v \in CurrentValues(cur, d.e, d.a)}
      PROVE  Retracted([d EXCEPT !.v = old]) \in Row
  <2>1. old \in Value
    BY ReadBackAssumption DEF CurrentValues, CurRow, TypeOK
  <2> QED
    BY Zenon, <2>1 DEF Retracted, Row, Triple
<1>3. CASE d.a \in CardMany
  BY Zenon, <1>1, <1>3 DEF Batches
<1>4. CASE d.a \notin CardMany
  BY <1>1, <1>2, <1>4, Zenon DEF Batches
<1> QED
  BY Zenon, <1>3, <1>4

\* The end of a transaction keeps the types.
LEMMA EndTxType ==
    ASSUME TypeOK, NEW b \in Backend, NEW forget, EndTx(b, forget)
    PROVE  /\ pc' \in [Backend -> {"idle", "expand", "insert", "check", "read", "delete", "upsert"}]
           /\ txid' \in [Backend -> Nat]
           /\ ops' \in [Backend -> Seq(Op)]
           /\ k' \in [Backend -> Nat] /\ \A c \in Backend : pc'[c] # "idle" => k'[c] > 0
           /\ adds' \in [Backend -> Seq(Triple)]
           /\ \A c \in Backend : pc'[c] \in {"check", "read"} => k'[c] <= Len(adds'[c])
           /\ rets' \in [Backend -> SUBSET Triple]
           /\ rows' \in [Backend -> SUBSET Row]
           /\ locks' \in [Backend -> SUBSET Int]
           /\ todo' \in [Backend -> SUBSET Triple]
           /\ deleted' \in [Backend -> SUBSET Triple]
           /\ upserted' \in [Backend -> SUBSET Triple]
<1>1. <<>> \in Seq(Op) /\ <<>> \in Seq(Triple)
  OBVIOUS
<1>2. todo' \in [Backend -> SUBSET Triple]
  BY Zenon DEF EndTx, TypeOK
<1> QED
  BY Zenon, <1>1, <1>2 DEF EndTx, TypeOK

\* A step of b changes nothing of what another connection has pending.
OthersKept(b) ==
    \A c \in Backend \ {b} :
        /\ pc'[c] = pc[c] /\ k'[c] = k[c] /\ adds'[c] = adds[c]
        /\ rows'[c] = rows[c] /\ locks'[c] = locks[c]

\* The end of a transaction frees what it held, and nothing else.
LEMMA EndTxEffect ==
    ASSUME TypeOK, NEW b \in Backend, NEW forget, EndTx(b, forget)
    PROVE  /\ pc'[b] = "idle" /\ rows'[b] = {} /\ locks'[b] = {} /\ upserted'[b] = {}
           /\ OthersKept(b)
           /\ \A c \in Backend \ {b} : upserted'[c] = upserted[c] /\ todo'[c] \subseteq todo[c]
<1>1. pc'[b] = "idle" /\ rows'[b] = {} /\ locks'[b] = {} /\ upserted'[b] = {}
  BY Zenon DEF EndTx, TypeOK
<1>2. OthersKept(b)
  BY Zenon DEF EndTx, OthersKept, TypeOK
<1>3. \A c \in Backend \ {b} : upserted'[c] = upserted[c] /\ todo'[c] \subseteq todo[c]
  BY Zenon DEF EndTx, TypeOK
<1> QED
  BY Zenon, <1>1, <1>2, <1>3

\* A step of any connection keeps every variable in its type.
LEMMA TypeStep ==
    ASSUME TypeOK, [Next]_vars
    PROVE  TypeOK'
<1>1. ASSUME NEW b \in Backend, NEW program \in TxOps, Begin(b, program)
      PROVE  TypeOK'
  <2>1. program \in Seq(Op)
    BY Zenon, BackendsAssumption
  <2>2. Available(b) \subseteq Nat /\ CacheSize \in Nat
    BY BackendsAssumption DEF Available, TypeOK
  <2>3. cached' \in [Backend -> SUBSET Nat] /\ txid' \in [Backend -> Nat]
    BY ZenonT(30), <1>1, <2>2 DEF Begin, TypeOK
  <2> QED
    BY <1>1, <2>1, <2>2, <2>3, SMTT(30) DEF Begin, TypeOK, dbVars
<1>2. ASSUME NEW b \in Backend, Fail(b)
      PROVE  TypeOK'
  BY Zenon, <1>2, EndTxType DEF Fail, TypeOK, dbVars, seqVars
<1>3. ASSUME NEW b \in Backend, Disconnect(b)
      PROVE  TypeOK'
  BY Zenon, <1>3, EndTxType DEF Disconnect, TypeOK, dbVars
<1>4. ASSUME NEW b \in Backend, ExpandAdd(b)
      PROVE  TypeOK'
  <2>1. TripleOf(ops[b][k[b]]) \in Triple
    BY Zenon, <1>4, CurrentOp, TripleOfType DEF ExpandAdd
  <2>2. adds' \in [Backend -> Seq(Triple)]
    BY <1>4, <2>1 DEF ExpandAdd, TypeOK
  <2> QED
    BY <1>4, <2>2 DEF ExpandAdd, NextOp, TypeOK, dbVars, seqVars
<1>5. ASSUME NEW b \in Backend, ExpandRetract(b)
      PROVE  TypeOK'
  <2>1. TripleOf(ops[b][k[b]]) \in Triple
    BY Zenon, <1>5, CurrentOp, TripleOfType DEF ExpandRetract
  <2>2. rets' \in [Backend -> SUBSET Triple]
    BY Zenon, <1>5, <2>1 DEF ExpandRetract, TypeOK
  <2> QED
    BY <1>5, <2>2 DEF ExpandRetract, Expanding, NextOp, TypeOK, dbVars, seqVars
<1>6. ASSUME NEW b \in Backend, ExpandCas(b)
      PROVE  TypeOK'
  <2> DEFINE op == ops[b][k[b]]
             swapped == IF op.old = Nil THEN {} ELSE {[TripleOf(op) EXCEPT !.v = op.old]}
  <2>1. op \in Op /\ op.f = "cas" /\ TripleOf(op) \in Triple
    BY Zenon, <1>6, CurrentOp, TripleOfType DEF ExpandCas
  <2>2. op.old \in Value \cup {Nil}
    BY Zenon, <2>1 DEF Op
  <2>3. swapped \subseteq Triple
    BY Zenon, <2>1, <2>2 DEF Triple
  <2>4. /\ adds' = [adds EXCEPT ![b] = Append(adds[b], TripleOf(op))]
        /\ rets' = [rets EXCEPT ![b] = rets[b] \cup swapped]
        /\ NextOp(b)
    BY Zenon, <1>6 DEF ExpandCas
  <2> HIDE DEF swapped
  <2>5. adds' \in [Backend -> Seq(Triple)]
    BY <2>1, <2>4 DEF TypeOK
  <2>6. rets' \in [Backend -> SUBSET Triple]
    BY Zenon, <2>3, <2>4 DEF TypeOK
  <2> QED
    BY <2>4, <2>5, <2>6, SMTT(30) DEF NextOp, TypeOK, dbVars, seqVars
<1>7. ASSUME NEW b \in Backend, StartInsert(b)
      PROVE  TypeOK'
  <2>1. {Retracted(t) : t \in rets[b]} \subseteq Row
    <3>1. ASSUME NEW t \in Triple
          PROVE  Retracted(t) \in Row
      BY Zenon DEF Retracted, Row, Triple
    <3> QED
      BY Zenon, <3>1, AtBackend
  <2>2. rows' \in [Backend -> SUBSET Row]
    BY Zenon, <1>7, <2>1 DEF StartInsert, TypeOK
  <2> QED
    BY <1>7, <2>2 DEF StartInsert, TypeOK, dbVars, seqVars
<1>8. ASSUME NEW b \in Backend, AcquireLock(b)
      PROVE  TypeOK'
  <2>1. Datom(b) \in Triple
    BY Zenon, <1>8, CurrentDatom DEF AcquireLock
  <2>2. KeyOf(Datom(b)) \in Int
    BY Zenon, <2>1, LockKeyAssumption DEF KeyOf, Triple
  <2>3. locks' \in [Backend -> SUBSET Int]
    BY Zenon, <1>8, <2>2 DEF AcquireLock, TypeOK
  <2> QED
    BY Zenon, <1>8, <2>3 DEF AcquireLock, Inserting, GoTo, TypeOK, dbVars, seqVars
<1>9. ASSUME NEW b \in Backend, SkipLock(b) \/ CheckUnique(b)
      PROVE  TypeOK'
  BY <1>9, Zenon DEF SkipLock, CheckUnique, Inserting, GoTo, TypeOK, dbVars, seqVars
<1>11. ASSUME NEW b \in Backend, InsertBatch(b)
      PROVE  TypeOK'
  <2>1. todo' \in [Backend -> SUBSET Triple]
    BY <1>11 DEF InsertBatch, TypeOK, Key, Row, Triple
  <2> QED
    BY Zenon, <1>11, <2>1 DEF InsertBatch, Inserted, TypeOK, dbVars, seqVars
<1>12. ASSUME NEW b \in Backend, NEW key \in todo[b], DeleteRow(b, key)
      PROVE  TypeOK'
  <2>1. key \in Triple
    BY Zenon, AtBackend
  <2> QED
    BY Zenon, <1>12, <2>1 DEF DeleteRow, TypeOK, dbVars, seqVars
<1>10. ASSUME NEW b \in Backend, NEW key \in todo[b], UpsertRow(b, key)
      PROVE  TypeOK'
  <2>1. key \in Triple
    BY Zenon, AtBackend
  <2> QED
    BY Zenon, <1>10, <2>1 DEF UpsertRow, TypeOK, dbVars, seqVars
<1>13. ASSUME NEW b \in Backend, StartUpsert(b)
      PROVE  TypeOK'
  <2>1. todo' \in [Backend -> SUBSET Triple]
    BY <1>13 DEF StartUpsert, TypeOK, Key, Row, Triple
  <2> QED
    BY Zenon, <1>13, <2>1 DEF StartUpsert, TypeOK, dbVars, seqVars
<1>14. ASSUME NEW b \in Backend, Commit(b)
      PROVE  TypeOK'
  <2>1. log' \subseteq LogRow
    BY <1>14 DEF Commit, BatchInsert, AtTx, LogRow, Row, TypeOK
  <2>2. cur' \subseteq CurRow
    BY <1>14 DEF Commit, CurAt, CurRow, Triple, TypeOK
  <2>3. transactions' \subseteq Nat
    BY <1>14, Zenon DEF Commit, TypeOK
  <2> QED
    BY <1>14, <2>1, <2>2, <2>3, EndTxType, Zenon DEF Commit, TypeOK, seqVars
<1>15. CASE UNCHANGED vars
  BY Zenon, <1>15 DEF vars, dbVars, seqVars, txVars, TypeOK
<1>16. ASSUME NEW b \in Backend, ReadCurrent(b)
      PROVE  TypeOK'
  <2>1. Datom(b) \in Triple
    BY Zenon, <1>16, CurrentDatom DEF ReadCurrent
  <2>2. rows' \in [Backend -> SUBSET Row]
    BY <1>16, <2>1, BatchesType DEF ReadCurrent, TypeOK
  <2> QED
    BY <1>16, <2>2 DEF ReadCurrent, NextDatom, TypeOK, dbVars, seqVars
<1> QED
  BY Zenon, <1>1, <1>2, <1>3, <1>4, <1>5, <1>6, <1>7, <1>8, <1>9, <1>10, <1>11, <1>12, <1>13, <1>14, <1>15, <1>16
  DEF Next, Step, Cancel, CasFails, Reject, CheckFails, BatchFails, DeadlockDetected

\* The initial state is well typed.
LEMMA TypeInitially ==
    ASSUME Init
    PROVE  TypeOK
<1>1. <<>> \in Seq(Op) /\ <<>> \in Seq(Triple)
  OBVIOUS
<1> QED
  BY Zenon, <1>1 DEF Init, TypeOK

\* Every reachable state of the connections is well typed, for any interleaving.
THEOREM TypeCorrect == Spec => []TypeOK
BY TypeInitially, TypeStep, PTL DEF Spec

-----------------------------------------------------------------------------
(* Transaction ids *)

\* Ids come from the part of the sequence handed out so far, and no id is in two
\* of these places: committed, in use, cached.
IdInv ==
    /\ transactions \subseteq 1..txSeq
    /\ \A b \in Backend :
          /\ cached[b] \subseteq 1..txSeq
          /\ cached[b] \cap transactions = {}
          /\ \A c \in Backend \ {b} : cached[b] \cap cached[c] = {}
          /\ pc[b] = "idle" => txid[b] = 0
          /\ pc[b] # "idle" =>
                /\ txid[b] \in 1..txSeq
                /\ txid[b] \notin transactions
                /\ \A c \in Backend : txid[b] \notin cached[c]
                /\ \A c \in Backend \ {b} : txid[c] # txid[b]

\* The end of a transaction leaves IdInv, with or without a commit.
LEMMA IdEnd ==
    ASSUME TypeOK, IdInv, NEW b \in Backend, NEW forget, EndTx(b, forget), UNCHANGED txSeq,
           \/ UNCHANGED <<transactions, cached>>
           \/ /\ UNCHANGED transactions
              /\ cached' = [cached EXCEPT ![b] = {}]
           \/ /\ UNCHANGED cached
              /\ pc[b] # "idle"
              /\ transactions' = transactions \cup {txid[b]}
    PROVE  IdInv'
<1>1. /\ txSeq' = txSeq
      /\ pc' = [pc EXCEPT ![b] = "idle"]
      /\ txid' = [txid EXCEPT ![b] = 0]
  BY Zenon DEF EndTx
<1>2. /\ transactions' \subseteq transactions \cup {txid[b]}
      /\ pc[b] = "idle" => transactions' = transactions
      /\ \A c \in Backend : cached'[c] \subseteq cached[c]
  BY Zenon DEF TypeOK
<1>3. transactions' \subseteq 1..txSeq'
  BY <1>1, <1>2 DEF IdInv
<1>4. ASSUME NEW c \in Backend
      PROVE  /\ cached'[c] \subseteq 1..txSeq'
             /\ cached'[c] \cap transactions' = {}
             /\ \A d \in Backend \ {c} : cached'[c] \cap cached'[d] = {}
             /\ pc'[c] = "idle" => txid'[c] = 0
  BY <1>1, <1>2 DEF IdInv, TypeOK
<1>5. ASSUME NEW c \in Backend, pc'[c] # "idle"
      PROVE  /\ txid'[c] \in 1..txSeq'
             /\ txid'[c] \notin transactions'
             /\ \A d \in Backend : txid'[c] \notin cached'[d]
             /\ \A d \in Backend \ {c} : txid'[d] # txid'[c]
  <2>1. c # b /\ pc[c] # "idle" /\ txid'[c] = txid[c]
    BY Zenon, <1>1, <1>5 DEF TypeOK
  <2> QED
    BY <1>1, <1>2, <2>1, SMTT(30) DEF IdInv, TypeOK
<1> QED
  BY Zenon, <1>3, <1>4, <1>5 DEF IdInv

\* A new transaction takes an id that is nowhere else.
LEMMA IdBegin ==
    ASSUME TypeOK, IdInv, NEW b \in Backend, NEW program, Begin(b, program)
    PROVE  IdInv'
<1>1. PICK t \in Available(b) :
        /\ txid' = [txid EXCEPT ![b] = t]
        /\ cached' = [cached EXCEPT ![b] = Available(b) \ {t}]
  BY Zenon DEF Begin
<1>2. txSeq \in Nat /\ txSeq' \in Nat /\ txSeq <= txSeq'
  BY BackendsAssumption DEF Begin, TypeOK
<1>3. /\ Available(b) \subseteq 1..txSeq'
      /\ Available(b) \cap transactions = {}
      /\ \A c \in Backend \ {b} : Available(b) \cap cached[c] = {}
      /\ \A c \in Backend : pc[c] # "idle" => txid[c] \notin Available(b)
  <2>1. CASE cached[b] # {}
    BY Zenon, <2>1, <1>2 DEF Available, IdInv, Begin
  <2>2. CASE cached[b] = {}
    BY SMTT(30), <2>2, <1>2, BackendsAssumption DEF Available, IdInv, Begin, TypeOK
  <2> QED
    BY Zenon, <2>1, <2>2
<1>4. pc' = [pc EXCEPT ![b] = "expand"] /\ UNCHANGED transactions /\ pc[b] = "idle"
  BY Zenon DEF Begin, dbVars
<1>5. transactions' \subseteq 1..txSeq'
  BY <1>2, <1>4 DEF IdInv
<1>6. ASSUME NEW c \in Backend
      PROVE  /\ cached'[c] \subseteq 1..txSeq'
             /\ cached'[c] \cap transactions' = {}
             /\ \A d \in Backend \ {c} : cached'[c] \cap cached'[d] = {}
             /\ pc'[c] = "idle" => txid'[c] = 0
  BY <1>1, <1>2, <1>3, <1>4, SMTT(30) DEF IdInv, TypeOK
<1>7. ASSUME NEW c \in Backend, pc'[c] # "idle"
      PROVE  /\ txid'[c] \in 1..txSeq'
             /\ txid'[c] \notin transactions'
             /\ \A d \in Backend : txid'[c] \notin cached'[d]
             /\ \A d \in Backend \ {c} : txid'[d] # txid'[c]
  <2>1. t \in 1..txSeq' /\ t \notin transactions' /\ t # 0
    BY <1>1, <1>3, <1>4
  <2>2. CASE c = b
    BY <1>1, <1>3, <1>4, <2>1, <2>2 DEF IdInv, TypeOK
  <2>3. CASE c # b
    BY <1>1, <1>2, <1>3, <1>4, <1>7, <2>3 DEF IdInv, TypeOK
  <2> QED
    BY Zenon, <2>2, <2>3
<1> QED
  BY Zenon, <1>5, <1>6, <1>7 DEF IdInv

\* What a step can do to the ids: begin, end, or leave them alone.
LEMMA IdStep ==
    ASSUME TypeOK, IdInv, [Next]_vars
    PROVE  IdInv'
<1>1. ASSUME NEW b \in Backend, Fail(b)
      PROVE  IdInv'
  BY Zenon, <1>1, IdEnd DEF Fail, dbVars, seqVars
<1>2. ASSUME NEW b \in Backend, Disconnect(b)
      PROVE  IdInv'
  BY <1>2, IdEnd, Zenon DEF Disconnect, dbVars
<1>3. ASSUME NEW b \in Backend, Commit(b)
      PROVE  IdInv'
  BY Zenon, <1>3, IdEnd DEF Commit, seqVars
<1>4. ASSUME UNCHANGED <<transactions, txSeq, cached, txid>>,
             NEW b \in Backend, pc[b] # "idle", NEW s \in {"insert", "check", "read", "delete", "upsert"},
             pc' = [pc EXCEPT ![b] = s]
      PROVE  IdInv'
  BY Zenon, <1>4 DEF IdInv, TypeOK
<1>5. ASSUME UNCHANGED <<transactions, txSeq, cached, txid, pc>>
      PROVE  IdInv'
  BY Zenon, <1>5 DEF IdInv
<1>6. ASSUME NEW b \in Backend, NextOp(b)
      PROVE  IdInv'
  BY Zenon, <1>6, <1>5 DEF NextOp, dbVars, seqVars
<1>7. ASSUME NEW b \in Backend, NEW s \in {"insert", "check", "read", "delete", "upsert"}, pc[b] # "idle", GoTo(b, s)
      PROVE  IdInv'
  BY <1>7, <1>4, Zenon DEF GoTo, dbVars, seqVars
<1>8. ASSUME NEW b \in Backend,
             StartInsert(b) \/ ReadCurrent(b) \/ InsertBatch(b) \/ StartUpsert(b)
      PROVE  IdInv'
  BY Zenon, <1>8, <1>4 DEF StartInsert, ReadCurrent, NextDatom, InsertBatch, Inserted, StartUpsert,
                    dbVars, seqVars
<1>9. ASSUME NEW b \in Backend, NEW key, DeleteRow(b, key) \/ UpsertRow(b, key)
      PROVE  IdInv'
  BY Zenon, <1>9, <1>5 DEF DeleteRow, UpsertRow, dbVars, seqVars
<1>10. CASE UNCHANGED vars
  BY Zenon, <1>10, <1>5 DEF vars, dbVars, seqVars, txVars
<1>11. ASSUME NEW b \in Backend, AcquireLock(b) \/ SkipLock(b) \/ CheckUnique(b)
       PROVE  IdInv'
  BY Zenon, <1>11, <1>7 DEF AcquireLock, SkipLock, CheckUnique, Inserting
<1> QED
  BY Zenon, <1>1, <1>2, <1>3, <1>6, <1>8, <1>9, <1>10, <1>11, IdBegin
  DEF Next, Step, Cancel, CasFails, Reject, CheckFails, BatchFails, DeadlockDetected,
      ExpandAdd, ExpandRetract, ExpandCas

\* allocate_tx_id never hands one id to two transactions, however many ids the
\* connections cache, lose with a rollback or lose with the connection.
THEOREM TxIdsAreUnique == Spec => []TxIdsUnique
<1>1. Init => IdInv
  BY Zenon DEF Init, IdInv
<1>2. TypeOK /\ IdInv /\ [Next]_vars => IdInv'
  BY Zenon, IdStep
<1>3. IdInv => TxIdsUnique
  BY Zenon DEF IdInv, TxIdsUnique
<1> QED
  BY <1>1, <1>2, <1>3, TypeCorrect, PTL DEF Spec

-----------------------------------------------------------------------------
(* Unique values *)

\* b holds the lock of d's value, and nobody but d.e owns the value.
Guarded(b, d) == KeyOf(d) \in locks[b] /\ Owners(log, d.a, d.v) \subseteq {d.e}

\* The transaction of b asserts the value of d on d.e only.
Sole(b, d) ==
    \A i \in DOMAIN adds[b] : (adds[b][i].a = d.a /\ adds[b][i].v = d.v) => adds[b][i].e = d.e

\* A row b is going to write asserts one of its datoms; a unique value is guarded.
RowGuarded(b, r) ==
    /\ \E i \in DOMAIN adds[b] : r = Asserted(adds[b][i])
    /\ r.a \in UniqueAttr => Guarded(b, r) /\ Sole(b, r)

RowsInv(b) == \A r \in rows[b] : r.added => RowGuarded(b, r)

\* What b has established about the datom it stands at.
DatomInv(b) ==
    /\ (pc[b] \in {"check", "read"} /\ Datom(b).a \in UniqueAttr) =>
          KeyOf(Datom(b)) \in locks[b] /\ Sole(b, Datom(b))
    /\ (pc[b] = "read" /\ Datom(b).a \in UniqueAttr) => Guarded(b, Datom(b))

\* What one connection knows about the unique values it is going to write.
LocalInv(b) ==
    /\ pc[b] \in {"idle", "expand"} => rows[b] = {}
    /\ RowsInv(b)
    /\ DatomInv(b)

LocksDisjoint == \A b, c \in Backend : b # c => locks[b] \cap locks[c] = {}

\* The inductive strengthening of UniqueValues.
UniqueInv == UniqueValues /\ LocksDisjoint /\ \A b \in Backend : LocalInv(b)

\* What b knows of a datom or a row survives a step that changes neither the log
\* nor b's datoms and releases no lock of b.
LEMMA KnowledgeKept ==
    ASSUME NEW b \in Backend, log' = log, adds'[b] = adds[b], locks[b] \subseteq locks'[b], NEW d
    PROVE  /\ Sole(b, d) => (Sole(b, d))'
           /\ Guarded(b, d) => (Guarded(b, d))'
           /\ RowGuarded(b, d) => (RowGuarded(b, d))'
<1>1. Sole(b, d) => (Sole(b, d))'
  BY Zenon DEF Sole
<1>2. Guarded(b, d) => (Guarded(b, d))'
  BY Zenon DEF Guarded, KeyOf
<1> QED
  BY Zenon, <1>1, <1>2 DEF RowGuarded

\* The rows of b stay guarded over such a step.
LEMMA RowsKept ==
    ASSUME NEW b \in Backend, log' = log, adds'[b] = adds[b], locks[b] \subseteq locks'[b],
           rows'[b] = rows[b], RowsInv(b)
    PROVE  RowsInv(b)'
BY Zenon, KnowledgeKept DEF RowsInv

\* A step that leaves a connection alone and takes none of the values it guards
\* keeps what the connection knows.
LEMMA LocalKept ==
    ASSUME NEW c \in Backend, LocalInv(c),
           pc'[c] = pc[c], k'[c] = k[c], adds'[c] = adds[c],
           rows'[c] = rows[c], locks'[c] = locks[c],
           \A d : (d.a \in UniqueAttr /\ Guarded(c, d)) => (Guarded(c, d))'
    PROVE  LocalInv(c)'
<1>1. Datom(c)' = Datom(c)
  BY Zenon DEF Datom
<1>2. ASSUME NEW d
      PROVE  Sole(c, d) => (Sole(c, d))'
  BY Zenon DEF Sole
<1>3. RowsInv(c)'
  BY Zenon, <1>2 DEF LocalInv, RowsInv, RowGuarded
<1>4. DatomInv(c)'
  <2>1. DatomInv(c)
    BY Zenon DEF LocalInv
  <2>2. Sole(c, Datom(c)) => (Sole(c, Datom(c)))'
    BY Zenon, <1>1, <1>2 DEF Sole
  <2>3. (Datom(c).a \in UniqueAttr /\ Guarded(c, Datom(c))) => (Guarded(c, Datom(c)))'
    BY Zenon, <1>1 DEF Guarded, KeyOf
  <2> QED
    BY Zenon, <1>1, <2>1, <2>2, <2>3 DEF DatomInv, KeyOf
<1> QED
  BY Zenon, <1>3, <1>4 DEF LocalInv

\* A step that leaves the log and a connection alone keeps what it knows.
LEMMA LocalFrame ==
    ASSUME NEW c \in Backend, LocalInv(c), log' = log,
           pc'[c] = pc[c], k'[c] = k[c], adds'[c] = adds[c],
           rows'[c] = rows[c], locks'[c] = locks[c]
    PROVE  LocalInv(c)'
<1>1. ASSUME NEW d
      PROVE  Guarded(c, d) => (Guarded(c, d))'
  BY Zenon, KnowledgeKept
<1> QED
  BY Zenon, <1>1, LocalKept

\* A connection with no transaction knows nothing.
LEMMA LocalIdle ==
    ASSUME NEW b \in Backend, pc'[b] = "idle", rows'[b] = {}
    PROVE  LocalInv(b)'
<1>1. RowsInv(b)'
  BY Zenon DEF RowsInv
<1>2. DatomInv(b)'
  BY Zenon DEF DatomInv
<1> QED
  BY Zenon, <1>1, <1>2 DEF LocalInv

\* A step of b that leaves the log alone and takes no lock of another connection
\* keeps the invariant when it keeps what b knows.
LEMMA UniqueLocal ==
    ASSUME UniqueInv, NEW b \in Backend, log' = log, LocalInv(b)', OthersKept(b),
           \A c \in Backend \ {b} : locks'[b] \cap locks[c] = {}
    PROVE  UniqueInv'
<1>1. UniqueValues'
  BY Zenon DEF UniqueInv, UniqueValues
<1>2. LocksDisjoint'
  BY DEF UniqueInv, LocksDisjoint, OthersKept
<1>3. ASSUME NEW c \in Backend
      PROVE  LocalInv(c)'
  <2>1. CASE c = b
    BY Zenon, <2>1
  <2>2. CASE c # b
    BY Zenon, <2>2, LocalFrame DEF UniqueInv, OthersKept
  <2> QED
    BY Zenon, <2>1, <2>2
<1> QED
  BY Zenon, <1>1, <1>2, <1>3 DEF UniqueInv

\* So does one that leaves b's locks alone.
LEMMA UniqueLocalSameLocks ==
    ASSUME UniqueInv, NEW b \in Backend, log' = log, LocalInv(b)', OthersKept(b),
           locks'[b] = locks[b]
    PROVE  UniqueInv'
<1>1. \A c \in Backend \ {b} : locks'[b] \cap locks[c] = {}
  BY Zenon DEF UniqueInv, LocksDisjoint
<1> QED
  BY Zenon, <1>1, UniqueLocal

\* A transaction that ends has nothing pending.
LEMMA UniqueEnd ==
    ASSUME TypeOK, UniqueInv, NEW b \in Backend, NEW forget, EndTx(b, forget), log' = log
    PROVE  UniqueInv'
<1>1. pc'[b] = "idle" /\ rows'[b] = {} /\ locks'[b] = {} /\ OthersKept(b)
  BY Zenon, EndTxEffect
<1>2. LocalInv(b)'
  BY Zenon, <1>1, LocalIdle
<1> QED
  BY Zenon, <1>1, <1>2, UniqueLocal

\* Publishing b's batch: the locks keep the values of other connections apart.
LEMMA UniqueCommit ==
    ASSUME TypeOK, UniqueInv, NEW b \in Backend, Commit(b)
    PROVE  UniqueInv'
<1> DEFINE new == {AtTx(r, txid[b]) : r \in rows[b]}
<1>1. log' = log \cup new
  BY Zenon DEF Commit, BatchInsert
<1>2. ASSUME NEW s \in new, s.added, s.a \in UniqueAttr
      PROVE  /\ KeyOf(s) \in locks[b]
             /\ Owners(log, s.a, s.v) \subseteq {s.e}
             /\ \A q \in new : (q.added /\ q.a = s.a /\ q.v = s.v) => q.e = s.e
  <2>1. PICK r \in rows[b] : s = AtTx(r, txid[b])
    BY Zenon
  <2>2. r.added /\ r.a = s.a /\ r.v = s.v /\ r.e = s.e
    BY Zenon, <1>2, <2>1 DEF AtTx
  <2>3. Guarded(b, r) /\ Sole(b, r)
    BY Zenon, <1>2, <2>2 DEF UniqueInv, LocalInv, RowsInv, RowGuarded
  <2>4. ASSUME NEW q \in new, q.added, q.a = s.a, q.v = s.v
        PROVE  q.e = s.e
    <3>1. PICK p \in rows[b] : q = AtTx(p, txid[b])
      BY Zenon, <2>4
    <3>2. p.added /\ p.a = s.a /\ p.v = s.v /\ p.e = q.e
      BY Zenon, <2>4, <3>1 DEF AtTx
    <3>3. PICK i \in DOMAIN adds[b] : p = Asserted(adds[b][i])
      BY Zenon, <3>2 DEF UniqueInv, LocalInv, RowsInv, RowGuarded
    <3> QED
      BY Zenon, <2>2, <2>3, <3>2, <3>3 DEF Sole, Asserted
  <2> QED
    BY Zenon, <2>2, <2>3, <2>4 DEF Guarded, KeyOf
<1>3. ASSUME NEW s \in new, s.added, s.a \in UniqueAttr, NEW q \in log,
             q.added, q.a = s.a, q.v = s.v
      PROVE  q.e = s.e
  <2>1. q.e \in Owners(log, s.a, s.v)
    BY Zenon, <1>3 DEF Owners
  <2> QED
    BY Zenon, <1>2, <1>3, <2>1
<1>4. UniqueValues'
  <2>1. ASSUME NEW r \in log', NEW s \in log',
               r.added, s.added, r.a = s.a, r.v = s.v, r.a \in UniqueAttr
        PROVE  r.e = s.e
    <3> HIDE DEF new
    <3>1. CASE r \in log /\ s \in log
      BY Zenon, <2>1, <3>1 DEF UniqueInv, UniqueValues
    <3>2. CASE r \in new /\ s \in log
      BY Zenon, <2>1, <3>2, <1>3
    <3>3. CASE r \in log /\ s \in new
      BY Zenon, <2>1, <3>3, <1>3
    <3>4. CASE r \in new /\ s \in new
      BY Zenon, <2>1, <3>4, <1>2
    <3> QED
      BY Zenon, <1>1, <3>1, <3>2, <3>3, <3>4
  <2> QED
    BY Zenon, <2>1 DEF UniqueValues
<1>5. pc'[b] = "idle" /\ rows'[b] = {} /\ locks'[b] = {} /\ OthersKept(b)
  BY Zenon, EndTxEffect DEF Commit
<1>6. LocksDisjoint'
  BY Zenon, <1>5 DEF UniqueInv, LocksDisjoint, OthersKept
<1>7. LocalInv(b)'
  BY Zenon, <1>5, LocalIdle
<1>8. ASSUME NEW c \in Backend, c # b
      PROVE  LocalInv(c)'
  <2>1. ASSUME NEW d, d.a \in UniqueAttr, Guarded(c, d)
        PROVE  (Guarded(c, d))'
    <3>1. ASSUME NEW s \in new, s.added, s.a = d.a, s.v = d.v
          PROVE  FALSE
      <4>1. KeyOf(s) = KeyOf(d)
        BY Zenon, <3>1 DEF KeyOf
      <4>2. KeyOf(s) \in locks[b]
        BY Zenon, <1>2, <2>1, <3>1
      <4> QED
        BY Zenon, <1>8, <2>1, <4>1, <4>2 DEF Guarded, UniqueInv, LocksDisjoint
    <3> HIDE DEF new
    <3>2. Owners(log', d.a, d.v) \subseteq Owners(log, d.a, d.v)
      BY Zenon, <1>1, <3>1 DEF Owners
    <3> QED
      BY Zenon, <1>5, <1>8, <2>1, <3>2 DEF Guarded, KeyOf, OthersKept
  <2>2. LocalInv(c)
    BY Zenon DEF UniqueInv
  <2> QED
    BY Zenon, <1>5, <1>8, <2>1, <2>2, LocalKept DEF OthersKept
<1> QED
  BY Zenon, <1>4, <1>6, <1>7, <1>8 DEF UniqueInv

\* The rows an assertion adds: the assertion itself and retractions.
LEMMA BatchesRows ==
    ASSUME NEW d, NEW batch \in Batches(d), NEW r \in batch, r.added
    PROVE  r = Asserted(d)
<1>1. ASSUME NEW t
      PROVE  Retracted(t).added = FALSE
  BY Zenon DEF Retracted
<1>2. CASE d.a \in CardMany
  BY Zenon, <1>2 DEF Batches
<1>3. CASE d.a \notin CardMany
  <2> DEFINE current == {ReadBack[v] : v \in CurrentValues(cur, d.e, d.a)}
             Replace(old) ==
                 IF old = d.v THEN {} ELSE {Retracted([d EXCEPT !.v = old]), Asserted(d)}
  <2>1. batch \in IF current = {} THEN {{Asserted(d)}} ELSE {Replace(old) : old \in current}
    BY <1>3, Zenon DEF Batches
  <2> HIDE DEF current
  <2>2. CASE current = {}
    BY Zenon, <2>1, <2>2
  <2>3. CASE current # {}
    <3>1. PICK old \in current : batch = Replace(old)
      BY Zenon, <2>1, <2>3
    <3> QED
      BY ZenonT(30), <1>1, <3>1
  <2> QED
    BY Zenon, <2>2, <2>3
<1> QED
  BY Zenon, <1>2, <1>3

\* One step per action: the lock comes before the check, the check before the
\* row, and the row before the commit.
LEMMA UniqueStep ==
    ASSUME TypeOK, UniqueInv, [Next]_vars
    PROVE  UniqueInv'
<1>1. ASSUME NEW b \in Backend, NEW program, Begin(b, program)
      PROVE  UniqueInv'
  <2>1. /\ log' = log /\ rows' = rows /\ locks' = locks /\ adds' = adds
        /\ pc[b] = "idle" /\ pc'[b] = "expand"
    BY Zenon, <1>1 DEF Begin, TypeOK, dbVars
  <2>2. OthersKept(b)
    BY Zenon, <1>1, <2>1 DEF Begin, OthersKept, TypeOK
  <2>3. rows'[b] = {}
    BY Zenon, <2>1 DEF UniqueInv, LocalInv
  <2>4. LocalInv(b)'
    BY Zenon, <2>1, <2>3 DEF LocalInv, RowsInv, DatomInv
  <2> QED
    BY Zenon, <2>1, <2>2, <2>4, UniqueLocalSameLocks
<1>2. ASSUME NEW b \in Backend, ExpandAdd(b) \/ ExpandRetract(b) \/ ExpandCas(b)
      PROVE  UniqueInv'
  <2>1. pc[b] = "expand" /\ NextOp(b)
    BY Zenon, <1>2 DEF ExpandAdd, ExpandRetract, ExpandCas, Expanding
  <2>2. \A c \in Backend \ {b} : adds'[c] = adds[c]
    BY Zenon, <1>2 DEF ExpandAdd, ExpandRetract, ExpandCas, TypeOK
  <2>3. log' = log /\ rows' = rows /\ pc' = pc /\ locks' = locks
    BY Zenon, <2>1 DEF NextOp, dbVars
  <2>4. OthersKept(b)
    BY Zenon, <2>1, <2>2, <2>3 DEF NextOp, OthersKept, TypeOK
  <2>5. rows'[b] = {}
    BY Zenon, <2>1, <2>3 DEF UniqueInv, LocalInv
  <2>6. LocalInv(b)'
    BY Zenon, <2>1, <2>3, <2>5 DEF LocalInv, RowsInv, DatomInv
  <2> QED
    BY Zenon, <2>3, <2>4, <2>6, UniqueLocalSameLocks
<1>3. ASSUME NEW b \in Backend, StartInsert(b)
      PROVE  UniqueInv'
  <2>1. /\ log' = log /\ locks' = locks /\ adds' = adds
        /\ rows'[b] = {Retracted(t) : t \in rets[b]} /\ pc'[b] = "insert"
    BY Zenon, <1>3 DEF StartInsert, TypeOK, dbVars
  <2>2. OthersKept(b)
    BY Zenon, <1>3, <2>1 DEF StartInsert, OthersKept, TypeOK
  <2>3. \A r \in rows'[b] : ~r.added
    BY <2>1 DEF Retracted
  <2>4. LocalInv(b)'
    BY Zenon, <2>1, <2>3 DEF LocalInv, RowsInv, DatomInv
  <2> QED
    BY Zenon, <2>1, <2>2, <2>4, UniqueLocalSameLocks
<1>4. ASSUME NEW b \in Backend, AcquireLock(b)
      PROVE  UniqueInv'
  <2>1. log' = log /\ rows' = rows /\ adds' = adds /\ k' = k /\ pc[b] = "insert"
    BY Zenon, <1>4 DEF AcquireLock, Inserting, GoTo, dbVars
  <2>2. pc'[b] = "check" /\ locks'[b] = locks[b] \cup {KeyOf(Datom(b))}
    BY Zenon, <1>4 DEF AcquireLock, GoTo, TypeOK
  <2>3. OthersKept(b)
    BY Zenon, <1>4, <2>1 DEF AcquireLock, GoTo, OthersKept, TypeOK
  <2>4. \A c \in Backend \ {b} : locks'[b] \cap locks[c] = {}
    BY Zenon, <1>4, <2>2 DEF AcquireLock, UniqueInv, LocksDisjoint
  <2>5. Datom(b)' = Datom(b)
    BY Zenon, <2>1 DEF Datom
  <2>6. Sole(b, Datom(b))
    BY Zenon, <1>4 DEF AcquireLock, ValidInTx, Sole
  <2>7. (KeyOf(Datom(b)) \in locks[b] /\ Sole(b, Datom(b)))'
    BY Zenon, <2>1, <2>2, <2>5, <2>6 DEF KeyOf, Sole
  <2>8. RowsInv(b)'
    BY Zenon, <2>1, <2>2, RowsKept DEF UniqueInv, LocalInv
  <2>9. LocalInv(b)'
    BY Zenon, <2>2, <2>7, <2>8 DEF LocalInv, DatomInv
  <2> QED
    BY Zenon, <2>1, <2>3, <2>4, <2>9, UniqueLocal
<1>5. ASSUME NEW b \in Backend, SkipLock(b) \/ CheckUnique(b)
      PROVE  UniqueInv'
  <2>1. GoTo(b, "read") /\ locks' = locks
    BY Zenon, <1>5 DEF SkipLock, CheckUnique
  <2>2. log' = log /\ rows' = rows /\ adds' = adds /\ k' = k
    BY Zenon, <2>1 DEF GoTo, dbVars
  <2>3. pc'[b] = "read" /\ OthersKept(b)
    BY Zenon, <2>1, <2>2 DEF GoTo, OthersKept, TypeOK
  <2>4. Datom(b).a \in UniqueAttr => Guarded(b, Datom(b)) /\ Sole(b, Datom(b))
    BY Zenon, <1>5 DEF SkipLock, CheckUnique, UniqueInv, LocalInv, DatomInv, Guarded
  <2>5. Datom(b)' = Datom(b)
    BY Zenon, <2>2 DEF Datom
  <2>6. (Datom(b).a \in UniqueAttr => Guarded(b, Datom(b)) /\ Sole(b, Datom(b)))'
    BY Zenon, <2>1, <2>2, <2>4, <2>5 DEF Guarded, Sole, KeyOf
  <2>7. RowsInv(b)'
    BY Zenon, <2>1, <2>2, RowsKept DEF UniqueInv, LocalInv
  <2>8. DatomInv(b)'
    BY Zenon, <2>3, <2>6 DEF DatomInv, Guarded
  <2>9. LocalInv(b)'
    BY Zenon, <2>3, <2>7, <2>8 DEF LocalInv
  <2> QED
    BY Zenon, <2>1, <2>2, <2>3, <2>9, UniqueLocalSameLocks
<1>6. ASSUME NEW b \in Backend, ReadCurrent(b)
      PROVE  UniqueInv'
  <2>1. PICK batch \in Batches(Datom(b)) : rows' = [rows EXCEPT ![b] = rows[b] \cup batch]
    BY <1>6, ZenonT(30) DEF ReadCurrent
  <2>2. log' = log /\ adds' = adds /\ locks' = locks /\ pc[b] = "read"
    BY Zenon, <1>6 DEF ReadCurrent, NextDatom, dbVars
  <2>3. pc'[b] = "insert" /\ rows'[b] = rows[b] \cup batch
    BY Zenon, <1>6, <2>1 DEF ReadCurrent, NextDatom, TypeOK
  <2>4. OthersKept(b)
    BY Zenon, <1>6, <2>1, <2>2 DEF ReadCurrent, NextDatom, OthersKept, TypeOK
  <2>5. ASSUME NEW r \in batch, r.added
        PROVE  RowGuarded(b, r)
    <3>1. r = Asserted(Datom(b))
      BY Zenon, <2>5, BatchesRows
    <3>2. k[b] \in DOMAIN adds[b]
      BY Zenon, <2>2, CurrentDatom
    <3>3. r.a = Datom(b).a /\ r.v = Datom(b).v /\ r.e = Datom(b).e
      BY Zenon, <3>1 DEF Asserted
    <3>4. Datom(b).a \in UniqueAttr => Guarded(b, Datom(b)) /\ Sole(b, Datom(b))
      BY Zenon, <2>2 DEF UniqueInv, LocalInv, DatomInv
    <3>5. Datom(b).a \in UniqueAttr => Guarded(b, r)
      BY Zenon, <3>3, <3>4 DEF Guarded, KeyOf
    <3>6. Datom(b).a \in UniqueAttr => Sole(b, r)
      BY Zenon, <3>3, <3>4 DEF Sole
    <3> QED
      BY Zenon, <3>1, <3>2, <3>3, <3>5, <3>6 DEF RowGuarded, Datom
  <2>6. ASSUME NEW r \in rows'[b], r.added
        PROVE  (RowGuarded(b, r))'
    <3>1. RowGuarded(b, r)
      BY Zenon, <2>3, <2>5, <2>6 DEF UniqueInv, LocalInv, RowsInv
    <3> QED
      BY Zenon, <2>2, <3>1, KnowledgeKept
  <2>7. LocalInv(b)'
    BY Zenon, <2>3, <2>6 DEF LocalInv, RowsInv, DatomInv
  <2> QED
    BY Zenon, <2>2, <2>4, <2>7, UniqueLocalSameLocks
<1>7. ASSUME NEW b \in Backend, log' = log, UNCHANGED <<k, adds, rows, locks>>,
             pc[b] \notin {"idle", "expand"}, NEW s \in {"delete", "upsert"},
             pc' = [pc EXCEPT ![b] = s]
      PROVE  UniqueInv'
  <2>1. pc'[b] = s /\ OthersKept(b)
    BY Zenon, <1>7 DEF TypeOK, OthersKept
  <2>2. RowsInv(b)'
    BY Zenon, <1>7, RowsKept DEF UniqueInv, LocalInv
  <2>3. LocalInv(b)'
    BY Zenon, <2>1, <2>2 DEF LocalInv, DatomInv
  <2> QED
    BY Zenon, <1>7, <2>1, <2>3, UniqueLocalSameLocks
<1>8. ASSUME NEW b \in Backend, InsertBatch(b) \/ StartUpsert(b)
      PROVE  UniqueInv'
  BY Zenon, <1>7, <1>8 DEF InsertBatch, Inserted, StartUpsert, dbVars
<1>9. ASSUME UNCHANGED <<log, pc, k, adds, rows, locks>>
      PROVE  UniqueInv'
  <2>1. ASSUME NEW c \in Backend
        PROVE  LocalInv(c)'
    BY Zenon, <1>9, LocalFrame DEF UniqueInv
  <2> QED
    BY Zenon, <1>9, <2>1 DEF UniqueInv, UniqueValues, LocksDisjoint
<1>10. ASSUME NEW b \in Backend, NEW key, DeleteRow(b, key) \/ UpsertRow(b, key)
      PROVE  UniqueInv'
  BY Zenon, <1>9, <1>10 DEF DeleteRow, UpsertRow, dbVars
<1>11. CASE UNCHANGED vars
  BY Zenon, <1>9, <1>11 DEF vars, dbVars, txVars
<1>12. ASSUME NEW b \in Backend, Fail(b) \/ Disconnect(b)
      PROVE  UniqueInv'
  <2>1. EndTx(b, {}) /\ log' = log
    BY Zenon, <1>12 DEF Fail, Disconnect, dbVars
  <2> QED
    BY Zenon, <2>1, UniqueEnd
<1> QED
  BY ZenonT(30), <1>1, <1>2, <1>3, <1>4, <1>5, <1>6, <1>8, <1>10, <1>11, <1>12, UniqueCommit
  DEF Next, Step, Cancel, CasFails, Reject, CheckFails, BatchFails, DeadlockDetected

\* The advisory lock makes the unique check safe under READ COMMITTED: for any
\* number of connections, any interleaving of their statements, any failures and
\* any collisions of the hash, a value of a unique attribute has one owner.
THEOREM UniqueValuesHold == Spec => []UniqueValues
<1>1. Init => UniqueInv
  <2>1. Init => UniqueValues /\ LocksDisjoint
    BY Zenon DEF Init, UniqueValues, LocksDisjoint
  <2>2. ASSUME Init, NEW b \in Backend
        PROVE  LocalInv(b)
    BY Zenon, <2>2 DEF Init, LocalInv, RowsInv, DatomInv
  <2> QED
    BY Zenon, <2>1, <2>2 DEF UniqueInv
<1>2. TypeOK /\ UniqueInv /\ [Next]_vars => UniqueInv'
  BY Zenon, UniqueStep
<1>3. UniqueInv => UniqueValues
  BY Zenon DEF UniqueInv
<1> QED
  BY <1>1, <1>2, <1>3, TypeCorrect, PTL DEF Spec

-----------------------------------------------------------------------------
(* The projection *)

\* A key the upsert of b has visited, or has still to visit, is a key the batch
\* asserts; nothing is upserted before that.
UpsertsAsserted(b) ==
    /\ pc[b] # "upsert" => upserted[b] = {}
    /\ pc[b] = "upsert" =>
          \A t \in todo[b] \cup upserted[b] : \E r \in rows[b] : r.added /\ Key(r) = t

AssertInv == ProjectionIsAsserted /\ \A b \in Backend : UpsertsAsserted(b)

\* A step of b leaves what the others upsert alone, but for keys they need not
\* visit any more.
UpsertsKept(b) ==
    \A c \in Backend \ {b} :
        /\ pc'[c] = pc[c] /\ rows'[c] = rows[c] /\ upserted'[c] = upserted[c]
        /\ todo'[c] \subseteq todo[c]

\* Such a step keeps what holds of the others.
LEMMA AssertOthers ==
    ASSUME AssertInv, NEW b \in Backend, UpsertsKept(b), NEW c \in Backend \ {b}
    PROVE  UpsertsAsserted(c)'
BY Zenon DEF AssertInv, UpsertsAsserted, UpsertsKept

\* A step of b that commits nothing keeps the invariant when b upserts keys it
\* asserts.
LEMMA AssertLocal ==
    ASSUME AssertInv, NEW b \in Backend, UNCHANGED <<log, cur>>, UpsertsKept(b),
           UpsertsAsserted(b)'
    PROVE  AssertInv'
<1>1. ProjectionIsAsserted'
  BY Zenon DEF AssertInv, ProjectionIsAsserted
<1>2. ASSUME NEW c \in Backend
      PROVE  UpsertsAsserted(c)'
  <2>1. CASE c = b
    BY Zenon, <2>1
  <2>2. CASE c # b
    BY Zenon, <2>2, AssertOthers
  <2> QED
    BY Zenon, <2>1, <2>2
<1> QED
  BY Zenon, <1>1, <1>2 DEF AssertInv

\* A step of b before the upsert.
LEMMA AssertBefore ==
    ASSUME AssertInv, NEW b \in Backend, UNCHANGED <<log, cur, upserted>>, UpsertsKept(b),
           pc[b] # "upsert", pc'[b] # "upsert"
    PROVE  AssertInv'
<1>1. UpsertsAsserted(b)'
  BY Zenon DEF AssertInv, UpsertsAsserted
<1> QED
  BY Zenon, <1>1, AssertLocal

\* Every step keeps the projection to what the log asserts.
LEMMA AssertStep ==
    ASSUME TypeOK, AssertInv, [Next]_vars
    PROVE  AssertInv'
<1>1. ASSUME NEW b \in Backend, NEW forget, EndTx(b, forget)
      PROVE  UpsertsKept(b) /\ UpsertsAsserted(b)'
  <2>1. UpsertsKept(b)
    BY Zenon, <1>1, EndTxEffect DEF UpsertsKept, OthersKept
  <2>2. pc'[b] = "idle" /\ upserted'[b] = {}
    BY Zenon, <1>1, EndTxEffect
  <2> QED
    BY Zenon, <2>1, <2>2 DEF UpsertsAsserted
<1>2. ASSUME NEW b \in Backend, Fail(b) \/ Disconnect(b)
      PROVE  AssertInv'
  <2>1. EndTx(b, {}) /\ UNCHANGED <<log, cur>>
    BY Zenon, <1>2 DEF Fail, Disconnect, dbVars
  <2> QED
    BY Zenon, <1>1, <2>1, AssertLocal
<1>3. ASSUME NEW b \in Backend, NEW program, Begin(b, program)
      PROVE  AssertInv'
  <2>1. UNCHANGED <<log, cur, rows, upserted, todo>> /\ pc[b] = "idle"
    BY Zenon, <1>3 DEF Begin, dbVars
  <2>2. pc'[b] = "expand" /\ UpsertsKept(b)
    BY Zenon, <1>3, <2>1 DEF Begin, TypeOK, UpsertsKept
  <2> QED
    BY Zenon, <2>1, <2>2, AssertBefore
<1>4. ASSUME UNCHANGED <<log, cur, pc, rows, todo, upserted>>
      PROVE  AssertInv'
  BY Zenon, <1>4 DEF AssertInv, UpsertsAsserted, ProjectionIsAsserted
<1>5. ASSUME NEW b \in Backend, ExpandAdd(b) \/ ExpandRetract(b) \/ ExpandCas(b)
      PROVE  AssertInv'
  <2>1. NextOp(b)
    BY Zenon, <1>5 DEF ExpandAdd, ExpandRetract, ExpandCas
  <2> QED
    BY Zenon, <1>4, <2>1 DEF NextOp, dbVars
<1>6. ASSUME NEW b \in Backend, StartInsert(b)
      PROVE  AssertInv'
  <2>1. UNCHANGED <<log, cur, upserted, todo>> /\ pc[b] = "expand"
    BY Zenon, <1>6 DEF StartInsert, dbVars
  <2>2. pc'[b] = "insert" /\ UpsertsKept(b)
    BY Zenon, <1>6, <2>1 DEF StartInsert, TypeOK, UpsertsKept
  <2> QED
    BY Zenon, <2>1, <2>2, AssertBefore
<1>7. ASSUME NEW b \in Backend, AcquireLock(b) \/ SkipLock(b) \/ CheckUnique(b)
      PROVE  AssertInv'
  <2>1. pc[b] \in {"insert", "check"} /\ (GoTo(b, "check") \/ GoTo(b, "read"))
    BY Zenon, <1>7 DEF AcquireLock, SkipLock, CheckUnique, Inserting
  <2>2. UNCHANGED <<log, cur, rows, upserted, todo>>
    BY Zenon, <2>1 DEF GoTo, dbVars
  <2>3. pc'[b] # "upsert" /\ UpsertsKept(b)
    BY Zenon, <2>1, <2>2 DEF GoTo, TypeOK, UpsertsKept
  <2> QED
    BY Zenon, <2>1, <2>2, <2>3, AssertBefore
<1>8. ASSUME NEW b \in Backend, ReadCurrent(b)
      PROVE  AssertInv'
  <2>1. PICK batch \in Batches(Datom(b)) : rows' = [rows EXCEPT ![b] = rows[b] \cup batch]
    BY <1>8, ZenonT(30) DEF ReadCurrent
  <2>2. NextDatom(b) /\ pc[b] = "read"
    BY Zenon, <1>8 DEF ReadCurrent
  <2>3. UNCHANGED <<log, cur, upserted, todo>> /\ pc'[b] = "insert"
    BY Zenon, <2>2 DEF NextDatom, TypeOK, dbVars
  <2>4. UpsertsKept(b)
    BY Zenon, <2>1, <2>2, <2>3 DEF NextDatom, TypeOK, UpsertsKept
  <2> QED
    BY Zenon, <2>2, <2>3, <2>4, AssertBefore
<1>9. ASSUME NEW b \in Backend, InsertBatch(b)
      PROVE  AssertInv'
  <2>1. UNCHANGED <<log, cur, rows, upserted>> /\ pc[b] = "insert"
    BY Zenon, <1>9 DEF InsertBatch, Inserted, dbVars
  <2>2. pc'[b] = "delete" /\ UpsertsKept(b)
    BY Zenon, <1>9, <2>1 DEF InsertBatch, TypeOK, UpsertsKept
  <2> QED
    BY Zenon, <2>1, <2>2, AssertBefore
<1>10. ASSUME NEW b \in Backend, NEW key \in todo[b], DeleteRow(b, key)
      PROVE  AssertInv'
  <2>1. UNCHANGED <<log, cur, rows, upserted, pc>> /\ pc[b] = "delete"
    BY Zenon, <1>10 DEF DeleteRow, dbVars
  <2>2. UpsertsKept(b)
    BY Zenon, <1>10, <2>1 DEF DeleteRow, TypeOK, UpsertsKept
  <2> QED
    BY Zenon, <2>1, <2>2, AssertBefore
<1>11. ASSUME NEW b \in Backend, StartUpsert(b)
      PROVE  AssertInv'
  <2>1. UNCHANGED <<log, cur, rows, upserted>> /\ pc[b] = "delete"
    BY Zenon, <1>11 DEF StartUpsert, dbVars
  <2>2. pc'[b] = "upsert" /\ UpsertsKept(b)
    BY Zenon, <1>11, <2>1 DEF StartUpsert, TypeOK, UpsertsKept
  <2>3. todo'[b] = {Key(r) : r \in {s \in rows[b] : s.added}}
    BY Zenon, <1>11 DEF StartUpsert, TypeOK
  <2>4. upserted'[b] = {}
    BY Zenon, <2>1 DEF AssertInv, UpsertsAsserted
  <2>5. \A t \in todo'[b] : \E r \in rows'[b] : r.added /\ Key(r) = t
    BY Zenon, <2>1, <2>3
  <2>6. UpsertsAsserted(b)'
    BY Zenon, <2>2, <2>4, <2>5 DEF UpsertsAsserted
  <2> QED
    BY Zenon, <2>1, <2>2, <2>6, AssertLocal
<1>12. ASSUME NEW b \in Backend, NEW key \in todo[b], UpsertRow(b, key)
      PROVE  AssertInv'
  <2>1. UNCHANGED <<log, cur, rows, pc>> /\ pc[b] = "upsert"
    BY Zenon, <1>12 DEF UpsertRow, dbVars
  <2>2. todo'[b] = todo[b] \ {key} /\ upserted'[b] = upserted[b] \cup {key} /\ UpsertsKept(b)
    BY Zenon, <1>12, <2>1 DEF UpsertRow, TypeOK, UpsertsKept
  <2>3. UpsertsAsserted(b)'
    BY <2>1, <2>2 DEF AssertInv, UpsertsAsserted
  <2> QED
    BY Zenon, <2>1, <2>2, <2>3, AssertLocal
<1>13. ASSUME NEW b \in Backend, Commit(b)
      PROVE  AssertInv'
  <2>1. /\ pc[b] = "upsert" /\ EndTx(b, deleted[b])
        /\ log' = log \cup {AtTx(r, txid[b]) : r \in rows[b]}
        /\ \A c \in cur' : c \in cur \/ \E t \in upserted[b] : c = CurAt(t, txid[b])
    BY Zenon, <1>13 DEF Commit, BatchInsert
  <2>2. ASSUME NEW t \in upserted[b]
        PROVE  \E r \in log' : r.added /\ Key(r) = Key(CurAt(t, txid[b])) /\ r.tx = txid[b]
    <3>1. PICK r \in rows[b] : r.added /\ Key(r) = t
      BY Zenon, <2>1 DEF AssertInv, UpsertsAsserted
    <3>2. /\ AtTx(r, txid[b]) \in log' /\ AtTx(r, txid[b]).added = r.added
          /\ AtTx(r, txid[b]).tx = txid[b] /\ Key(AtTx(r, txid[b])) = Key(r)
      BY <2>1, Zenon DEF AtTx, Key
    <3>3. Key(CurAt(t, txid[b])) = t
      BY Zenon, <3>1 DEF Key, CurAt
    <3> QED
      BY ZenonT(30), <3>1, <3>2, <3>3
  <2>3. ProjectionIsAsserted'
    <3>1. SUFFICES ASSUME NEW c \in cur'
                   PROVE  \E r \in log' : r.added /\ Key(r) = Key(c) /\ r.tx = c.tx
      BY Zenon DEF ProjectionIsAsserted
    <3>2. CASE c \in cur
      BY Zenon, <2>1, <3>2 DEF AssertInv, ProjectionIsAsserted
    <3>3. CASE \E t \in upserted[b] : c = CurAt(t, txid[b])
      BY <2>2, <3>3 DEF CurAt
    <3> QED
      BY Zenon, <2>1, <3>2, <3>3
  <2>4. UpsertsKept(b) /\ UpsertsAsserted(b)'
    BY Zenon, <1>1, <2>1
  <2>5. ASSUME NEW c \in Backend
        PROVE  UpsertsAsserted(c)'
    <3>1. CASE c = b
      BY Zenon, <2>4, <3>1
    <3>2. CASE c # b
      BY Zenon, <2>4, <3>2, AssertOthers
    <3> QED
      BY Zenon, <3>1, <3>2
  <2> QED
    BY Zenon, <2>3, <2>5 DEF AssertInv
<1>14. CASE UNCHANGED vars
  BY Zenon, <1>4, <1>14 DEF vars, dbVars, txVars
<1> QED
  BY ZenonT(30), <1>2, <1>3, <1>5, <1>6, <1>7, <1>8, <1>9, <1>10, <1>11, <1>12, <1>13, <1>14
  DEF Next, Step, Cancel, CasFails, Reject, CheckFails, BatchFails, DeadlockDetected

\* Every row of the current-state projection stands for an assertion of the log
\* at the same transaction, whatever the interleaving of the connections' upserts
\* and deletes: what concurrency loses from the projection, it never invents.
THEOREM ProjectionHoldsAssertions == Spec => []ProjectionIsAsserted
<1>1. Init => AssertInv
  BY Zenon DEF Init, AssertInv, UpsertsAsserted, ProjectionIsAsserted
<1>2. TypeOK /\ AssertInv /\ [Next]_vars => AssertInv'
  BY Zenon, AssertStep
<1>3. AssertInv => ProjectionIsAsserted
  BY Zenon DEF AssertInv
<1> QED
  BY <1>1, <1>2, <1>3, TypeCorrect, PTL DEF Spec

=============================================================================
