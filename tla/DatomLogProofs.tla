--------------------------- MODULE DatomLogProofs ---------------------------
(***************************************************************************)
(* Proofs about DatomLog, for any schema, facts, excisions and order of    *)
(* ids.                                                                    *)
(*                                                                         *)
(* The inductive invariant relates the projection to the log in the order  *)
(* of commits: a row that asserts a fact is current or was retracted later *)
(* (Kept), a current fact has such a row unless its entity was excised     *)
(* (Held), and between two values of a cardinality-one attribute the first *)
(* was retracted (Replaces).  It relates the counts of a db-stats under    *)
(* way to what has been written by now (Counted), and what retract_entity  *)
(* has read to what was live (Read).  What the reads of the log show       *)
(* follows in each state.                                                  *)
(***************************************************************************)
EXTENDS DatomLog, FiniteSetTheorems, TLAPS

Call == [k : {"idle", "retract", "excise", "stats1", "stats2", "stats"},
         es : SUBSET (Retired \cup UNION Targets), facts : SUBSET Fact, live : SUBSET Pool,
         datoms : Nat, txs : Nat, basis : Nat]

Typed ==
    /\ log \subseteq written /\ IsFiniteSet(written)
    /\ \A r \in written : FactOf(r) \in Fact /\ r.tx \in Txs /\ r.added \in BOOLEAN
    /\ cur \subseteq Pool
    /\ busy \in Call /\ IsFiniteSet(busy.facts)

\* The ids, and their places in the order of commits.
Numbered ==
    /\ IsFiniteSet(Txs) /\ Commits \in Nat /\ basis \in Nat
    /\ \A t \in Txs : t \in Nat \ {0} /\ t <= basis /\ nth[t] \in Nat /\ nth[t] <= Commits
    /\ \A t, u \in Txs : nth[t] = nth[u] => t = u

\* A transaction either asserts a fact or retracts it.
OneKind == \A r, s \in log : FactOf(r) = FactOf(s) /\ r.tx = s.tx => r.added = s.added

Kept == \A r \in log : r.added => CurrentOrRetracted(r)

\* r asserts f, and no retraction of f committed as late as that.
LastAsserts(r, f) ==
    /\ FactOf(r) = f /\ r.added
    /\ \A s \in log : FactOf(s) = f /\ ~s.added => nth[s.tx] < nth[r.tx]

Held == \A f \in cur : f.e \notin Gone => \E r \in log : LastAsserts(r, f)

\* s retracts the fact of r after r and no later than n.
Between(s, r, n) == FactOf(s) = FactOf(r) /\ ~s.added /\ nth[r.tx] < nth[s.tx] /\ nth[s.tx] <= nth[n.tx]

SameSlot(f, g) == f.e = g.e /\ f.a = g.a /\ ~Schema[f.a].many

Replaces ==
    \A r, n \in log : r.added /\ n.added /\ SameSlot(r, n) /\ nth[r.tx] < nth[n.tx] => \E s \in log : Between(s, r, n)

Read ==
    busy.k = "retract" =>
        /\ \A f \in busy.live : f.e \notin Gone => f \in busy.facts
        /\ \A f \in busy.facts : f.e \in busy.es

AssertedBy(t) == {r \in written : r.added /\ r.tx <= t}
TxsBy(t) == {u \in Txs : u <= t}

Counted ==
    /\ busy.k \in {"stats1", "stats2"} => busy.datoms <= Cardinality(AssertedBy(basis))
    /\ busy.k = "stats2" => busy.txs <= Cardinality(TxsBy(basis))
    /\ busy.k = "stats" => /\ busy.basis <= basis
                           /\ busy.txs <= Cardinality(TxsBy(busy.basis))
                           /\ busy.datoms <= Cardinality(AssertedBy(busy.basis))

-----------------------------------------------------------------------------
(* What a commit leaves *)

LEMMA FactIs == ASSUME NEW f \in Fact PROVE f = [e |-> f.e, a |-> f.a, v |-> f.v] /\ f.a \in DOMAIN Schema /\ f.v \in Int
BY Zenon DEF Fact

LEMMA RowFields ==
    ASSUME NEW f \in Fact, NEW t
    PROVE  /\ FactOf(Row(f, t, TRUE)) = f /\ Row(f, t, TRUE).tx = t /\ Row(f, t, TRUE).added = TRUE
           /\ FactOf(Row(f, t, FALSE)) = f /\ Row(f, t, FALSE).tx = t /\ Row(f, t, FALSE).added = FALSE
<1>1. f = [e |-> f.e, a |-> f.a, v |-> f.v]
  BY Zenon, FactIs
<1> QED
  BY Zenon, <1>1 DEF Row, FactOf

LEMMA FiniteRows ==
    ASSUME NEW F, IsFiniteSet(F), NEW t
    PROVE  IsFiniteSet({Row(f, t, TRUE) : f \in F}) /\ IsFiniteSet({Row(f, t, FALSE) : f \in F})
<1>1. /\ [f \in F |-> Row(f, t, TRUE)] \in Surjection(F, {Row(f, t, TRUE) : f \in F})
      /\ [f \in F |-> Row(f, t, FALSE)] \in Surjection(F, {Row(f, t, FALSE) : f \in F})
  BY Zenon DEF Surjection
<1> QED
  BY Zenon, <1>1, FS_Surjection

\* r is a row of transaction t about a fact of F.
New(r, t, added, F) == r.tx = t /\ r.added = added /\ FactOf(r) \in F

\* Transaction t asserts A and retracts R.
Logs(t, A, R) ==
    /\ A \subseteq Pool /\ R \subseteq Fact /\ A \cap R = {}
    /\ cur' = (cur \ R) \cup A
    /\ log \subseteq log' /\ log' \subseteq written' /\ written \subseteq written' /\ IsFiniteSet(written')
    /\ \A r \in written' : r \in written \/ New(r, t, TRUE, A) \/ New(r, t, FALSE, R)
    /\ \A r \in log' : r \in log \/ New(r, t, TRUE, A) \/ New(r, t, FALSE, R)
    /\ \A f \in A : \E r \in log' : FactOf(r) = f /\ r.tx = t /\ r.added
    /\ \A f \in R : \E r \in log' : FactOf(r) = f /\ r.tx = t /\ ~r.added
    /\ t \in Ids /\ t \notin Txs /\ Txs' = Txs \cup {t}
    /\ nth'[t] = Commits + 1 /\ \A x \in Txs : nth'[x] = nth[x]
    /\ basis' = (IF t > basis THEN t ELSE basis)
    /\ audit' = audit
    /\ busy' = busy \/ busy' = Idle

LEMMA CommitLogs ==
    ASSUME Typed, NEW t, NEW A \in SUBSET Pool, NEW R \in SUBSET Fact, IsFiniteSet(R), A \cap R = {},
           Commit(t, A, R), busy' = busy \/ busy' = Idle
    PROVE  Logs(t, A, R)
<1>0. A \subseteq Fact
  BY Zenon, DatomLogAssumption
<1>1. PICK new, old : new = {Row(f, t, TRUE) : f \in A} /\ old = {Row(f, t, FALSE) : f \in R}
  BY Zenon
<1>2. /\ log' = log \cup (new \cup old) /\ written' = written \cup (new \cup old)
      /\ cur' = (cur \ R) \cup A /\ audit' = audit /\ t \in Ids /\ t \notin Txs
      /\ basis' = (IF t > basis THEN t ELSE basis)
  BY Zenon, <1>1 DEF Commit
<1>3. IsFiniteSet(written')
  <2>0. IsFiniteSet(A)
    BY Zenon, FS_Subset, DatomLogAssumption
  <2>1. IsFiniteSet(new) /\ IsFiniteSet(old)
    BY Zenon, <1>1, <2>0, FiniteRows
  <2>2. IsFiniteSet(new \cup old)
    BY Zenon, <2>1, FS_Union
  <2> QED
    BY <1>2, <2>2, FS_Union, Zenon DEF Typed
<1>4. ASSUME NEW r \in new PROVE New(r, t, TRUE, A)
  <2>1. PICK f \in A : r = Row(f, t, TRUE)
    BY Zenon, <1>1
  <2> QED
    BY Zenon, <1>0, <2>1, RowFields DEF New
<1>5. ASSUME NEW r \in old PROVE New(r, t, FALSE, R)
  <2>1. PICK f \in R : r = Row(f, t, FALSE)
    BY Zenon, <1>1
  <2> QED
    BY Zenon, <2>1, RowFields DEF New
<1>6. ASSUME NEW f \in A PROVE \E r \in log' : FactOf(r) = f /\ r.tx = t /\ r.added
  <2>1. Row(f, t, TRUE) \in log'
    BY Zenon, <1>1, <1>2
  <2> QED
    BY Zenon, <1>0, <2>1, RowFields
<1>7. ASSUME NEW f \in R PROVE \E r \in log' : FactOf(r) = f /\ r.tx = t /\ ~r.added
  <2>1. Row(f, t, FALSE) \in log'
    BY Zenon, <1>1, <1>2
  <2> QED
    BY Zenon, <2>1, RowFields
<1>8. /\ Txs' = Txs \cup {t} /\ nth'[t] = Commits + 1
      /\ \A x \in Txs : nth'[x] = nth[x]
  <2>1. nth' = [x \in Txs \cup {t} |-> IF x = t THEN Commits + 1 ELSE nth[x]]
    BY Zenon DEF Commit
  <2>2. DOMAIN nth' = Txs \cup {t}
    BY Zenon, <2>1
  <2> QED
    BY Zenon, <1>2, <2>1, <2>2 DEF Txs
<1> QED
  BY <1>2, <1>3, <1>4, <1>5, <1>6, <1>7, <1>8, Zenon DEF Logs, Typed

\* A value asserted for an attribute of one value replaces the current one.
Slots(A, R) == log = {} \/ \A f \in A, g \in cur : SameSlot(f, g) => g \in R

LEMMA FactsRead ==
    ASSUME Typed, NEW e
    PROVE  /\ FactsToRetract(e) \subseteq Fact /\ IsFiniteSet(FactsToRetract(e))
           /\ \A f \in FactsToRetract(e) : f.e = e
<1>1. AssertedOf(e) \subseteq written /\ \A r \in AssertedOf(e) : r.e = e
  BY Zenon DEF AssertedOf, Typed
<1>2. IsFiniteSet(AssertedOf(e))
  BY Zenon, <1>1, FS_Subset DEF Typed
<1>3. [r \in AssertedOf(e) |-> FactOf(r)] \in Surjection(AssertedOf(e), FactsToRetract(e))
  BY Zenon DEF Surjection, FactsToRetract
<1>4. IsFiniteSet(FactsToRetract(e))
  BY Zenon, <1>2, <1>3, FS_Surjection
<1>5. ASSUME NEW f \in FactsToRetract(e) PROVE f \in Fact /\ f.e = e
  <2>1. PICK r \in AssertedOf(e) : f = FactOf(r)
    BY Zenon DEF FactsToRetract
  <2>2. f \in Fact
    BY Zenon, <1>1, <2>1 DEF Typed
  <2>3. f.e = r.e
    BY Zenon, <2>1 DEF FactOf
  <2> QED
    BY Zenon, <1>1, <2>1, <2>2, <2>3
<1> QED
  BY Zenon, <1>4, <1>5

LEMMA ReadBackTyped == ASSUME NEW f \in Fact PROVE ReadBack(f) \in Int
<1>1. f.v \in Int
  BY Zenon, FactIs
<1>2. Foreign(f.v) \in Int
  BY <1>1 DEF Foreign
<1>3. f.v \in DOMAIN Misread => Misread[f.v] \in Int
  BY Zenon, DatomLogAssumption
<1> QED
  BY <1>1, <1>2, <1>3 DEF ReadBack

\* What is read back for the facts retract_entity read.
Retractions == {[f EXCEPT !.v = ReadBack(f)] : f \in busy.facts}

LEMMA RetractionsTyped ==
    ASSUME Typed
    PROVE  /\ Retractions \subseteq Fact /\ IsFiniteSet(Retractions)
           /\ \A g \in Retractions : \E f \in busy.facts : g.e = f.e
           /\ \A f \in busy.facts : ReadBack(f) = f.v => f \in Retractions
<1>1. busy.facts \subseteq Fact /\ IsFiniteSet(busy.facts)
  BY Zenon DEF Typed, Call
<1>2. [f \in busy.facts |-> [f EXCEPT !.v = ReadBack(f)]] \in Surjection(busy.facts, Retractions)
  BY Zenon DEF Surjection, Retractions
<1>3. IsFiniteSet(Retractions)
  BY Zenon, <1>1, <1>2, FS_Surjection
<1>4. ASSUME NEW g \in Retractions PROVE g \in Fact /\ \E f \in busy.facts : g.e = f.e
  <2>1. PICK f \in busy.facts : g = [f EXCEPT !.v = ReadBack(f)]
    BY Zenon DEF Retractions
  <2>2. f \in Fact /\ ReadBack(f) \in Int
    BY Zenon, <1>1, ReadBackTyped
  <2>3. PICK x \in Int : x = ReadBack(f)
    BY Zenon, <2>2
  <2>4. g \in Fact /\ g.e = f.e
    BY <2>1, <2>2, <2>3 DEF Fact
  <2> QED
    BY Zenon, <2>4
<1>5. ASSUME NEW f \in busy.facts, ReadBack(f) = f.v PROVE f \in Retractions
  <2>1. f \in Fact
    BY Zenon, <1>1
  <2>2. [f EXCEPT !.v = f.v] = f
    BY <2>1 DEF Fact
  <2> QED
    BY Zenon, <1>5, <2>2 DEF Retractions
<1> QED
  BY Zenon, <1>3, <1>4, <1>5

LEMMA FactsSmall == ASSUME Typed, NEW F \in SUBSET cur PROVE F \subseteq Fact /\ IsFiniteSet(F)
<1>1. F \subseteq Pool
  BY Zenon DEF Typed
<1> QED
  BY Zenon, <1>1, FS_Subset, DatomLogAssumption

\* Every transaction is of that kind.
LEMMA Transactions ==
    ASSUME Typed, NEW t, Load(t) \/ AddFact(t) \/ RetractFact(t) \/ RetractCommit(t)
    PROVE  \E A \in SUBSET Pool, R \in SUBSET Fact : Logs(t, A, R) /\ Slots(A, R)
<1>1. CASE Load(t)
  <2>1. PICK A \in Loads : Commit(t, A, {}) /\ busy' = busy
    BY Zenon, <1>1 DEF Load
  <2>2. A \in SUBSET Pool
    BY Zenon, DatomLogAssumption
  <2>3. {} \in SUBSET Fact /\ A \cap {} = {}
    BY Zenon
  <2>4. log = {}
    BY Zenon, <1>1 DEF Load, Typed
  <2>5. Logs(t, A, {})
    BY Zenon, <2>1, <2>2, <2>3, FS_EmptySet, CommitLogs
  <2> QED
    BY Zenon, <2>2, <2>3, <2>4, <2>5 DEF Slots
<1>2. CASE AddFact(t)
  <2>1. PICK f \in Additions \ cur : Commit(t, {f}, Replaced(f)) /\ busy' = busy
    BY Zenon, <1>2 DEF AddFact
  <2>2. {f} \in SUBSET Pool /\ {f} \cap Replaced(f) = {} /\ Replaced(f) \in SUBSET cur
    <3>1. f \in Pool
      BY Zenon, DatomLogAssumption
    <3> QED
      BY Zenon, <2>1, <3>1 DEF Replaced
  <2>3. Replaced(f) \in SUBSET Fact /\ IsFiniteSet(Replaced(f))
    BY Zenon, <2>2, FactsSmall
  <2>4. Logs(t, {f}, Replaced(f))
    BY Zenon, <2>1, <2>2, <2>3, CommitLogs
  <2>5. Slots({f}, Replaced(f))
    BY Zenon DEF Slots, SameSlot, Replaced
  <2> QED
    BY Zenon, <2>2, <2>3, <2>4, <2>5
<1>3. CASE RetractFact(t)
  <2>1. PICK f \in cur : Commit(t, {}, {f}) /\ busy' = busy
    BY Zenon, <1>3 DEF RetractFact
  <2>2. {f} \in SUBSET Fact /\ IsFiniteSet({f}) /\ {} \in SUBSET Pool /\ {} \cap {f} = {}
    BY Zenon, FactsSmall
  <2>3. Logs(t, {}, {f})
    BY Zenon, <2>1, <2>2, CommitLogs
  <2> QED
    BY Zenon, <2>2, <2>3 DEF Slots
<1>4. CASE RetractCommit(t)
  <2>1. Commit(t, {}, Retractions) /\ busy' = Idle
    BY Zenon, <1>4 DEF RetractCommit, Retractions
  <2>2. Retractions \in SUBSET Fact /\ IsFiniteSet(Retractions) /\ {} \in SUBSET Pool /\ {} \cap Retractions = {}
    BY Zenon, RetractionsTyped
  <2>3. Logs(t, {}, Retractions)
    BY Zenon, <2>1, <2>2, CommitLogs
  <2> QED
    BY Zenon, <2>2, <2>3 DEF Slots
<1> QED
  BY Zenon, <1>1, <1>2, <1>3, <1>4

\* The steps that are no transactions.
Aside ==
    \/ \E e \in Retired : RetractRead(e)
    \/ RetractFails \/ ExciseCheck \/ ExciseDelete
    \/ StatsDatoms \/ StatsTransactions \/ StatsBasis \/ StatsDone \/ UNCHANGED vars

LEMMA Steps ==
    ASSUME Typed, [Next]_vars
    PROVE  Aside \/ \E t \in Ids, A \in SUBSET Pool, R \in SUBSET Fact : Logs(t, A, R) /\ Slots(A, R)
BY Zenon, Transactions DEF Next, Aside

LEMMA AsideKeeps ==
    ASSUME Aside
    PROVE  UNCHANGED <<cur, nth, basis, written>> /\ (UNCHANGED <<log, audit>> \/ ExciseDelete)
BY Zenon DEF Aside, RetractRead, RetractFails, ExciseCheck, ExciseDelete, StatsDatoms, StatsTransactions,
             StatsBasis, StatsDone, store, vars

LEMMA IdleTyped == Idle \in Call /\ Idle.facts = {} /\ Idle.k = "idle"
BY Zenon DEF Idle, Call

-----------------------------------------------------------------------------
(* The inductive invariant *)

LEMMA TypedStep == ASSUME Typed, Numbered, [Next]_vars PROVE Typed'
<1>1. ASSUME NEW t, NEW A \in SUBSET Pool, NEW R \in SUBSET Fact, Logs(t, A, R) PROVE Typed'
  <2>1. ASSUME NEW r \in written' PROVE FactOf(r) \in Fact /\ r.tx \in Txs' /\ r.added \in BOOLEAN
    <3>1. Txs' = Txs \cup {t}
      BY Zenon, <1>1 DEF Logs
    <3>2. CASE r \in written
      BY Zenon, <3>1, <3>2 DEF Typed
    <3>3. CASE r.tx = t /\ r.added \in BOOLEAN /\ FactOf(r) \in A \cup R
      BY Zenon, <3>1, <3>3, DatomLogAssumption
    <3> QED
      BY <1>1, <3>2, <3>3, Zenon DEF Logs, New
  <2>2. cur' \subseteq Pool /\ log' \subseteq written' /\ IsFiniteSet(written')
    BY Zenon, <1>1 DEF Logs, Typed
  <2>3. busy' \in Call /\ IsFiniteSet(busy'.facts)
    BY Zenon, <1>1, IdleTyped, FS_EmptySet DEF Logs, Typed
  <2> QED
    BY Zenon, <2>1, <2>2, <2>3 DEF Typed, FactOf, Txs
<1>2. ASSUME log' \subseteq log, UNCHANGED <<cur, nth, written>>, busy' \in Call, IsFiniteSet(busy'.facts)
      PROVE  Typed'
  BY Zenon, <1>2 DEF Typed, FactOf, Txs
<1>3. ASSUME Aside PROVE log' \subseteq log /\ UNCHANGED <<cur, nth, written>>
  BY Zenon, <1>3, AsideKeeps DEF ExciseDelete
<1>4. ASSUME NEW e \in Retired, RetractRead(e) PROVE busy' \in Call /\ IsFiniteSet(busy'.facts)
  <2>1. PICK F \in SUBSET Fact : F = FactsToRetract(e) /\ IsFiniteSet(F)
    BY Zenon, FactsRead
  <2>2. PICK L \in SUBSET Pool : L = {f \in cur : f.e = e}
    BY Zenon DEF Typed
  <2>3. busy' = [Idle EXCEPT !.k = "retract", !.es = {e}, !.facts = F, !.live = L]
    BY Zenon, <1>4, <2>1, <2>2 DEF RetractRead
  <2> QED
    BY Zenon, <2>1, <2>3, IdleTyped DEF Call
<1>5. ASSUME ExciseCheck PROVE busy' \in Call /\ IsFiniteSet(busy'.facts)
  <2>1. PICK E \in Targets : busy' = [Idle EXCEPT !.k = "excise", !.es = E]
    BY Zenon, <1>5 DEF ExciseCheck
  <2>2. busy' \in Call /\ busy'.facts = {}
    BY Zenon, <2>1, IdleTyped DEF Call
  <2> QED
    BY Zenon, <2>2, FS_EmptySet
<1>6. ASSUME RetractFails \/ ExciseDelete \/ StatsDone PROVE busy' \in Call /\ IsFiniteSet(busy'.facts)
  BY Zenon, <1>6, IdleTyped, FS_EmptySet DEF RetractFails, ExciseDelete, StatsDone
<1>7. ASSUME StatsDatoms PROVE busy' \in Call /\ IsFiniteSet(busy'.facts)
  <2>1. IsFiniteSet({r \in log : r.added})
    BY Zenon, FS_Subset DEF Typed
  <2>2. PICK n \in Nat : n = Cardinality({r \in log : r.added})
    BY Zenon, <2>1, FS_CardinalityType
  <2>3. busy' = [Idle EXCEPT !.k = "stats1", !.datoms = n]
    BY Zenon, <1>7, <2>2 DEF StatsDatoms
  <2>4. busy' \in Call /\ busy'.facts = {}
    BY Zenon, <2>3, IdleTyped DEF Call
  <2> QED
    BY Zenon, <2>4, FS_EmptySet
<1>8. ASSUME StatsTransactions \/ StatsBasis PROVE busy' \in Call /\ IsFiniteSet(busy'.facts)
  <2>1. PICK n \in Nat, b \in Nat : n = Commits /\ b = basis
    BY Zenon, <1>8 DEF Numbered
  <2>2. \/ busy' = [busy EXCEPT !.k = "stats2", !.txs = n]
        \/ busy' = [busy EXCEPT !.k = "stats", !.basis = b]
    BY Zenon, <1>8, <2>1 DEF StatsTransactions, StatsBasis
  <2>3. busy' \in Call /\ busy'.facts = busy.facts
    BY Zenon, <2>2 DEF Typed, Call
  <2> QED
    BY Zenon, <2>3 DEF Typed
<1> QED
  BY Zenon, <1>1, <1>2, <1>3, <1>4, <1>5, <1>6, <1>7, <1>8, Steps DEF Aside, vars, Typed

LEMMA NumberedStep == ASSUME Typed, Numbered, [Next]_vars PROVE Numbered'
<1>1. ASSUME NEW t \in Ids, NEW A, NEW R, Logs(t, A, R) PROVE Numbered'
  <2>1. /\ t \notin Txs /\ Txs' = Txs \cup {t} /\ nth'[t] = Commits + 1 /\ \A x \in Txs : nth'[x] = nth[x]
        /\ basis' = (IF t > basis THEN t ELSE basis)
    BY Zenon, <1>1 DEF Logs
  <2>2. IsFiniteSet(Txs') /\ Cardinality(Txs') = Commits + 1
    BY Zenon, <2>1, FS_AddElement DEF Numbered, Commits
  <2>3. Commits' = Commits + 1 /\ Commits \in Nat /\ Commits' \in Nat
    <3>1. Commits' = Cardinality(Txs')
      BY Zenon DEF Commits, Txs
    <3> QED
      BY <2>2, <3>1 DEF Numbered
  <2>4. t \in Nat \ {0} /\ basis' \in Nat /\ t <= basis' /\ basis <= basis' /\ basis \in Nat
    BY <2>1, DatomLogAssumption DEF Ids, Numbered
  <2>5. ASSUME NEW x \in Txs' PROVE x \in Nat \ {0} /\ x <= basis' /\ nth'[x] \in Nat /\ nth'[x] <= Commits'
    BY <2>1, <2>3, <2>4 DEF Numbered
  <2>6. ASSUME NEW x \in Txs', NEW y \in Txs', nth'[x] = nth'[y] PROVE x = y
    <3>1. ASSUME NEW z \in Txs PROVE nth[z] # Commits + 1
      BY <2>3, <3>1 DEF Numbered
    <3> QED
      BY Zenon, <2>1, <2>6, <3>1 DEF Numbered
  <2> QED
    BY Zenon, <2>2, <2>3, <2>4, <2>5, <2>6 DEF Numbered, Txs, Commits
<1>2. ASSUME UNCHANGED <<nth, basis>> PROVE Numbered'
  BY Zenon, <1>2 DEF Numbered, Txs, Commits
<1> QED
  BY Zenon, <1>1, <1>2, AsideKeeps, Steps

\* Ids, rows and places as the next lemmas use them.
LEMMA PlacesKept ==
    ASSUME Typed, Numbered, NEW t, NEW A, NEW R, Logs(t, A, R)
    PROVE  /\ \A r \in log : r.tx \in Txs /\ nth'[r.tx] = nth[r.tx] /\ nth[r.tx] \in Nat /\ nth[r.tx] < nth'[t] /\ r.tx # t
           /\ nth'[t] \in Nat
<1>1. /\ t \notin Txs /\ nth'[t] = Commits + 1 /\ \A x \in Txs : nth'[x] = nth[x]
  BY Zenon DEF Logs
<1>2. ASSUME NEW r \in log PROVE r.tx \in Txs
  BY Zenon DEF Typed
<1> QED
  BY <1>1, <1>2 DEF Numbered

LEMMA OneKindStep == ASSUME Typed, Numbered, OneKind, [Next]_vars PROVE OneKind'
<1>1. ASSUME NEW t, NEW A, NEW R, Logs(t, A, R), NEW r \in log', NEW s \in log', FactOf(r) = FactOf(s), r.tx = s.tx
      PROVE  r.added = s.added
  <2>1. A \cap R = {} /\ \A q \in log' : q \in log \/ New(q, t, TRUE, A) \/ New(q, t, FALSE, R)
    BY Zenon, <1>1 DEF Logs
  <2>2. \A q \in log : q.tx # t
    BY Zenon, <1>1, PlacesKept
  <2>3. CASE r \in log /\ s \in log
    BY Zenon, <1>1, <2>3 DEF OneKind
  <2> QED
    BY Zenon, <1>1, <2>1, <2>2, <2>3 DEF New
<1>2. ASSUME log' \subseteq log PROVE OneKind'
  BY Zenon, <1>2 DEF OneKind, FactOf
<1>3. ASSUME Aside PROVE log' \subseteq log
  BY Zenon, <1>3, AsideKeeps DEF ExciseDelete
<1> QED
  BY Zenon, <1>1, <1>2, <1>3, Steps DEF OneKind, FactOf

LEMMA KeptStep == ASSUME Typed, Numbered, Kept, [Next]_vars PROVE Kept'
<1>1. ASSUME NEW t, NEW A, NEW R, Logs(t, A, R), NEW r \in log', r.added
      PROVE  FactOf(r) \in cur' \/ \E s \in log' : FactOf(s) = FactOf(r) /\ ~s.added /\ nth'[r.tx] < nth'[s.tx]
  <2>1. /\ cur' = (cur \ R) \cup A /\ log \subseteq log'
        /\ r \in log \/ New(r, t, TRUE, A) \/ New(r, t, FALSE, R)
        /\ \A f \in R : \E s \in log' : FactOf(s) = f /\ s.tx = t /\ ~s.added
    BY Zenon, <1>1 DEF Logs
  <2>2. /\ \A q \in log : nth'[q.tx] = nth[q.tx] /\ nth[q.tx] < nth'[t]
    BY Zenon, <1>1, PlacesKept
  <2>3. CASE New(r, t, TRUE, A)
    BY Zenon, <2>1, <2>3 DEF New
  <2>4. CASE r \in log
    <3>1. CASE FactOf(r) \in R
      BY Zenon, <2>1, <2>2, <2>4, <3>1
    <3>2. CASE FactOf(r) \in cur \ R
      BY Zenon, <2>1, <3>2
    <3>3. ASSUME NEW s \in log, FactOf(s) = FactOf(r), ~s.added, nth[r.tx] < nth[s.tx]
          PROVE  \E q \in log' : FactOf(q) = FactOf(r) /\ ~q.added /\ nth'[r.tx] < nth'[q.tx]
      BY Zenon, <2>1, <2>2, <2>4, <3>3
    <3> QED
      BY Zenon, <1>1, <2>4, <3>1, <3>2, <3>3 DEF Kept, CurrentOrRetracted, RowsOf
  <2> QED
    BY Zenon, <1>1, <2>1, <2>3, <2>4 DEF New
<1>2. ASSUME NEW t, NEW A, NEW R, Logs(t, A, R) PROVE Kept'
  BY Zenon, <1>1, <1>2 DEF Kept, CurrentOrRetracted, RowsOf, FactOf
<1>3. ASSUME UNCHANGED <<log, cur, nth>> PROVE Kept'
  BY Zenon, <1>3 DEF Kept, CurrentOrRetracted, RowsOf, FactOf
<1>4. ASSUME ExciseDelete PROVE Kept'
  <2>1. log' = log \ Excised(busy.es) /\ UNCHANGED <<cur, nth>>
    BY Zenon, <1>4 DEF ExciseDelete
  <2>2. ASSUME NEW r \in log', NEW s \in log, FactOf(s) = FactOf(r) PROVE s \in log'
    <3>1. s.e = r.e
      BY Zenon, <2>2 DEF FactOf
    <3> QED
      BY Zenon, <2>1, <3>1 DEF Excised
  <2> QED
    BY Zenon, <2>1, <2>2 DEF Kept, CurrentOrRetracted, RowsOf, FactOf
<1> QED
  BY Zenon, <1>2, <1>3, <1>4, AsideKeeps, Steps

LEMMA HeldStep == ASSUME Typed, Numbered, Held, [Next]_vars PROVE Held'
<1>1. ASSUME NEW t, NEW A, NEW R, Logs(t, A, R), NEW f \in cur', f.e \notin Gone
      PROVE  \E r \in log' : LastAsserts(r, f)'
  <2>1. /\ cur' = (cur \ R) \cup A /\ log \subseteq log' /\ A \cap R = {}
        /\ \A r \in log' : r \in log \/ New(r, t, TRUE, A) \/ New(r, t, FALSE, R)
        /\ \A g \in A : \E r \in log' : FactOf(r) = g /\ r.tx = t /\ r.added
    BY Zenon, <1>1 DEF Logs
  <2>2. \A q \in log : nth'[q.tx] = nth[q.tx] /\ nth[q.tx] < nth'[t]
    BY Zenon, <1>1, PlacesKept
  <2>3. ASSUME NEW s \in log', FactOf(s) = f, ~s.added PROVE s \in log
    BY Zenon, <2>1, <2>3 DEF New
  <2>4. CASE f \in A
    <3>1. PICK r \in log' : FactOf(r) = f /\ r.tx = t /\ r.added
      BY Zenon, <2>1, <2>4
    <3> QED
      BY Zenon, <2>2, <2>3, <3>1 DEF LastAsserts, FactOf
  <2>5. CASE f \in cur
    <3>1. PICK r \in log : LastAsserts(r, f)
      BY Zenon, <1>1, <2>5 DEF Held
    <3>2. r \in log' /\ LastAsserts(r, f)'
      BY Zenon, <2>1, <2>2, <2>3, <3>1 DEF LastAsserts, FactOf
    <3> QED
      BY Zenon, <3>2
  <2> QED
    BY Zenon, <2>1, <2>4, <2>5
<1>2. ASSUME NEW t, NEW A, NEW R, Logs(t, A, R) PROVE Held'
  <2>1. Gone' = Gone
    BY Zenon, <1>2 DEF Logs, Gone
  <2> QED
    BY Zenon, <1>1, <1>2, <2>1 DEF Held
<1>3. ASSUME UNCHANGED <<log, cur, nth, audit>> PROVE Held'
  BY Zenon, <1>3 DEF Held, LastAsserts, FactOf, Gone
<1>4. ASSUME ExciseDelete PROVE Held'
  <2>1. log' = log \ Excised(busy.es) /\ UNCHANGED <<cur, nth>> /\ audit' = audit \cup {busy.es}
    BY Zenon, <1>4 DEF ExciseDelete
  <2>2. Gone \subseteq Gone' /\ busy.es \subseteq Gone'
    BY Zenon, <2>1 DEF Gone
  <2>3. ASSUME NEW f \in cur', f.e \notin Gone' PROVE \E r \in log' : LastAsserts(r, f)'
    <3>1. PICK r \in log : LastAsserts(r, f)
      BY Zenon, <2>1, <2>2, <2>3 DEF Held
    <3>2. r.e = f.e
      BY Zenon, <3>1 DEF LastAsserts, FactOf
    <3>3. r \in log'
      BY Zenon, <2>1, <2>2, <2>3, <3>2 DEF Excised
    <3>4. LastAsserts(r, f)'
      BY Zenon, <2>1, <3>1 DEF LastAsserts, FactOf
    <3> QED
      BY Zenon, <3>3, <3>4
  <2> QED
    BY Zenon, <2>3 DEF Held
<1> QED
  BY Zenon, <1>2, <1>3, <1>4, AsideKeeps, Steps

LEMMA ReplacesStep == ASSUME Typed, Numbered, Kept, Replaces, [Next]_vars PROVE Replaces'
<1>1. ASSUME NEW t, NEW A, NEW R, Logs(t, A, R), Slots(A, R), NEW r \in log', NEW n \in log', r.added, n.added,
             SameSlot(r, n), nth'[r.tx] < nth'[n.tx]
      PROVE  \E s \in log' : Between(s, r, n)'
  <2>1. /\ cur' = (cur \ R) \cup A /\ log \subseteq log'
        /\ \A q \in log' : q \in log \/ New(q, t, TRUE, A) \/ New(q, t, FALSE, R)
        /\ \A f \in R : \E s \in log' : FactOf(s) = f /\ s.tx = t /\ ~s.added
    BY Zenon, <1>1 DEF Logs
  <2>2. /\ \A q \in log : nth'[q.tx] = nth[q.tx] /\ nth[q.tx] \in Nat /\ nth[q.tx] < nth'[t] /\ nth[q.tx] <= nth'[t]
        /\ nth'[t] \in Nat /\ nth'[t] <= nth'[t]
    BY <1>1, PlacesKept
  <2>3. r \in log
    <3>1. n.tx = t \/ n \in log
      BY Zenon, <2>1 DEF New
    <3>2. r \in log \/ nth'[r.tx] = nth'[t]
      BY Zenon, <2>1 DEF New
    <3> QED
      BY <1>1, <2>2, <3>1, <3>2
  <2>4. CASE n \in log
    <3>1. PICK s \in log : Between(s, r, n)
      BY Zenon, <1>1, <2>2, <2>3, <2>4 DEF Replaces
    <3>2. Between(s, r, n)'
      BY Zenon, <2>2, <2>3, <2>4, <3>1 DEF Between, FactOf
    <3> QED
      BY Zenon, <2>1, <3>2
  <2>5. CASE n \notin log
    <3>1. n.tx = t /\ FactOf(n) \in A
      BY Zenon, <1>1, <2>1, <2>5 DEF New
    <3>2. CASE FactOf(r) \in R
      <4>1. PICK s \in log' : FactOf(s) = FactOf(r) /\ s.tx = t /\ ~s.added
        BY Zenon, <2>1, <3>2
      <4>2. Between(s, r, n)'
        BY Zenon, <2>2, <2>3, <3>1, <4>1 DEF Between, FactOf
      <4> QED
        BY Zenon, <4>2
    <3>3. CASE FactOf(r) \notin R
      <4>1. SameSlot(FactOf(n), FactOf(r))
        BY <1>1 DEF SameSlot, FactOf
      <4>2. FactOf(r) \notin cur
        BY Zenon, <1>1, <2>3, <3>1, <3>3, <4>1 DEF Slots
      <4>3. PICK s \in log : FactOf(s) = FactOf(r) /\ ~s.added /\ nth[r.tx] < nth[s.tx]
        BY Zenon, <1>1, <2>3, <4>2 DEF Kept, CurrentOrRetracted, RowsOf
      <4>4. Between(s, r, n)'
        BY Zenon, <2>2, <2>3, <3>1, <4>3 DEF Between, FactOf
      <4> QED
        BY Zenon, <2>1, <4>4
    <3> QED
      BY Zenon, <3>2, <3>3
  <2> QED
    BY Zenon, <2>4, <2>5
<1>2. ASSUME NEW t, NEW A, NEW R, Logs(t, A, R), Slots(A, R) PROVE Replaces'
  BY Zenon, <1>1, <1>2 DEF Replaces, SameSlot
<1>3. ASSUME UNCHANGED <<log, nth>> PROVE Replaces'
  BY Zenon, <1>3 DEF Replaces, SameSlot, Between, FactOf
<1>4. ASSUME ExciseDelete PROVE Replaces'
  <2>1. log' = log \ Excised(busy.es) /\ nth' = nth
    BY Zenon, <1>4 DEF ExciseDelete
  <2>2. ASSUME NEW r \in log', NEW s \in log, FactOf(s) = FactOf(r) PROVE s \in log'
    <3>1. s.e = r.e
      BY Zenon, <2>2 DEF FactOf
    <3> QED
      BY Zenon, <2>1, <3>1 DEF Excised
  <2>3. ASSUME NEW r \in log', NEW n \in log', r.added, n.added, SameSlot(r, n), nth'[r.tx] < nth'[n.tx]
        PROVE  \E s \in log' : Between(s, r, n)'
    <3>1. PICK s \in log : Between(s, r, n)
      BY Zenon, <2>1, <2>3 DEF Replaces
    <3> QED
      BY Zenon, <2>1, <2>2, <3>1 DEF Between, FactOf
  <2> QED
    BY Zenon, <2>3 DEF Replaces, SameSlot
<1> QED
  BY Zenon, <1>2, <1>3, <1>4, AsideKeeps, Steps

\* A fact that holds has a row that asserts it, unless its entity was excised.
LEMMA CurrentIsLogged ==
    ASSUME Held, NEW f \in cur, f.e \notin Gone
    PROVE  \E r \in log : r.added /\ FactOf(r) = f
BY Zenon DEF Held, LastAsserts

\* What a step aside leaves in the place of a call under way.
LEMMA CallStep ==
    ASSUME Typed, Numbered, Aside
    PROVE  \/ busy' = busy /\ UNCHANGED vars
           \/ busy'.k \in {"idle", "excise"}
           \/ \E e \in Retired : RetractRead(e) /\ busy'.k = "retract" /\ busy'.es = {e} /\ busy'.facts = FactsToRetract(e)
                                 /\ busy'.live = {f \in cur : f.e = e}
           \/ StatsDatoms /\ busy'.k = "stats1" /\ busy'.datoms = Cardinality({r \in log : r.added})
           \/ StatsTransactions /\ busy'.k = "stats2" /\ busy'.datoms = busy.datoms /\ busy'.txs = Commits
           \/ StatsBasis /\ busy'.k = "stats" /\ busy'.datoms = busy.datoms /\ busy'.txs = busy.txs /\ busy'.basis = basis
<1>1. ASSUME NEW e \in Retired, RetractRead(e)
      PROVE  busy'.k = "retract" /\ busy'.es = {e} /\ busy'.facts = FactsToRetract(e) /\ busy'.live = {f \in cur : f.e = e}
  BY Zenon, <1>1 DEF RetractRead, Idle
<1>2. ASSUME ExciseCheck PROVE busy'.k = "excise"
  BY Zenon, <1>2 DEF ExciseCheck, Idle
<1>3. ASSUME RetractFails \/ ExciseDelete \/ StatsDone PROVE busy'.k = "idle"
  BY Zenon, <1>3, IdleTyped DEF RetractFails, ExciseDelete, StatsDone
<1>4. ASSUME StatsDatoms PROVE busy'.k = "stats1" /\ busy'.datoms = Cardinality({r \in log : r.added})
  BY Zenon, <1>4 DEF StatsDatoms, Idle
<1>5. ASSUME StatsTransactions PROVE busy'.k = "stats2" /\ busy'.datoms = busy.datoms /\ busy'.txs = Commits
  BY Zenon, <1>5 DEF StatsTransactions, Typed, Call
<1>6. ASSUME StatsBasis
      PROVE  busy'.k = "stats" /\ busy'.datoms = busy.datoms /\ busy'.txs = busy.txs /\ busy'.basis = basis
  BY Zenon, <1>6 DEF StatsBasis, Typed, Call
<1> QED
  BY Zenon, <1>1, <1>2, <1>3, <1>4, <1>5, <1>6 DEF Aside, vars

LEMMA ReadStep == ASSUME Typed, Numbered, Held, Read, [Next]_vars PROVE Read'
<1>1. ASSUME NEW t, NEW A, NEW R, Logs(t, A, R) PROVE Read'
  <2>1. (busy' = busy \/ busy'.k = "idle") /\ Gone' = Gone
    BY Zenon, <1>1, IdleTyped DEF Logs, Gone
  <2> QED
    BY Zenon, <2>1 DEF Read
<1>2. CASE UNCHANGED vars
  BY Zenon, <1>2 DEF vars, Read, Gone
<1>3. CASE busy'.k # "retract"
  BY Zenon, <1>3 DEF Read
<1>4. ASSUME NEW e \in Retired, RetractRead(e), busy'.es = {e}, busy'.facts = FactsToRetract(e),
             busy'.live = {f \in cur : f.e = e}
      PROVE  Read'
  <2>1. Gone' = Gone
    BY Zenon, <1>4 DEF RetractRead, Gone
  <2>2. ASSUME NEW f \in cur, f.e = e, f.e \notin Gone PROVE f \in FactsToRetract(e)
    <3>1. PICK r \in log : r.added /\ FactOf(r) = f
      BY Zenon, <2>2, CurrentIsLogged
    <3>2. r.e = e
      BY Zenon, <2>2, <3>1 DEF FactOf
    <3> QED
      BY Zenon, <3>1, <3>2 DEF FactsToRetract, AssertedOf
  <2>3. \A f \in FactsToRetract(e) : f.e = e
    BY Zenon, FactsRead
  <2> QED
    BY Zenon, <1>4, <2>1, <2>2, <2>3 DEF Read
<1> QED
  BY Zenon, <1>1, <1>2, <1>3, <1>4, CallStep, Steps

\* Rows and ids are only added, so the counts of those up to a basis grow.
LEMMA CountGrows ==
    ASSUME Typed, Numbered, Typed', Numbered', NEW b \in Nat, NEW c \in Nat, b <= c,
           written \subseteq written', Txs \subseteq Txs'
    PROVE  /\ Cardinality(AssertedBy(b)) \in Nat /\ Cardinality({r \in written' : r.added /\ r.tx <= c}) \in Nat
           /\ Cardinality(AssertedBy(b)) <= Cardinality({r \in written' : r.added /\ r.tx <= c})
           /\ Cardinality(TxsBy(b)) \in Nat /\ Cardinality({t \in Txs' : t <= c}) \in Nat
           /\ Cardinality(TxsBy(b)) <= Cardinality({t \in Txs' : t <= c})
<1>1. PICK B, U : B = {r \in written' : r.added /\ r.tx <= c} /\ U = {t \in Txs' : t <= c}
  BY Zenon
<1>2. IsFiniteSet(B) /\ IsFiniteSet(U)
  BY Zenon, <1>1, FS_Subset DEF Typed, Numbered
<1>3. \A t \in Txs : t \in Nat
  BY Zenon DEF Numbered
<1>4. \A r \in written : r.tx \in Nat
  BY Zenon, <1>3 DEF Typed
<1>5. AssertedBy(b) \in SUBSET B
  BY <1>1, <1>4 DEF AssertedBy
<1>6. TxsBy(b) \in SUBSET U
  BY <1>1, <1>3 DEF TxsBy
<1> QED
  BY Zenon, <1>1, <1>2, <1>5, <1>6, FS_Subset, FS_CardinalityType

LEMMA CountedStep == ASSUME Typed, Numbered, Typed', Numbered', Counted, [Next]_vars PROVE Counted'
<1>1. basis \in Nat /\ basis' \in Nat /\ busy.datoms \in Nat /\ busy.txs \in Nat /\ busy.basis \in Nat
  BY Zenon DEF Typed, Numbered, Call
<1>2. ASSUME NEW t \in Ids, NEW A, NEW R, Logs(t, A, R) PROVE Counted'
  <2>1. (busy' = busy \/ busy'.k = "idle") /\ written \subseteq written' /\ Txs \subseteq Txs'
    BY Zenon, <1>2, IdleTyped DEF Logs
  <2>2. basis <= basis'
    <3>1. basis' = (IF t > basis THEN t ELSE basis)
      BY Zenon, <1>2 DEF Logs
    <3> QED
      BY <1>1, <3>1, DatomLogAssumption DEF Ids
  <2>3. PICK n, m, i, j, p, q, u, v :
           /\ n = Cardinality(AssertedBy(basis)) /\ m = Cardinality({r \in written' : r.added /\ r.tx <= basis'})
           /\ i = Cardinality(AssertedBy(busy.basis)) /\ j = Cardinality({r \in written' : r.added /\ r.tx <= busy.basis})
           /\ p = Cardinality(TxsBy(basis)) /\ q = Cardinality({x \in Txs' : x <= basis'})
           /\ u = Cardinality(TxsBy(busy.basis)) /\ v = Cardinality({x \in Txs' : x <= busy.basis})
    BY Zenon
  <2>4. n \in Nat /\ m \in Nat /\ n <= m /\ p \in Nat /\ q \in Nat /\ p <= q
    BY Zenon, <1>1, <2>1, <2>2, <2>3, CountGrows
  <2>5. i \in Nat /\ j \in Nat /\ i <= j /\ u \in Nat /\ v \in Nat /\ u <= v
    <3>1. busy.basis <= busy.basis
      BY <1>1
    <3> QED
      BY Zenon, <1>1, <2>1, <2>3, <3>1, CountGrows
  <2>6. CASE busy' = busy
    <3>1. /\ m = Cardinality(AssertedBy(basis)') /\ j = Cardinality(AssertedBy(busy.basis)')
          /\ q = Cardinality(TxsBy(basis)') /\ v = Cardinality(TxsBy(busy.basis)')
      BY Zenon, <2>3, <2>6 DEF AssertedBy, TxsBy, Txs
    <3> QED
      BY <1>1, <2>2, <2>3, <2>4, <2>5, <2>6, <3>1 DEF Counted
  <2> QED
    BY Zenon, <2>1, <2>6 DEF Counted
<1>3. CASE UNCHANGED vars
  BY Zenon, <1>3 DEF vars, Counted, AssertedBy, TxsBy, Txs
<1>4. CASE busy'.k \in {"idle", "excise", "retract"}
  BY Zenon, <1>4 DEF Counted
<1>5. ASSUME StatsDatoms, busy'.k = "stats1", busy'.datoms = Cardinality({r \in log : r.added}) PROVE Counted'
  <2>1. {r \in log : r.added} \in SUBSET AssertedBy(basis)
    <3>1. \A r \in log : r \in written /\ r.tx <= basis
      BY Zenon DEF Typed, Numbered
    <3> QED
      BY Zenon, <3>1 DEF AssertedBy
  <2>2. IsFiniteSet(AssertedBy(basis))
    BY Zenon, FS_Subset DEF AssertedBy, Typed
  <2>3. Cardinality({r \in log : r.added}) <= Cardinality(AssertedBy(basis))
    BY Zenon, <2>1, <2>2, FS_Subset
  <2>4. AssertedBy(basis)' = AssertedBy(basis)
    BY Zenon, <1>5 DEF StatsDatoms, store, AssertedBy
  <2> QED
    BY Zenon, <1>5, <2>3, <2>4 DEF Counted
<1>6. ASSUME StatsTransactions, busy'.k = "stats2", busy'.datoms = busy.datoms, busy'.txs = Commits PROVE Counted'
  <2>1. AssertedBy(basis)' = AssertedBy(basis) /\ TxsBy(basis)' = TxsBy(basis)
    BY Zenon, <1>6 DEF StatsTransactions, store, AssertedBy, TxsBy, Txs
  <2>2. TxsBy(basis) = Txs
    BY Zenon DEF TxsBy, Numbered
  <2>3. Commits <= Cardinality(TxsBy(basis))
    BY <2>2 DEF Commits, Numbered
  <2> QED
    BY Zenon, <1>6, <2>1, <2>3 DEF Counted, StatsTransactions
<1>7. ASSUME StatsBasis, busy'.k = "stats", busy'.datoms = busy.datoms, busy'.txs = busy.txs, busy'.basis = basis
      PROVE  Counted'
  <2>1. AssertedBy(busy.basis)' = AssertedBy(basis) /\ TxsBy(busy.basis)' = TxsBy(basis)
    BY Zenon, <1>7 DEF StatsBasis, store, AssertedBy, TxsBy, Txs
  <2>2. basis' = basis /\ basis <= basis
    BY <1>1, <1>7 DEF StatsBasis, store
  <2> QED
    BY Zenon, <1>7, <2>1, <2>2 DEF Counted, StatsBasis
<1> QED
  BY Zenon, <1>2, <1>3, <1>4, <1>5, <1>6, <1>7, CallStep, Steps

LogInv == Typed /\ Numbered /\ OneKind /\ Kept /\ Held /\ Replaces /\ Read /\ Counted

LEMMA LogInvariant == Spec => []LogInv
<1>1. Init => LogInv
  <2> SUFFICES ASSUME Init PROVE LogInv
    BY Zenon
  <2>1. Typed
    BY Zenon, FS_EmptySet, IdleTyped DEF Init, Typed
  <2>2. Txs = {}
    BY Zenon DEF Init, Txs
  <2>3. Numbered
    <3>1. IsFiniteSet(Txs) /\ Commits = 0
      BY Zenon, <2>2, FS_EmptySet DEF Commits
    <3>2. basis = 0
      BY Zenon DEF Init
    <3>3. \A t \in Txs : FALSE
      BY Zenon, <2>2
    <3> QED
      BY <3>1, <3>2, <3>3 DEF Numbered
  <2>4. OneKind /\ Kept /\ Held /\ Replaces
    BY Zenon DEF Init, OneKind, Kept, Held, Replaces
  <2>5. Read /\ Counted
    BY Zenon, IdleTyped DEF Init, Read, Counted
  <2> QED
    BY Zenon, <2>1, <2>3, <2>4, <2>5 DEF LogInv
<1>2. LogInv /\ [Next]_vars => LogInv'
  BY Zenon, TypedStep, NumberedStep, OneKindStep, KeptStep, HeldStep, ReplacesStep, ReadStep, CountedStep DEF LogInv
<1> QED
  BY <1>1, <1>2, PTL DEF Spec

-----------------------------------------------------------------------------
(* The theorems *)

\* The counts of a db-stats are never ahead of the basis-t it answers with,
\* whatever commits, with whatever id, or is excised between its statements
\* (server.rs, Operation::DbStats).
THEOREM StatsBehindBasis == Spec => []StatsNeverAhead
<1>1. LogInv => StatsNeverAhead
  BY Zenon DEF LogInv, Counted, StatsNeverAhead, AssertedBy, TxsBy
<1> QED
  BY <1>1, LogInvariant, PTL

\* When the transaction of retract_entity commits, the facts that were live when
\* it read them and whose EDN reads back as they are hold no more, whatever
\* committed in between, unless their rows were excised; and the facts of other
\* entities are left (helpers.rs).
THEOREM HelperRetracts == Spec => HelperRetractsLive
<1>1. ASSUME LogInv, NEW t, RetractCommit(t)
      PROVE  /\ \A f \in busy.live : ReadBack(f) = f.v /\ f.e \notin Gone => f \notin cur'
             /\ {f \in cur' : f.e \notin busy.es} = {f \in cur : f.e \notin busy.es}
  <2>1. cur' = (cur \ Retractions) \cup {} /\ busy.k = "retract"
    BY Zenon, <1>1 DEF RetractCommit, Commit, Retractions
  <2>2. /\ \A g \in Retractions : \E f \in busy.facts : g.e = f.e
        /\ \A f \in busy.facts : ReadBack(f) = f.v => f \in Retractions
    BY Zenon, <1>1, RetractionsTyped DEF LogInv
  <2>3. /\ \A f \in busy.live : f.e \notin Gone => f \in busy.facts
        /\ \A f \in busy.facts : f.e \in busy.es
    BY Zenon, <1>1, <2>1 DEF LogInv, Read
  <2> QED
    BY Zenon, <2>1, <2>2, <2>3
<1>2. LogInv => [\A t \in Ids : RetractCommit(t) =>
                   /\ \A f \in busy.live : ReadBack(f) = f.v /\ f.e \notin Gone => f \notin cur'
                   /\ {f \in cur' : f.e \notin busy.es} = {f \in cur : f.e \notin busy.es}]_vars
  BY Zenon, <1>1
<1> QED
  BY <1>2, LogInvariant, PTL DEF HelperRetractsLive

\* Rows as the audit log reads them, with numbers for ids and places.
LEMMA Rows ==
    ASSUME LogInv
    PROVE  /\ \A r \in log : r.tx \in Nat \ {0} /\ r.tx \in Txs /\ r.tx <= basis /\ nth[r.tx] \in Nat
           /\ \A b \in Nat : AuditLog(0, b) = {r \in log : r.tx <= b}
           /\ AuditLog(0, basis) = log /\ basis \in Nat
<1>1. ASSUME NEW r \in log PROVE r.tx \in Nat \ {0} /\ r.tx \in Txs /\ r.tx <= basis /\ nth[r.tx] \in Nat
  <2>1. r.tx \in Txs
    BY Zenon DEF LogInv, Typed
  <2> QED
    BY Zenon, <2>1 DEF LogInv, Numbered
<1>2. basis \in Nat
  BY Zenon DEF LogInv, Numbered
<1>3. ASSUME NEW b \in Nat PROVE AuditLog(0, b) = {r \in log : r.tx <= b}
  BY <1>1 DEF AuditLog
<1>4. {r \in log : r.tx <= basis} = log
  BY Zenon, <1>1
<1> QED
  BY Zenon, <1>1, <1>2, <1>3, <1>4

\* Of rows whose transactions committed in the order of their ids, the one order
\* is the other.
LEMMA Ordered ==
    ASSUME LogInv, NEW S \in SUBSET log, InOrder(S), NEW r \in S, NEW s \in S
    PROVE  (r.tx < s.tx <=> nth[r.tx] < nth[s.tx]) /\ (r.tx <= s.tx <=> nth[r.tx] <= nth[s.tx])
<1>1. r.tx \in Nat /\ s.tx \in Nat /\ nth[r.tx] \in Nat /\ nth[s.tx] \in Nat
  BY Zenon, Rows
<1>2. (r.tx < s.tx => nth[r.tx] < nth[s.tx]) /\ (s.tx < r.tx => nth[s.tx] < nth[r.tx])
  BY Zenon DEF InOrder
<1>3. r.tx = s.tx => nth[r.tx] = nth[s.tx]
  BY Zenon
<1> QED
  BY <1>1, <1>2, <1>3

\* The audit log read in the order of ids gives the current database: of the
\* facts whose transactions committed in that order, those hold that some row
\* asserts and no later row retracts, but for excised entities (time_travel.rs,
\* log).
THEOREM LogReplaysCurrent == Spec => []LogReplays
<1>1. ASSUME LogInv, NEW f \in Pool, f.e \notin Gone, InOrder(RowsOf(f)) PROVE f \in cur <=> HeldBy(log, f)
  <2>1. RowsOf(f) \in SUBSET log /\ \A r \in log : FactOf(r) = f => r \in RowsOf(f)
    BY Zenon DEF RowsOf
  <2>2. ASSUME NEW r \in log, NEW s \in log, FactOf(r) = f, FactOf(s) = f
        PROVE  (r.tx < s.tx <=> nth[r.tx] < nth[s.tx]) /\ (s.tx < r.tx <=> nth[s.tx] < nth[r.tx])
    BY Zenon, <1>1, <2>1, <2>2, Ordered
  <2>3. ASSUME f \in cur PROVE HeldBy(log, f)
    <3>1. PICK r \in log : LastAsserts(r, f)
      BY Zenon, <1>1, <2>3 DEF LogInv, Held
    <3> QED
      BY Zenon, <2>2, <3>1 DEF HeldBy, LastAsserts
  <2>4. ASSUME HeldBy(log, f) PROVE f \in cur
    <3>1. PICK r \in log : FactOf(r) = f /\ r.added /\ \A s \in log : FactOf(s) = f /\ ~s.added => s.tx < r.tx
      BY Zenon, <2>4 DEF HeldBy
    <3>2. ASSUME NEW s \in log, FactOf(s) = f, ~s.added, nth[r.tx] < nth[s.tx] PROVE FALSE
      <4>1. s.tx < r.tx /\ r.tx < s.tx
        BY Zenon, <2>2, <3>1, <3>2
      <4>2. r.tx \in Nat /\ s.tx \in Nat
        BY Zenon, <1>1, Rows
      <4> QED
        BY <4>1, <4>2
    <3> QED
      BY Zenon, <1>1, <3>1, <3>2 DEF LogInv, Kept, CurrentOrRetracted, RowsOf
  <2> QED
    BY Zenon, <2>3, <2>4
<1>2. LogInv => LogReplays
  BY Zenon, <1>1, Rows DEF LogReplays
<1> QED
  BY <1>2, LogInvariant, PTL

-----------------------------------------------------------------------------
(* What the reads of the log show *)

LEMMA LeadsOfRow ==
    ASSUME NEW r, NEW f, r.e = f.e, r.a = f.a, r.v = f.v, NEW index
    PROVE  Leads(index, r) = Leads(index, f)
BY Zenon DEF Leads

LEMMA SelfInRange ==
    ASSUME NEW a, NEW v \in Int, NEW start \in SUBSET {v}, NEW end \in SUBSET {v}
    PROVE  InRange(a, v, start, end)
<1>1. TextOrder(a, v) \in Int
  BY DEF TextOrder
<1>2. TextOrder(a, v) <= TextOrder(a, v)
  BY <1>1
<1> QED
  BY Zenon, <1>2 DEF InRange

\* The reads of ReadsCoverCurrent that are about a fact show it.
Shown(f) ==
    /\ <<f.a, IF IsRef(f.a) THEN IdentOf(f.v) ELSE f.v>> \in EntityMap(f.e)
    /\ f.a \in EntityAttrs(f.e) /\ f.v \in AttributeValues(f.a)
    /\ Schema[f.a].type = "string" => f.e \in LookupByIdent(f.a, f.v)
    /\ \A index \in {"eavt", "aevt", "avet", "vaet"} : (index = "vaet" => IsRef(f.a)) =>
          \A n \in 0..Len(Leads(index, f)) : \E r \in DatomsAbout(f, index, n) : FactOf(r) = f
    /\ Schema[f.a].type \in Ranged =>
          \A start, end \in {{}, {f.v}} : \E r \in IndexRange(f.a, start, end) : FactOf(r) = f

LEMMA FactShown ==
    ASSUME NEW f \in Fact, NEW r \in log, r.added, FactOf(r) = f
    PROVE  Shown(f)
<1>1. r.e = f.e /\ r.a = f.a /\ r.v = f.v /\ r \in Asserted
  BY Zenon DEF FactOf, Asserted
<1>2. <<f.a, IF IsRef(f.a) THEN IdentOf(f.v) ELSE f.v>> \in EntityMap(f.e)
  BY Zenon, <1>1 DEF EntityMap
<1>3. f.a \in EntityAttrs(f.e) /\ f.v \in AttributeValues(f.a)
  BY Zenon, <1>1 DEF EntityAttrs, AttributeValues
<1>4. Schema[f.a].type = "string" => f.e \in LookupByIdent(f.a, f.v)
  BY Zenon, <1>1 DEF LookupByIdent
<1>5. ASSUME Schema[f.a].type \in Ranged, NEW start \in {{}, {f.v}}, NEW end \in {{}, {f.v}}
      PROVE  r \in IndexRange(f.a, start, end)
  <2>1. f.v \in Int
    BY Zenon, FactIs
  <2>2. start \in SUBSET {f.v} /\ end \in SUBSET {f.v}
    BY Zenon, <1>5
  <2>3. InRange(f.a, f.v, start, end)
    BY Zenon, <2>1, <2>2, SelfInRange
  <2> QED
    BY Zenon, <1>1, <1>5, <2>3 DEF IndexRange
<1>6. ASSUME NEW index \in {"eavt", "aevt", "avet", "vaet"}, index = "vaet" => IsRef(f.a),
             NEW n \in 0..Len(Leads(index, f)), Len(Leads(index, f)) \in Nat
      PROVE  r \in DatomsAbout(f, index, n)
  <2>1. PICK comps : comps = [i \in 1..n |-> Number(Leads(index, f)[i])]
    BY Zenon
  <2>2. n \in Nat
    BY <1>6
  <2>3. Len(comps) = n
    BY <2>1, <2>2
  <2>4. Leads(index, r) = Leads(index, f)
    BY Zenon, <1>1, LeadsOfRow
  <2>5. \A i \in 1..n : Leads(index, r)[i] = Numeral(comps[i])
    BY Zenon, <2>1, <2>4 DEF Numeral, Number
  <2>6. r \in Datoms(index, comps)
    BY Zenon, <1>1, <1>6, <2>3, <2>5 DEF Datoms
  <2> QED
    BY Zenon, <2>1, <2>6 DEF DatomsAbout
<1>7. \A index \in {"eavt", "aevt", "avet", "vaet"} : Len(Leads(index, f)) \in Nat
  BY DEF Leads
<1> QED
  BY Zenon, <1>2, <1>3, <1>4, <1>5, <1>6, <1>7 DEF Shown

\* A fact that holds, and whose entity was not excised, is in the answer of
\* every read of the log that is about it, of index-range if its type is one of
\* the six; and what datoms and index-range answer with is current or was
\* retracted by a transaction that committed later (entity.rs, helpers.rs, and
\* datoms and index-range of server.rs).
THEOREM CurrentIsRead == Spec => []ReadsCoverCurrent
<1>1. ASSUME LogInv, NEW f \in cur, f.e \notin Gone PROVE Shown(f)
  <2>1. f \in Fact
    BY Zenon, <1>1, DatomLogAssumption DEF LogInv, Typed
  <2>2. PICK r \in log : r.added /\ FactOf(r) = f
    BY Zenon, <1>1, CurrentIsLogged DEF LogInv
  <2> QED
    BY Zenon, <2>1, <2>2, FactShown
<1>2. ASSUME LogInv, NEW a, NEW r \in Datoms("aevt", <<Number(a)>>) \cup IndexRange(a, {}, {})
      PROVE  CurrentOrRetracted(r)
  <2>1. r \in Asserted
    BY Zenon, <1>2 DEF Datoms, IndexRange
  <2> QED
    BY Zenon, <1>2, <2>1 DEF Asserted, LogInv, Kept
<1>3. LogInv => ReadsCoverCurrent
  BY Zenon, <1>1, <1>2 DEF ReadsCoverCurrent, Shown
<1> QED
  BY <1>3, LogInvariant, PTL

-----------------------------------------------------------------------------
(* Diff *)

\* s says something of attribute a at t that nothing newer replaces.
Stands(s, a, t) ==
    /\ s \in Asserted /\ s.a = a /\ s.tx <= t
    /\ Schema[a].many \/ ~\E n \in Asserted : n.e = s.e /\ n.a = a /\ n.tx > s.tx /\ n.tx <= t

Of(e, rows) == {row[2] : row \in {x \in rows : x[1] = e}}
Pairs(rows) == \A x \in rows : x = <<x[1], x[2]>>
Splits(e, S, T) == Of(e, S \ T) = Of(e, S) \ Of(e, T)

LEMMA AsOfStands ==
    ASSUME NEW a, NEW t, NEW row
    PROVE  row \in AsOfRows(a, t) <=> \E s \in Asserted : Stands(s, a, t) /\ row = <<s.e, s.v>>
BY Zenon DEF AsOfRows, Stands

LEMMA AsOfPairs == ASSUME NEW a, NEW t PROVE Pairs(AsOfRows(a, t))
<1>1. ASSUME NEW row \in AsOfRows(a, t) PROVE row = <<row[1], row[2]>>
  <2>1. PICK s \in Asserted : row = <<s.e, s.v>>
    BY AsOfStands
  <2> QED
    BY <2>1
<1> QED
  BY Zenon, <1>1 DEF Pairs

LEMMA AsOfIs ==
    ASSUME NEW a, NEW t, NEW e, NEW v
    PROVE  v \in Of(e, AsOfRows(a, t)) <=> \E s \in Asserted : Stands(s, a, t) /\ s.e = e /\ s.v = v
<1>1. ASSUME v \in Of(e, AsOfRows(a, t)) PROVE \E s \in Asserted : Stands(s, a, t) /\ s.e = e /\ s.v = v
  <2>1. PICK row \in AsOfRows(a, t) : row[1] = e /\ row[2] = v
    BY Zenon, <1>1 DEF Of
  <2>2. PICK s \in Asserted : Stands(s, a, t) /\ row = <<s.e, s.v>>
    BY <2>1, AsOfStands
  <2>3. row[1] = s.e /\ row[2] = s.v
    BY <2>2
  <2> QED
    BY Zenon, <2>1, <2>2, <2>3
<1>2. ASSUME NEW s \in Asserted, Stands(s, a, t), s.e = e, s.v = v PROVE v \in Of(e, AsOfRows(a, t))
  <2>1. PICK row : row = <<s.e, s.v>>
    BY Zenon
  <2>2. row \in AsOfRows(a, t)
    BY Zenon, <1>2, <2>1, AsOfStands
  <2>3. row[1] = e /\ row[2] = v
    BY <1>2, <2>1
  <2> QED
    BY Zenon, <2>2, <2>3 DEF Of
<1> QED
  BY Zenon, <1>1, <1>2

LEMMA OfDifference ==
    ASSUME NEW S, NEW T, Pairs(S), Pairs(T), NEW e
    PROVE  Splits(e, S, T)
<1>1. ASSUME NEW x \in S, NEW y \in T, x[1] = y[1], x[2] = y[2] PROVE x = y
  BY Zenon, <1>1 DEF Pairs
<1> QED
  BY Zenon, <1>1 DEF Of, Splits

LEMMA Slot ==
    ASSUME NEW e, NEW a, NEW r, r.e = e, r.a = a
    PROVE  FactOf(r) = [e |-> e, a |-> a, v |-> r.v]
BY Zenon DEF FactOf

\* Where values were only replaced, in the order of ids, a query as of t answers
\* with what the log holds by t.
LEMMA AsOfIsState ==
    ASSUME LogInv, NEW a, NEW e, NEW t \in Nat, InOrder(RowsAbout(e, a)), OnlyReplaced(e, a, t)
    PROVE  Of(e, AsOfRows(a, t)) = StateAt(e, a, t)
<1>1. /\ \A r \in log : r.tx \in Nat
      /\ AuditLog(0, t) = {r \in log : r.tx <= t}
  BY Zenon, Rows
<1>2. ASSUME NEW r \in RowsAbout(e, a), NEW s \in RowsAbout(e, a)
      PROVE  (r.tx < s.tx <=> nth[r.tx] < nth[s.tx]) /\ (r.tx <= s.tx <=> nth[r.tx] <= nth[s.tx])
  BY Zenon, Ordered DEF RowsAbout
<1>3. ASSUME NEW s \in Asserted, Stands(s, a, t), s.e = e PROVE s.v \in StateAt(e, a, t)
  <2>1. s \in log /\ s.added /\ s.a = a /\ s.tx <= t /\ s \in RowsAbout(e, a) /\ s \in AuditLog(0, t)
    BY Zenon, <1>1, <1>3 DEF Asserted, Stands, RowsAbout
  <2>2. FactOf(s) = [e |-> e, a |-> a, v |-> s.v]
    BY Zenon, <1>3, <2>1, Slot
  <2>3. ASSUME NEW x \in AuditLog(0, t), FactOf(x) = FactOf(s), ~x.added PROVE x.tx < s.tx
    <3>1. x \in log /\ x.tx <= t /\ x.e = e /\ x.a = a
      BY Zenon, <1>1, <1>3, <2>1, <2>3 DEF FactOf
    <3>2. ~Schema[a].many /\ \E n \in RowsAbout(e, a) : n.added /\ n.tx = x.tx
      BY Zenon, <2>3, <3>1 DEF OnlyReplaced, RowsAbout
    <3>3. PICK n \in RowsAbout(e, a) : n.added /\ n.tx = x.tx
      BY Zenon, <3>2
    <3>4. ~(n.tx > s.tx)
      BY Zenon, <1>3, <3>1, <3>2, <3>3 DEF Stands, Asserted, RowsAbout
    <3>5. x.tx # s.tx
      BY Zenon, <2>1, <2>3, <3>1 DEF LogInv, OneKind
    <3> QED
      BY <1>1, <2>1, <3>1, <3>3, <3>4, <3>5
  <2>4. HeldBy(AuditLog(0, t), [e |-> e, a |-> a, v |-> s.v])
    BY Zenon, <2>1, <2>2, <2>3 DEF HeldBy
  <2> QED
    BY Zenon, <2>1, <2>4 DEF StateAt
<1>4. ASSUME NEW v \in StateAt(e, a, t) PROVE \E s \in Asserted : Stands(s, a, t) /\ s.e = e /\ s.v = v
  <2>1. PICK r \in AuditLog(0, t) : /\ FactOf(r) = [e |-> e, a |-> a, v |-> v] /\ r.added
                                    /\ \A s \in AuditLog(0, t) : FactOf(s) = FactOf(r) /\ ~s.added => s.tx < r.tx
    BY Zenon, <1>4 DEF StateAt, HeldBy
  <2>2. r.e = e /\ r.a = a /\ r.v = v
    BY Zenon, <2>1 DEF FactOf
  <2>3. r \in log /\ r.tx <= t /\ r \in Asserted /\ r \in RowsAbout(e, a)
    BY Zenon, <1>1, <2>1, <2>2 DEF Asserted, RowsAbout
  <2>4. ASSUME ~Schema[a].many, NEW n \in Asserted, n.e = e, n.a = a, n.tx > r.tx, n.tx <= t PROVE FALSE
    <3>1. n \in log /\ n.added /\ n \in RowsAbout(e, a)
      BY Zenon, <2>4 DEF Asserted, RowsAbout
    <3>2. r.tx < n.tx
      BY <1>1, <2>3, <2>4, <3>1
    <3>3. nth[r.tx] < nth[n.tx]
      BY Zenon, <1>2, <2>3, <3>1, <3>2
    <3>4. SameSlot(r, n)
      BY Zenon, <2>2, <2>4 DEF SameSlot
    <3>5. PICK s \in log : Between(s, r, n)
      BY Zenon, <2>1, <2>3, <3>1, <3>3, <3>4 DEF LogInv, Replaces
    <3>6. s.e = e /\ s.a = a
      BY Zenon, <2>2, <3>5 DEF Between, FactOf
    <3>7. s \in RowsAbout(e, a)
      BY Zenon, <3>6 DEF RowsAbout
    <3>8. r.tx < s.tx /\ s.tx <= n.tx
      BY Zenon, <1>2, <2>3, <3>1, <3>5, <3>7 DEF Between
    <3>9. s \in AuditLog(0, t)
      BY <1>1, <2>4, <3>1, <3>8
    <3>10. s.tx < r.tx
      BY Zenon, <2>1, <3>5, <3>9 DEF Between
    <3> QED
      BY <1>1, <2>3, <3>8, <3>10
  <2>5. Stands(r, a, t)
    BY Zenon, <2>2, <2>3, <2>4 DEF Stands
  <2> QED
    BY Zenon, <2>2, <2>3, <2>5
<1>5. ASSUME NEW v PROVE v \in Of(e, AsOfRows(a, t)) <=> v \in StateAt(e, a, t)
  <2>1. v \in Of(e, AsOfRows(a, t)) <=> \E s \in Asserted : Stands(s, a, t) /\ s.e = e /\ s.v = v
    BY AsOfIs
  <2> QED
    BY Zenon, <1>3, <1>4, <2>1
<1> QED
  BY <1>5

\* diff tells the net changes that the audit log tells (time_travel.rs, diff and
\* compute_result_diff against log), of an attribute of an entity whose values
\* were only asserted and replaced, by transactions that committed in the order
\* of their ids.
THEOREM DiffAgreesWithLog == Spec => []DiffIsLogged
<1>1. ASSUME LogInv, NEW a \in DOMAIN Schema, NEW from \in Txs \cup {0}, NEW to \in Txs \cup {0}, ~DiffRefused(from, to),
             NEW e, InOrder(RowsAbout(e, a)), OnlyReplaced(e, a, to)
      PROVE  /\ Of(e, Diff(a, from, to).added) = StateAt(e, a, to) \ StateAt(e, a, from)
             /\ Of(e, Diff(a, from, to).removed) = StateAt(e, a, from) \ StateAt(e, a, to)
  <2>1. from \in Nat /\ to \in Nat
    <3>1. \A t \in Txs : t \in Nat
      BY Zenon, <1>1 DEF LogInv, Numbered
    <3> QED
      BY <3>1
  <2>2. from < to
    BY <1>1, <2>1 DEF DiffRefused
  <2>3. OnlyReplaced(e, a, from)
    <3>1. \A r \in RowsAbout(e, a) : r.tx \in Nat
      BY Zenon, <1>1, Rows DEF RowsAbout
    <3>2. \A r \in RowsAbout(e, a) : r.tx <= from => r.tx <= to
      BY <2>1, <2>2, <3>1
    <3> QED
      BY Zenon, <1>1, <3>2 DEF OnlyReplaced
  <2>4. Of(e, AsOfRows(a, from)) = StateAt(e, a, from) /\ Of(e, AsOfRows(a, to)) = StateAt(e, a, to)
    BY Zenon, <1>1, <2>1, <2>3, AsOfIsState
  <2>5. /\ Diff(a, from, to).added = AsOfRows(a, to) \ AsOfRows(a, from)
        /\ Diff(a, from, to).removed = AsOfRows(a, from) \ AsOfRows(a, to)
    BY Zenon DEF Diff, ResultDiff
  <2>6. Pairs(AsOfRows(a, from)) /\ Pairs(AsOfRows(a, to))
    BY Zenon, AsOfPairs
  <2>7. PICK old, new : old = AsOfRows(a, from) /\ new = AsOfRows(a, to) /\ Pairs(old) /\ Pairs(new)
    BY Zenon, <2>6
  <2>8. Splits(e, new, old) /\ Splits(e, old, new)
    BY Zenon, <2>7, OfDifference
  <2> QED
    BY Zenon, <2>4, <2>5, <2>7, <2>8 DEF Splits
<1>2. ASSUME LogInv PROVE DiffIsLogged
  <2>1. SUFFICES ASSUME NEW a \in DOMAIN Schema, NEW from \in Txs \cup {0}, NEW to \in Txs \cup {0}, ~DiffRefused(from, to),
                        NEW e \in {r.e : r \in {s \in log : s.a = a}} \ Gone,
                        InOrder(RowsAbout(e, a)), OnlyReplaced(e, a, to)
                 PROVE  /\ Of(e, Diff(a, from, to).added) = StateAt(e, a, to) \ StateAt(e, a, from)
                        /\ Of(e, Diff(a, from, to).removed) = StateAt(e, a, from) \ StateAt(e, a, to)
    BY DEF DiffIsLogged, Of
  <2> QED
    BY <1>1, <1>2, <2>1
<1> QED
  BY <1>2, LogInvariant, PTL

=============================================================================
