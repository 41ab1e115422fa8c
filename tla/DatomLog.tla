------------------------------ MODULE DatomLog ------------------------------
(***************************************************************************)
(* The log and the projection that transactions leave behind, and the      *)
(* reads of the log: entity (functions/entity.rs), the helpers             *)
(* (functions/helpers.rs), the audit log and diff                          *)
(* (functions/time_travel.rs), excision (functions/excision.rs), and the   *)
(* daemon's datoms, index-range and db-stats (mentatd server.rs).  A read  *)
(* is one SQL statement, so it sees one state of the store; excision,      *)
(* db-stats and retract_entity are several statements, and other sessions  *)
(* commit between them.  Each connection takes ids from a block of its own *)
(* of the sequence (CACHE 100), so a transaction may commit with a lower   *)
(* id than one that committed before it: a commit takes any unused id.     *)
(***************************************************************************)
EXTENDS Attributes, FiniteSets, Sequences

CONSTANTS
    Loads,        \* what the first transaction may assert
    Pool,         \* the facts
    Additions,    \* the facts a later transaction may assert
    MaxTx,        \* bound on transactions, but for one more that retracts an entity
    MaxExcisions, \* bound on excisions
    Allowed,      \* allow_excision of the partition of user entities, set by hand
    Retired,      \* the entities retract_entity may be called for
    Targets,      \* the sets of entities an excision may be asked for
    Misread       \* text -> the value the EDN parser reads in its place, if another

Fact == [e : Int, a : DOMAIN Schema, v : Int]
Unreadable == -1  \* in Misread, where the parser refuses the text

ASSUME DatomLogAssumption ==
    /\ IsFiniteSet(Pool) /\ Pool \subseteq Fact /\ Loads \subseteq SUBSET Pool /\ Additions \subseteq Pool
    /\ \A F \in Loads : \A f, g \in F : f.e = g.e /\ f.a = g.a /\ ~Schema[f.a].many => f = g
    /\ MaxTx \in Nat /\ MaxExcisions \in Nat /\ Allowed \in BOOLEAN
    /\ \A v \in DOMAIN Misread : Misread[v] \in Int

VARIABLES
    log,      \* the rows of the datoms tables, of all types
    cur,      \* the rows of the current_ tables
    nth,      \* the ids in the transactions table -> their place in the order of commits
    basis,    \* MAX(tx) of the transactions table, 0 when it is empty
    busy,     \* the call of several statements that is under way
    audit,    \* the rows of excision_log: the entities of each excision
    written   \* every row ever inserted into the log (history variable)

store == <<log, cur, nth, basis, written>>
vars == <<log, cur, nth, basis, busy, audit, written>>

Idle == [k |-> "idle", es |-> {}, facts |-> {}, live |-> {}, datoms |-> 0, txs |-> 0, basis |-> 0]

Init ==
    /\ log = {} /\ cur = {} /\ written = {}
    /\ nth = [t \in {} |-> 0] /\ basis = 0 /\ busy = Idle /\ audit = {}

-----------------------------------------------------------------------------
(* Transactions, as transact.rs leaves the tables; module Transact has the *)
(* whole of it.                                                            *)

Ids == 1..MaxTx + 1
Txs == DOMAIN nth
Commits == Cardinality(Txs)

Row(f, t, added) == [e |-> f.e, a |-> f.a, v |-> f.v, tx |-> t, added |-> added]
Replaced(f) == IF Schema[f.a].many THEN {} ELSE {g \in cur : g.e = f.e /\ g.a = f.a}

Commit(t, asserted, retracted) ==
    LET rows == {Row(f, t, TRUE) : f \in asserted} \cup {Row(f, t, FALSE) : f \in retracted}
    IN  /\ t \in Ids \ Txs
        /\ log' = log \cup rows
        /\ written' = written \cup rows
        /\ cur' = (cur \ retracted) \cup asserted
        /\ nth' = [x \in Txs \cup {t} |-> IF x = t THEN Commits + 1 ELSE nth[x]]
        /\ basis' = (IF t > basis THEN t ELSE basis)
        /\ UNCHANGED audit

Load(t) == Txs = {} /\ \E F \in Loads : Commit(t, F, {}) /\ UNCHANGED busy

AddFact(t) ==
    Commits \in 1..MaxTx - 1 /\ \E f \in Additions \ cur : Commit(t, {f}, Replaced(f)) /\ UNCHANGED busy

RetractFact(t) ==
    Commits \in 1..MaxTx - 1 /\ \E f \in cur : Commit(t, {}, {f}) /\ UNCHANGED busy

-----------------------------------------------------------------------------
(* The helper retract_entity reads the facts of an entity, writes their    *)
(* retractions as EDN and gives that to mentat_transact.                   *)

AssertedOf(e) == {r \in log : r.added /\ r.e = e}
FactOf(r) == [e |-> r.e, a |-> r.a, v |-> r.v]

\* Mutant: only what the newest of the rows says is retracted.
FactsToRetractNewest(e) ==
    {FactOf(r) : r \in {s \in AssertedOf(e) : \A n \in AssertedOf(e) : n.tx <= s.tx}}

\* One fact for each row that ever asserted one, live or not.
FactsToRetract(e) == {FactOf(r) : r \in AssertedOf(e)}

\* The value of another type that stands for v in the EDN.
Foreign(v) == 2000 + v

\* The value that is read back from the EDN written for one.  An instant is
\* written as an integer, a uuid and bytes as strings.  A text with a colon in
\* front is written as a keyword, and of any other only the quotes are escaped:
\* the parser reads a backslash and a letter as one character, or refuses them.
ReadBack(f) ==
    CASE Schema[f.a].type \in {"instant", "uuid", "bytes"} -> Foreign(f.v)
      [] Schema[f.a].type = "string" /\ f.v \in DOMAIN Misread -> Misread[f.v]
      [] OTHER -> f.v

RetractRead(e) ==
    /\ busy = Idle /\ FactsToRetract(e) # {}
    /\ busy' = [Idle EXCEPT !.k = "retract", !.es = {e}, !.facts = FactsToRetract(e), !.live = {f \in cur : f.e = e}]
    /\ UNCHANGED <<store, audit>>

\* The transaction does not parse, and the call fails.
RetractFails ==
    /\ busy.k = "retract" /\ \E f \in busy.facts : ReadBack(f) = Unreadable
    /\ busy' = Idle
    /\ UNCHANGED <<store, audit>>

\* Only assertions are checked against the type of the attribute: a retraction
\* of a value that is not there is a row like any other.
RetractCommit(t) ==
    /\ busy.k = "retract" /\ \A f \in busy.facts : ReadBack(f) # Unreadable
    /\ Commit(t, {}, {[f EXCEPT !.v = ReadBack(f)] : f \in busy.facts})
    /\ busy' = Idle

-----------------------------------------------------------------------------
(* Excision: the checks, each a statement that reads what is committed by  *)
(* then, and the deletion, which other sessions see when it commits.       *)

Protected(e) == e \in Named

\* References to the entities from others: rows of the log that assert one,
\* whether or not it was retracted since.
Dangling(E) == {r \in log : IsRef(r.a) /\ r.v \in E /\ r.e \notin E /\ r.added}

ExcisionDenied(E) == (\E e \in E : Protected(e) \/ ~Allowed) \/ Dangling(E) # {}

ExciseCheck ==
    /\ busy = Idle /\ Cardinality(audit) < MaxExcisions
    /\ \E E \in Targets : ~ExcisionDenied(E) /\ busy' = [Idle EXCEPT !.k = "excise", !.es = E]
    /\ UNCHANGED <<store, audit>>

Excised(E) == {r \in log : r.e \in E}

\* The nine datoms tables, not the nine current_ ones.
ExciseDelete ==
    /\ busy.k = "excise"
    /\ log' = log \ Excised(busy.es)
    /\ audit' = audit \cup {busy.es}
    /\ busy' = Idle
    /\ UNCHANGED <<cur, nth, basis, written>>

Gone == UNION audit

-----------------------------------------------------------------------------
(* db-stats: three of its statements *)

StatsDatoms ==
    /\ busy = Idle
    /\ busy' = [Idle EXCEPT !.k = "stats1", !.datoms = Cardinality({r \in log : r.added})]
    /\ UNCHANGED <<store, audit>>

StatsTransactions ==
    /\ busy.k = "stats1"
    /\ busy' = [busy EXCEPT !.k = "stats2", !.txs = Commits]
    /\ UNCHANGED <<store, audit>>

\* Mutant: the basis is the id before the last.
StatsBasisBehind ==
    /\ busy.k = "stats2"
    /\ busy' = [busy EXCEPT !.k = "stats", !.basis = basis - 1]
    /\ UNCHANGED <<store, audit>>

StatsBasis ==
    /\ busy.k = "stats2"
    /\ busy' = [busy EXCEPT !.k = "stats", !.basis = basis]
    /\ UNCHANGED <<store, audit>>

StatsDone == busy.k = "stats" /\ busy' = Idle /\ UNCHANGED <<store, audit>>

Next ==
    \/ \E t \in Ids : Load(t) \/ AddFact(t) \/ RetractFact(t) \/ RetractCommit(t)
    \/ \E e \in Retired : RetractRead(e)
    \/ RetractFails
    \/ ExciseCheck \/ ExciseDelete
    \/ StatsDatoms \/ StatsTransactions \/ StatsBasis \/ StatsDone

Spec == Init /\ [][Next]_vars

-----------------------------------------------------------------------------
(* Reads of the log.  They keep the rows with added = true. *)

Asserted == {r \in log : r.added}

\* entity: every value ever asserted, references to the schema as idents.
EntityMap(e) == {<<r.a, IF IsRef(r.a) THEN IdentOf(r.v) ELSE r.v>> : r \in {s \in Asserted : s.e = e}}

\* The helpers entity_attrs, attribute_values (a value for each row) and
\* lookup_by_ident, which takes any entity that ever had the text.
EntityAttrs(e) == {r.a : r \in {s \in Asserted : s.e = e}}
AttributeValues(a) == {r.v : r \in {s \in Asserted : s.a = a}}
LookupByIdent(a, v) == {r.e : r \in {s \in Asserted : s.a = a /\ s.v = v /\ Schema[a].type = "string"}}

\* build_datoms_query: the components an index takes, and how many of them
\* its WHERE clause has a place for.
Places(index, n) ==
    CASE index \in {"eavt", "aevt"} -> IF n < 2 THEN n ELSE 2
      [] index = "avet" -> IF n < 1 THEN n ELSE 1
      [] index = "vaet" -> IF n < 3 THEN n ELSE 3

Leads(index, r) ==
    CASE index = "eavt" -> <<r.e, r.a>> [] index = "aevt" -> <<r.a, r.e>>
      [] index = "avet" -> <<r.a>> [] index = "vaet" -> <<r.v, r.a, r.e>>

\* Operation::Datoms binds one parameter for each component it was given, and
\* PostgreSQL wants as many as the statement has places.
DatomsFails(index, comps) == Places(index, Len(comps)) # Len(comps)

\* A component is a text: the number it reads as, or 0 for an ident or any
\* other text.
Numeral(c) == IF c.isNumeral THEN c.x ELSE 0

Datoms(index, comps) ==
    {r \in Asserted : /\ index = "vaet" => IsRef(r.a)
                      /\ \A i \in 1..Len(comps) : Leads(index, r)[i] = Numeral(comps[i])}

\* Operation::IndexRange compares v::TEXT, so a long is ordered by its digits.
TextOrder(a, v) ==
    IF Schema[a].type = "long" THEN (IF v < 10 THEN 100 * v ELSE 100 * (v \div 10) + 10 + (v % 10)) ELSE v

\* Mutant: the end of the range is left out.
InRangeOpen(a, v, start, end) ==
    /\ \A x \in start : TextOrder(a, x) <= TextOrder(a, v)
    /\ \A x \in end : TextOrder(a, v) < TextOrder(a, x)

\* The bounds are optional: sets of at most one value.
InRange(a, v, start, end) ==
    /\ \A x \in start : TextOrder(a, x) <= TextOrder(a, v)
    /\ \A x \in end : TextOrder(a, v) <= TextOrder(a, x)

\* The tables the statement unites, six of the nine.
Ranged == {"ref", "long", "string", "keyword", "double", "boolean"}

IndexRange(a, start, end) ==
    {r \in Asserted : r.a = a /\ Schema[a].type \in Ranged /\ InRange(a, r.v, start, end)}

\* Mutant: the rows that assert, as the other reads take them.
AuditLogAsserted(start, end) == {r \in log : r.tx > start /\ r.tx <= end /\ r.tx \in Txs /\ r.added}

\* mentat_log: rows after start, up to and with end, of both kinds.
AuditLog(start, end) == {r \in log : r.tx > start /\ r.tx <= end /\ r.tx \in Txs}

\* A query of one pattern as of t (mentat_query_internal with asOf), and diff.
AsOfRows(a, t) ==
    LET newer(s) == \E n \in Asserted : n.e = s.e /\ n.a = a /\ n.tx > s.tx /\ n.tx <= t
    IN  {<<r.e, r.v>> : r \in {s \in Asserted : s.a = a /\ s.tx <= t /\ (Schema[a].many \/ ~newer(s))}}

\* Mutant: old and new are exchanged.
ResultDiffSwapped(old, new) ==
    LET removed == new \ old
    IN  [added |-> old \ new, removed |-> removed, unchanged |-> Cardinality(new) - Cardinality(removed)]

\* compute_result_diff
ResultDiff(old, new) ==
    LET removed == old \ new
    IN  [added |-> new \ old, removed |-> removed, unchanged |-> Cardinality(old) - Cardinality(removed)]

DiffRefused(from, to) == from >= to
Diff(a, from, to) == ResultDiff(AsOfRows(a, from), AsOfRows(a, to))

-----------------------------------------------------------------------------
(* Properties.  A read changes nothing, so what is true of reads is stated *)
(* of every state the store can be in.                                     *)

TypeOK ==
    /\ \A r \in log : r.tx \in Txs /\ r.added \in BOOLEAN
    /\ cur \subseteq Pool /\ log \subseteq written
    /\ Txs \subseteq Ids /\ basis \in Ids \cup {0}
    /\ busy.k \in {"idle", "retract", "excise", "stats1", "stats2", "stats"}
    /\ audit \subseteq Targets

\* The transactions that wrote rows R committed in the order of their ids.
InOrder(R) == \A r, s \in R : r.tx < s.tx => nth[r.tx] < nth[s.tx]

RowsOf(f) == {r \in log : FactOf(r) = f}
RowsAbout(e, a) == {r \in log : r.e = e /\ r.a = a}

\* Some row of R asserts f, and no row that retracts it is as late as that.
HeldBy(R, f) ==
    \E r \in R : /\ FactOf(r) = f /\ r.added
                 /\ \A s \in R : FactOf(s) = f /\ ~s.added => s.tx < r.tx

\* A fact that a row of the log asserts is current, or a later transaction
\* retracted it.
CurrentOrRetracted(r) ==
    FactOf(r) \in cur \/ \E s \in RowsOf(FactOf(r)) : ~s.added /\ nth[r.tx] < nth[s.tx]

Number(x) == [isNumeral |-> TRUE, x |-> x]

\* Datoms by an index, with the first n numbers of a fact as components.
DatomsAbout(f, index, n) == Datoms(index, [i \in 1..n |-> Number(Leads(index, f)[i])])

\* The reads of the log answer with what is current and with what was: a fact
\* of the current database is in the answer of entity, of the helpers, of datoms
\* by each index and, if its type is one of the six, of index-range; and a row
\* that datoms or index-range answer with is current or was retracted by a
\* transaction that committed after it, so that where nothing was retracted they
\* answer with the current database.
ReadsCoverCurrent ==
    /\ \A f \in {g \in cur : g.e \notin Gone} :
          /\ <<f.a, IF IsRef(f.a) THEN IdentOf(f.v) ELSE f.v>> \in EntityMap(f.e)
          /\ f.a \in EntityAttrs(f.e) /\ f.v \in AttributeValues(f.a)
          /\ Schema[f.a].type = "string" => f.e \in LookupByIdent(f.a, f.v)
          /\ \A index \in {"eavt", "aevt", "avet", "vaet"} : (index = "vaet" => IsRef(f.a)) =>
                \A n \in 0..Len(Leads(index, f)) : \E r \in DatomsAbout(f, index, n) : FactOf(r) = f
          /\ Schema[f.a].type \in Ranged =>
                \A start, end \in {{}, {f.v}} : \E r \in IndexRange(f.a, start, end) : FactOf(r) = f
    /\ \A a \in DOMAIN Schema : \A r \in Datoms("aevt", <<Number(a)>>) \cup IndexRange(a, {}, {}) : CurrentOrRetracted(r)

\* "Retract all facts about an entity": what the helper retract_entity does when
\* its transaction commits.  Of the facts that were live when it read them, those
\* whose EDN reads back as they are no longer hold, whatever committed since and
\* in whatever order, but for an entity whose rows an excision had removed.  The
\* facts of other entities are left alone.
HelperRetractsLive ==
    [][\A t \in Ids : RetractCommit(t) =>
          /\ \A f \in busy.live : ReadBack(f) = f.v /\ f.e \notin Gone => f \notin cur'
          /\ {f \in cur' : f.e \notin busy.es} = {f \in cur : f.e \notin busy.es}]_vars

\* What its comment says (helpers.rs:126-129), which does not hold: no fact of
\* the entity is left.
HelperRetractsAll ==
    [][\A t \in Ids : RetractCommit(t) => \A f \in cur' : f.e \notin busy.es]_vars

\* The audit log, read in the order of ids, replays to the current database: a
\* fact holds when a row asserts it that no later row retracts, for every fact
\* whose transactions committed in the order of their ids.
LogReplays ==
    \A f \in {g \in Pool : g.e \notin Gone} :
        InOrder(RowsOf(f)) => (f \in cur <=> HeldBy(AuditLog(0, basis), f))

\* What an entity has of an attribute after transaction t, as the audit log tells it.
StateAt(e, a, t) == {v \in {r.v : r \in RowsAbout(e, a)} : HeldBy(AuditLog(0, t), [e |-> e, a |-> a, v |-> v])}

\* Up to t no value of the attribute was retracted but to make way for another.
OnlyReplaced(e, a, t) ==
    \A s \in {r \in RowsAbout(e, a) : ~r.added /\ r.tx <= t} :
        ~Schema[a].many /\ \E r \in RowsAbout(e, a) : r.added /\ r.tx = s.tx

\* diff reports the net changes: of an attribute of an entity whose values were
\* only ever asserted and replaced, by transactions that committed in the order of
\* their ids, it reports as added and as removed exactly the values by which the
\* audit log says the two points differ.
DiffIsLogged ==
    \A a \in DOMAIN Schema, from, to \in Txs \cup {0} : ~DiffRefused(from, to) =>
        LET d == Diff(a, from, to)
            of(e, rows) == {row[2] : row \in {x \in rows : x[1] = e}}
        IN  \A e \in {r.e : r \in {s \in log : s.a = a}} \ Gone :
                InOrder(RowsAbout(e, a)) /\ OnlyReplaced(e, a, to) =>
                    /\ of(e, d.added) = StateAt(e, a, to) \ StateAt(e, a, from)
                    /\ of(e, d.removed) = StateAt(e, a, from) \ StateAt(e, a, to)

\* The same of every attribute, which does not hold: a retraction that no new
\* value comes with is never reported (time-travel.md:139 says "`added` and
\* `retracted` arrays showing the net changes").
DiffIsNet ==
    \A a \in DOMAIN Schema, from, to \in Txs \cup {0} : ~DiffRefused(from, to) =>
        \A e \in {r.e : r \in log} \ Gone : InOrder(RowsAbout(e, a)) =>
            {row[2] : row \in {x \in Diff(a, from, to).removed : x[1] = e}}
                = StateAt(e, a, from) \ StateAt(e, a, to)

\* The counts db-stats answers with are never ahead of the basis-t it names,
\* whatever commits, with whatever id, or is excised between its statements.
StatsNeverAhead ==
    busy.k = "stats" =>
        /\ busy.basis <= basis
        /\ busy.txs <= Cardinality({t \in Txs : t <= busy.basis})
        /\ busy.datoms <= Cardinality({r \in written : r.added /\ r.tx <= busy.basis})

\* What the excision promises ("physically removes all traces of the entity"):
\* no read shows an entity that was excised, until it is written to again.
ExcisedIsGone ==
    \A f \in cur : f.e \in Gone => \E r \in log : r.e = f.e /\ r.a = f.a /\ r.v = f.v

=============================================================================
