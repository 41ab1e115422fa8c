-------------------------------- MODULE Store --------------------------------
(***************************************************************************)
(* What a store promises its one writer: a transaction whose places are    *)
(* resolved is a set of assertions and a set of retractions, and it takes  *)
(* effect as a whole, at one moment, or not at all.  There are no tables,  *)
(* no statements and no batch here.  Transact implements this module.      *)
(***************************************************************************)
EXTENDS Datoms

VARIABLES
    live,      \* the facts of the current database
    history,   \* what was asserted and retracted, when, but for noHistory
    request    \* the transaction that may take effect next

storeVars == <<live, history, request>>

NoRequest == [st |-> "none", tx |-> 0, asserts |-> {}, retracts |-> {}]

Request ==
    [st : {"some"}, tx : Nat, asserts : SUBSET Triple, retracts : SUBSET Triple]

\* The live facts that give way: a cardinality-one attribute has the new value
\* instead of the old one.
Replaced(A) ==
    {t \in live : t.a \notin CardMany /\ \E d \in A : d.e = t.e /\ d.a = t.a /\ d.v # t.v}

\* What a transaction records: the assertions that are news, and the retractions,
\* those of replaced facts included.
Recorded(q) ==
    {AtTx(Asserted(t), q.tx) : t \in {s \in q.asserts \ live : s.a \notin NoHistory}}
        \cup {AtTx(Retracted(t), q.tx) :
                t \in {s \in q.retracts \cup Replaced(q.asserts) : s.a \notin NoHistory}}

StoreInit == live = {} /\ history = {} /\ request = NoRequest

Propose ==
    /\ request = NoRequest
    /\ request' \in Request
    /\ request'.asserts \cap request'.retracts = {}
    /\ \A r \in history : r.tx < request'.tx
    /\ UNCHANGED <<live, history>>

Apply ==
    /\ request # NoRequest
    /\ live' = ((live \ request.retracts) \ Replaced(request.asserts)) \cup request.asserts
    /\ history' = history \cup Recorded(request)
    /\ request' = NoRequest

Abandon ==
    /\ request # NoRequest
    /\ request' = NoRequest
    /\ UNCHANGED <<live, history>>

StoreNext == Propose \/ Apply \/ Abandon

StoreSpec == StoreInit /\ [][StoreNext]_storeVars

=============================================================================
