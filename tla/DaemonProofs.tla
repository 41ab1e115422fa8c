---------------------------- MODULE DaemonProofs ----------------------------
(***************************************************************************)
(* Proofs about the daemon.  About Requests, for any number of requests    *)
(* served at a time, any pool, threshold, window and number of retries:    *)
(* the types, with the bound on the connections held; a transaction takes  *)
(* effect at most once; and the bounds on what the circuit breaker counts. *)
(* About Msgpack: what the encoder writes the decoder reads back, every    *)
(* 64-bit integer and every length that fits in 32 bits.                   *)
(***************************************************************************)
EXTENDS Requests, Msgpack, FiniteSetTheorems, TLAPS

-----------------------------------------------------------------------------
(* One handler moves at a time *)

\* Only the handler of p changes.
Only(p) == \A q \in Slot \ {p} : h'[q] = h[q]

One(S, p) == IF p \in S THEN 1 ELSE 0

\* A count of slots changes by what happens to the one slot that moves.
LEMMA CountMoves ==
    ASSUME NEW S \in SUBSET Slot, NEW T \in SUBSET Slot, NEW p \in Slot,
           S \ {p} = T \ {p}
    PROVE  /\ Cardinality(S) \in Nat /\ Cardinality(T) \in Nat /\ Cardinality(Slot) \in Nat
           /\ Cardinality(T) <= Cardinality(Slot)
           /\ Cardinality(T) + One(S, p) = Cardinality(S) + One(T, p)
<1>1. IsFiniteSet(Slot)
  BY Zenon, RequestsAssumption
<1>2. IsFiniteSet(S) /\ IsFiniteSet(T) /\ Cardinality(T) <= Cardinality(Slot)
  BY Zenon, <1>1, FS_Subset
<1>3. Cardinality(S) \in Nat /\ Cardinality(T) \in Nat /\ Cardinality(Slot) \in Nat
  BY Zenon, <1>1, <1>2, FS_CardinalityType
<1>4. /\ Cardinality(S \ {p}) = IF p \in S THEN Cardinality(S) - 1 ELSE Cardinality(S)
      /\ Cardinality(T \ {p}) = IF p \in T THEN Cardinality(T) - 1 ELSE Cardinality(T)
  BY Zenon, <1>2, FS_RemoveElement
<1>5. Cardinality(S \ {p}) = Cardinality(T \ {p})
  BY Zenon
<1> HIDE DEF Cardinality
<1>6. CASE p \in S
  BY <1>2, <1>3, <1>4, <1>5, <1>6 DEF One
<1>7. CASE p \notin S
  BY <1>2, <1>3, <1>4, <1>5, <1>7 DEF One
<1> QED
  BY Zenon, <1>6, <1>7

-----------------------------------------------------------------------------
(* Types *)

Typed ==
    /\ h \in [Slot -> Handler]
    /\ errors \in Nat /\ begun \in Nat /\ age \in 0..Window + 1
    /\ \A p \in Slot : h[p].pc = "backoff" => h[p].attempt < MaxRetries
    /\ \A p \in Slot : h[p].pc \in {"record", "add"} => h[p].way = "http"

\* What a step of the handler of p can do to it.
LEMMA StepFrame ==
    ASSUME Typed, NEW p \in Slot,
           Step(p) \/ Refuse(p) \/ \E way \in Way, op \in Op : Arrive(p, way, op)
    PROVE  /\ Only(p) /\ h' \in [Slot -> Handler]
           /\ h'[p].pc = "backoff" => h'[p].attempt < MaxRetries
           /\ h'[p].pc \in {"record", "add"} => h'[p].way = "http"
<1> USE RequestsAssumption DEF Typed, At
<1>1. ASSUME NEW s, Goto(p, s), s \in {"load", "check", "wait", "database"}
      PROVE  Only(p) /\ h' \in [Slot -> Handler] /\ h'[p].pc = s
  BY <1>1 DEF Goto, Only, Handler
<1>2. ASSUME NEW what \in Outcome, Answer(p, what)
      PROVE  Only(p) /\ h' \in [Slot -> Handler] /\ h'[p].pc = "answered"
  BY <1>2, ZenonT(90) DEF Answer, Only, Handler
<1>3. CASE ShouldReject(p)
  BY <1>1, <1>3 DEF ShouldReject
<1>4. CASE LoadErrors(p)
  BY <1>1, <1>2, <1>4 DEF LoadErrors, Outcome
<1>5. CASE RecordError(p)
  BY <1>5 DEF RecordError, Goto, Only, Handler
<1>6. CASE AddError(p)
  BY Zenon, <1>2, <1>6 DEF AddError, Outcome
<1>7. CASE Health(p)
  BY Zenon, <1>2, <1>7 DEF Health, Outcome
<1>8. CASE CheckPasses(p)
  BY <1>1, <1>8 DEF CheckPasses
<1>9. CASE Fail(p)
  <2>1. CASE h[p].way = "http"
    BY <1>9, <2>1 DEF Fail, Goto, Only, Handler
  <2>2. CASE h[p].way # "http"
    BY Zenon, <1>2, <1>9, <2>2 DEF Fail, Outcome
  <2> QED
    BY Zenon, <2>1, <2>2
<1>10. CASE Connect(p)
  BY <1>1, <1>10 DEF Connect
<1>11. CASE Succeed(p)
  <2>1. Effects(p) \in Nat
    BY DEF Effects, Handler
  <2>2. h' = [h EXCEPT ![p].pc = "answered", ![p].what = "ok", ![p].applied = Effects(p)]
    BY Zenon, <1>11 DEF Succeed
  <2>3. h'[p] = [h[p] EXCEPT !.pc = "answered", !.what = "ok", !.applied = Effects(p)] /\ Only(p)
    BY Zenon, <2>2 DEF Only
  <2>4. h'[p] \in Handler /\ h'[p].pc = "answered"
    BY <2>1, <2>3, Zenon DEF Handler, Outcome
  <2> QED
    BY Zenon, <2>2, <2>3, <2>4
<1>12. CASE RetryConflict(p)
  <2>1. CASE h[p].attempt >= MaxRetries
    BY Zenon, <1>2, <1>12, <2>1 DEF RetryConflict, Outcome
  <2>2. CASE ~(h[p].attempt >= MaxRetries)
    BY <1>12, <2>2 DEF RetryConflict, Goto, Only, Handler
  <2> QED
    BY Zenon, <2>1, <2>2
<1>13. CASE Backoff(p)
  BY <1>13 DEF Backoff, Only, Handler
<1>14. CASE UniqueViolation(p)
  BY Zenon, <1>2, <1>14 DEF UniqueViolation, Outcome
<1>15. CASE AnswerLost(p)
  <2> DEFINE s == IF h[p].way = "http" THEN "record" ELSE "answered"
  <2>1. Effects(p) \in Nat
    BY DEF Effects, Handler
  <2>2. h' = [h EXCEPT ![p].pc = s, ![p].what = "error", ![p].applied = Effects(p)]
    BY Zenon, <1>15 DEF AnswerLost
  <2>3. h'[p] = [h[p] EXCEPT !.pc = s, !.what = "error", !.applied = Effects(p)] /\ Only(p)
    BY Zenon, <2>2 DEF Only
  <2>4. h[p] \in Handler /\ s \in {"record", "answered"} /\ (s = "record" => h[p].way = "http")
    BY Zenon
  <2> HIDE DEF s
  <2>5. h'[p] \in Handler /\ h'[p].pc = s /\ h'[p].way = h[p].way
    BY <2>1, <2>3, <2>4, ZenonT(90) DEF Handler, Outcome
  <2> QED
    BY Zenon, <2>2, <2>3, <2>4, <2>5
<1>16. CASE Release(p)
  BY <1>16 DEF Release, Idle, Only, Handler
<1>17. CASE Refuse(p)
  BY Zenon, <1>2, <1>17 DEF Refuse, Outcome
<1>18. ASSUME NEW way \in Way, NEW op \in Op, Arrive(p, way, op)
       PROVE  /\ Only(p) /\ h' \in [Slot -> Handler]
              /\ h'[p].pc \notin {"backoff", "record", "add"}
  <2> DEFINE s == IF way = "stream" THEN "wait" ELSE IF op = "health" THEN "healthy" ELSE "admit"
  <2>1. h' = [h EXCEPT ![p].way = way, ![p].op = op, ![p].pc = s]
    BY <1>18, Zenon DEF Arrive
  <2>2. h'[p] = [h[p] EXCEPT !.way = way, !.op = op, !.pc = s] /\ Only(p)
    BY Zenon, <2>1 DEF Only
  <2>3. h'[p] \in Handler /\ h'[p].pc = s
    BY <2>2, ZenonT(90) DEF Handler
  <2> QED
    BY <2>1, <2>2, <2>3
<1> QED
  BY Zenon, <1>3, <1>4, <1>5, <1>6, <1>7, <1>8, <1>9, <1>10, <1>11, <1>12, <1>13, <1>14, <1>15, <1>16,
     <1>17, <1>18
  DEF Step, CheckFails, WaitTimeout, StatementError

\* Nobody moves: time passes, or nothing happens.
LEMMA TypedStep ==
    ASSUME Typed, [Next]_vars
    PROVE  Typed'
<1>1. ASSUME NEW p \in Slot,
             Step(p) \/ Refuse(p) \/ \E way \in Way, op \in Op : Arrive(p, way, op)
      PROVE  Typed'
  <2>1. /\ Only(p) /\ h' \in [Slot -> Handler]
        /\ h'[p].pc = "backoff" => h'[p].attempt < MaxRetries
        /\ h'[p].pc \in {"record", "add"} => h'[p].way = "http"
    BY Zenon, <1>1, StepFrame
  <2>2. errors' \in Nat /\ begun' \in Nat /\ age' \in 0..Window + 1
    <3>1. CASE MaybeReset
      BY <3>1, RequestsAssumption DEF MaybeReset, Typed
    <3>2. CASE UNCHANGED <<errors, age, begun>>
      BY Zenon, <3>2 DEF Typed
    <3>3. CASE AddError(p) \/ Fail(p) \/ AnswerLost(p)
      BY <3>3 DEF AddError, Fail, AnswerLost, Typed
    <3> QED
      BY Zenon, <1>1, <3>1, <3>2, <3>3
      DEF Step, ShouldReject, LoadErrors, RecordError, Health, CheckPasses, CheckFails, Connect,
          WaitTimeout, Succeed, RetryConflict, Backoff, UniqueViolation, StatementError, Release,
          Refuse, Arrive
  <2> QED
    BY Zenon, <2>1, <2>2 DEF Typed, Only
<1>2. CASE Tick
  BY <1>2, RequestsAssumption DEF Tick, Elapsed, Typed
<1>3. CASE UNCHANGED vars
  BY Zenon, <1>3 DEF vars, Typed
<1> QED
  BY Zenon, <1>1, <1>2, <1>3 DEF Next, Arrival

\* No request, no error.
LEMMA TypedInitially ==
    ASSUME Init
    PROVE  Typed
BY RequestsAssumption DEF Init, Typed, Idle, Handler

\* A connection is only taken when one is free.
LEMMA PoolStep ==
    ASSUME Typed, Cardinality(Held) <= PoolSize, [Next]_vars
    PROVE  (Cardinality(Held) <= PoolSize)'
<1>1. ASSUME NEW p \in Slot,
             Step(p) \/ Refuse(p) \/ \E way \in Way, op \in Op : Arrive(p, way, op)
      PROVE  Cardinality(Held') <= PoolSize
  <2>1. Only(p) /\ h' \in [Slot -> Handler]
    BY Zenon, <1>1, StepFrame
  <2>2. /\ Held \in SUBSET Slot /\ Held' \in SUBSET Slot /\ Held \ {p} = Held' \ {p}
        /\ p \in Held' <=> h'[p].pc \in {"database", "backoff"}
        /\ p \in Held <=> h[p].pc \in {"database", "backoff"}
    BY Zenon, <2>1 DEF Held, Only
  <2>3. p \in Held' => p \in Held \/ Free
    <3>1. ASSUME NEW s, Goto(p, s), s \notin {"database", "backoff"}
          PROVE  p \notin Held'
      BY Zenon, <2>2, <3>1 DEF Goto, Typed, Handler
    <3>2. ASSUME NEW what, Answer(p, what)
          PROVE  p \notin Held'
      BY Zenon, <2>2, <3>2 DEF Answer, Typed, Handler
    <3>3. CASE Fail(p)
      BY Zenon, <3>1, <3>2, <3>3 DEF Fail
    <3>4. CASE Connect(p) \/ RetryConflict(p)
      BY Zenon, <2>2, <3>4 DEF Connect, RetryConflict, At
    <3>5. CASE Succeed(p) \/ AnswerLost(p)
      BY Zenon, <2>2, <3>5 DEF Succeed, AnswerLost, At
    <3>6. CASE Backoff(p)
      BY Zenon, <2>2, <3>6 DEF Backoff, At
    <3>7. CASE Release(p)
      BY Zenon, <2>2, <3>7 DEF Release, Idle, Typed
    <3>8. ASSUME NEW way, NEW op, Arrive(p, way, op)
          PROVE  p \notin Held'
      <4>1. h'[p].pc \in {"wait", "healthy", "admit"}
        BY Zenon, <3>8 DEF Arrive, Typed, Handler
      <4> QED
        BY Zenon, <2>2, <4>1
    <3> QED
      BY Zenon, <1>1, <3>1, <3>2, <3>3, <3>4, <3>5, <3>6, <3>7, <3>8
      DEF Step, ShouldReject, LoadErrors, RecordError, AddError, Health, CheckPasses, CheckFails,
          WaitTimeout, UniqueViolation, StatementError, Refuse
  <2>4. /\ Cardinality(Held) \in Nat /\ Cardinality(Held') \in Nat
        /\ Cardinality(Held') + One(Held, p) = Cardinality(Held) + One(Held', p)
    BY Zenon, <2>2, CountMoves
  <2> QED
    BY <2>3, <2>4, RequestsAssumption DEF One, Free
<1>2. CASE UNCHANGED h
  BY Zenon, <1>2 DEF Held
<1> QED
  BY Zenon, <1>1, <1>2 DEF Next, Arrival, Tick, vars

\* For every pool size and every number of requests, no more connections are
\* held than the pool has, the ones held over a back-off included, and no
\* transaction is sent more than MaxRetries + 1 times by execute_operation.
THEOREM PoolAndRetriesBounded == Spec => []TypeOK
<1>1. Init => Typed /\ Cardinality(Held) <= PoolSize
  <2>1. ASSUME Init PROVE Held = {}
    BY Zenon, <2>1 DEF Init, Held, Idle
  <2> QED
    BY <2>1, TypedInitially, FS_EmptySet, RequestsAssumption
<1>2. Typed /\ Cardinality(Held) <= PoolSize /\ [Next]_vars =>
          Typed' /\ (Cardinality(Held) <= PoolSize)'
  BY Zenon, TypedStep, PoolStep
<1>3. Typed /\ Cardinality(Held) <= PoolSize => TypeOK
  BY Zenon DEF Typed, TypeOK
<1> QED
  BY <1>1, <1>2, <1>3, PTL DEF Spec

-----------------------------------------------------------------------------
(* Transactions take effect at most once *)

Before == {"idle", "healthy", "admit", "load", "check", "wait", "database", "backoff"}

\* Nothing has taken effect while the handler may still send its statement.
Once(x) ==
    /\ x.pc \in Before => x.applied = 0
    /\ x.applied <= 1
    /\ x.pc = "healthy" => x.op = "health"
    /\ (x.pc = "answered" /\ x.what = "ok" /\ x.op = "transact") => x.applied = 1
    /\ (x.pc = "answered" /\ x.what \in {"conflict", "unique", "rejected"}) => x.applied = 0

\* A step of the handler of p keeps it so.
LEMMA OnceStep ==
    ASSUME Typed, NEW p \in Slot, Once(h[p]),
           Step(p) \/ Refuse(p) \/ \E way \in Way, op \in Op : Arrive(p, way, op)
    PROVE  Once(h'[p])
<1> USE DEF Typed, At, Once, Before
<1>1. ASSUME NEW s, Goto(p, s), h[p].pc \in Before, s \notin {"healthy", "answered"}
      PROVE  Once(h'[p])
  BY Zenon, <1>1 DEF Goto, Handler
<1>2. ASSUME NEW what, Answer(p, what), h[p].pc \in Before,
             what = "ok" => h[p].op # "transact"
      PROVE  Once(h'[p])
  BY <1>2 DEF Answer, Handler
<1>3. CASE ShouldReject(p)
  BY Zenon, <1>1, <1>3 DEF ShouldReject
<1>4. CASE LoadErrors(p)
  <2>1. \A s \in {"check", "wait"} : Goto(p, s) => Once(h'[p])
    BY Zenon, <1>1, <1>4 DEF LoadErrors
  <2> QED
    BY Zenon, <1>2, <1>4, <2>1 DEF LoadErrors
<1>5. CASE RecordError(p)
  BY Zenon, <1>5 DEF RecordError, Goto, Handler
<1>6. CASE AddError(p)
  BY <1>6 DEF AddError, Answer, Handler
<1>7. CASE Health(p)
  BY Zenon, <1>2, <1>7 DEF Health
<1>8. CASE CheckPasses(p)
  BY Zenon, <1>1, <1>8 DEF CheckPasses
<1>9. ASSUME Fail(p), h[p].pc \in Before
      PROVE  Once(h'[p])
  BY Zenon, <1>1, <1>2, <1>9 DEF Fail
<1>10. CASE Connect(p)
  BY Zenon, <1>1, <1>10 DEF Connect
<1>11. CASE Succeed(p)
  BY <1>11 DEF Succeed, Effects, Transacts, Handler
<1>12. CASE RetryConflict(p)
  BY Zenon, <1>1, <1>2, <1>12 DEF RetryConflict
<1>13. CASE Backoff(p)
  BY ZenonT(30), <1>13 DEF Backoff, Handler
<1>14. CASE UniqueViolation(p)
  BY Zenon, <1>2, <1>14 DEF UniqueViolation
<1>15. CASE AnswerLost(p)
  BY <1>15 DEF AnswerLost, Effects, Handler
<1>16. CASE Release(p)
  BY <1>16 DEF Release, Idle
<1>17. CASE Refuse(p)
  BY Zenon, <1>2, <1>17 DEF Refuse
<1>18. ASSUME NEW way \in Way, NEW op \in Op, Arrive(p, way, op)
       PROVE  Once(h'[p])
  <2> DEFINE s == IF way = "stream" THEN "wait" ELSE IF op = "health" THEN "healthy" ELSE "admit"
  <2>1. h' = [h EXCEPT ![p].way = way, ![p].op = op, ![p].pc = s] /\ h[p].pc = "idle"
    BY <1>18, Zenon DEF Arrive
  <2>2. h'[p] = [h[p] EXCEPT !.way = way, !.op = op, !.pc = s]
    BY Zenon, <2>1
  <2>3. h[p] \in Handler /\ s \in {"wait", "healthy", "admit"} /\ (s = "healthy" => op = "health")
    BY Zenon
  <2> HIDE DEF s
  <2>4. h'[p].pc = s /\ h'[p].op = op /\ h'[p].applied = h[p].applied
    BY Zenon, <2>2, <2>3 DEF Handler
  <2> QED
    BY Zenon, <2>1, <2>3, <2>4
<1> QED
  BY Zenon, <1>3, <1>4, <1>5, <1>6, <1>7, <1>8, <1>9, <1>10, <1>11, <1>12, <1>13, <1>14, <1>15, <1>16,
     <1>17, <1>18
  DEF Step, CheckFails, WaitTimeout, StatementError

\* However often mentatd retries, and whenever connections break, a transaction
\* takes effect at most once; the client that is told of success has it applied,
\* the one told of a conflict, a unique violation or an open breaker has not.
THEOREM TransactionsApplyOnce == Spec => []AppliedAtMostOnce
<1> DEFINE Inv == Typed /\ \A p \in Slot : Once(h[p])
<1>1. Init => Inv
  <2>1. ASSUME Init PROVE \A p \in Slot : Once(h[p])
    BY <2>1 DEF Init, Idle, Once
  <2> QED
    BY Zenon, <2>1, TypedInitially
<1>2. ASSUME Inv, [Next]_vars
      PROVE  Inv'
  <2>1. ASSUME NEW p \in Slot,
               Step(p) \/ Refuse(p) \/ \E way \in Way, op \in Op : Arrive(p, way, op)
        PROVE  \A q \in Slot : Once(h'[q])
    <3>1. Only(p)
      BY Zenon, <1>2, <2>1, StepFrame
    <3>2. Once(h'[p])
      BY Zenon, <1>2, <2>1, OnceStep
    <3> QED
      BY Zenon, <1>2, <3>1, <3>2 DEF Only
  <2>2. ASSUME UNCHANGED h
        PROVE  \A q \in Slot : Once(h'[q])
    BY Zenon, <1>2, <2>2
  <2>3. \A q \in Slot : Once(h'[q])
    BY Zenon, <1>2, <2>1, <2>2 DEF Next, Arrival, Tick, vars
  <2> QED
    BY Zenon, <1>2, <2>3, TypedStep
<1>3. Inv => AppliedAtMostOnce
  BY Zenon DEF Once, AppliedAtMostOnce, At, Transacts
<1> QED
  BY <1>1, <1>2, <1>3, PTL DEF Spec

-----------------------------------------------------------------------------
(* What the breaker counts *)

\* Requests the breaker has let in that may still add an error, and those that
\* have met one and not added it yet.
InFlight ==
    {p \in Slot : /\ h[p].way = "http"
                  /\ h[p].pc \in {"check", "wait", "database", "backoff", "record", "add"}}

Adding == {p \in Slot : h[p].pc \in {"record", "add"}}

CountInv ==
    /\ errors + Cardinality(InFlight) <= Threshold + Cardinality(Slot)
    /\ errors + Cardinality(Adding) <= begun + Cardinality(Slot)

\* What a step may do to the two sums.
Allowed(p) ==
    /\ errors' <= Threshold \/ errors' + One(InFlight', p) <= errors + One(InFlight, p)
    /\ errors' <= begun' \/ errors' + One(Adding', p) + begun <= errors + One(Adding, p) + begun'

\* Every step of a handler is allowed: an error is added by a request in flight,
\* and a request is let in when the threshold is not passed.
LEMMA AllowedStep ==
    ASSUME Typed, NEW p \in Slot,
           Step(p) \/ Refuse(p) \/ \E way \in Way, op \in Op : Arrive(p, way, op)
    PROVE  Allowed(p)
<1> USE DEF Allowed, One, At
<1>0. /\ Threshold \in Nat /\ h[p] \in Handler /\ errors \in Nat /\ begun \in Nat
      /\ p \in InFlight <=> /\ h[p].way = "http"
                            /\ h[p].pc \in {"check", "wait", "database", "backoff", "record", "add"}
      /\ p \in InFlight' <=> /\ h'[p].way = "http"
                             /\ h'[p].pc \in {"check", "wait", "database", "backoff", "record", "add"}
      /\ p \in Adding <=> h[p].pc \in {"record", "add"}
      /\ p \in Adding' <=> h'[p].pc \in {"record", "add"}
      /\ p \in Adding => p \in InFlight
  BY Zenon, RequestsAssumption DEF Typed, InFlight, Adding
<1>1. ASSUME NEW s, Goto(p, s)
      PROVE  h'[p].pc = s /\ h'[p].way = h[p].way
  BY <1>1 DEF Goto, Typed, Handler
<1>2. ASSUME NEW what, Answer(p, what)
      PROVE  h'[p].pc = "answered"
  BY Zenon, <1>2 DEF Answer, Typed, Handler
<1>3. CASE ShouldReject(p)
  BY <1>0, <1>1, <1>3 DEF ShouldReject, MaybeReset
<1>4. CASE LoadErrors(p)
  BY <1>0, <1>1, <1>2, <1>4 DEF LoadErrors
<1>5. CASE RecordError(p)
  BY <1>0, <1>1, <1>5 DEF RecordError, MaybeReset
<1>6. CASE AddError(p)
  BY <1>0, <1>2, <1>6 DEF AddError
<1>7. ASSUME UNCHANGED <<errors, begun>>, h'[p].pc \in {"answered", "idle", "admit", "healthy"}
      PROVE  Allowed(p)
  BY <1>0, <1>7
<1>8. ASSUME UNCHANGED <<errors, begun>>, h[p].pc \in {"check", "wait", "database", "backoff"},
             h'[p].pc \notin {"record", "add"}, h'[p].way = h[p].way
      PROVE  Allowed(p)
  BY <1>0, <1>8
<1>9. ASSUME errors' = errors, begun' = IF h[p].way = "http" THEN begun + 1 ELSE begun,
             h'[p].way = h[p].way, h[p].pc \in {"check", "wait", "database"},
             h'[p].pc = IF h[p].way = "http" THEN "record" ELSE "answered"
      PROVE  Allowed(p)
  BY <1>0, <1>9
<1>10. ASSUME Fail(p), h[p].pc \in {"check", "wait", "database"}
       PROVE  Allowed(p)
  <2>1. h'[p].pc = IF h[p].way = "http" THEN "record" ELSE "answered"
    BY Zenon, <1>1, <1>2, <1>10 DEF Fail
  <2>2. h'[p].way = h[p].way
    BY <1>10 DEF Fail, Goto, Answer, Typed, Handler
  <2> QED
    BY Zenon, <1>9, <1>10, <2>1, <2>2 DEF Fail
<1>11. CASE CheckPasses(p) \/ Connect(p)
  BY <1>1, <1>8, <1>11 DEF CheckPasses, Connect
<1>12. CASE Health(p) \/ UniqueViolation(p) \/ Refuse(p)
  BY Zenon, <1>2, <1>7, <1>12 DEF Health, UniqueViolation, Refuse
<1>13. CASE RetryConflict(p)
  BY <1>1, <1>2, <1>7, <1>8, <1>13 DEF RetryConflict
<1>14. CASE Backoff(p)
  <2>1. h'[p].pc = "wait" /\ h'[p].way = h[p].way
    BY Zenon, <1>14 DEF Backoff, Typed, Handler
  <2> QED
    BY Zenon, <1>8, <1>14, <2>1 DEF Backoff
<1>15. CASE Succeed(p)
  <2>1. h'[p].pc = "answered"
    BY Zenon, <1>15 DEF Succeed, Typed, Handler
  <2> QED
    BY Zenon, <1>7, <1>15, <2>1 DEF Succeed
<1>16. CASE AnswerLost(p)
  <2>1. h'[p].pc = (IF h[p].way = "http" THEN "record" ELSE "answered") /\ h'[p].way = h[p].way
    BY Zenon, <1>16 DEF AnswerLost, Typed, Handler
  <2> QED
    BY Zenon, <1>9, <1>16, <2>1 DEF AnswerLost
<1>17. CASE Release(p)
  <2>1. h'[p].pc = "idle"
    BY Zenon, <1>17 DEF Release, Idle, Typed
  <2> QED
    BY Zenon, <1>7, <1>17, <2>1 DEF Release
<1>18. ASSUME NEW way \in Way, NEW op \in Op, Arrive(p, way, op)
       PROVE  Allowed(p)
  <2>1. CASE way = "stream"
    <3>1. /\ h' = [h EXCEPT ![p].way = "stream", ![p].op = op, ![p].pc = "wait"]
          /\ UNCHANGED <<errors, begun>>
      BY <1>18, <2>1, Zenon DEF Arrive
    <3>2. h'[p].way = "stream" /\ h'[p].pc = "wait"
      BY Zenon, <3>1 DEF Typed, Handler
    <3>3. p \notin InFlight' /\ p \notin Adding'
      BY Zenon, <1>0, <3>2
    <3> QED
      BY SMTT(30), <1>0, <3>1, <3>3
  <2>2. CASE way # "stream"
    <3>1. h'[p].pc \in {"healthy", "admit"}
      BY <1>18, <2>2, ZenonT(30) DEF Arrive, Typed, Handler
    <3> QED
      BY <1>7, <1>18, <3>1, ZenonT(30) DEF Arrive
  <2> QED
    BY Zenon, <2>1, <2>2
<1> QED
  BY Zenon, <1>3, <1>4, <1>5, <1>6, <1>10, <1>11, <1>12, <1>13, <1>14, <1>15, <1>16, <1>17, <1>18
  DEF Step, CheckFails, WaitTimeout, StatementError

\* Every step keeps the two sums.
LEMMA CountStep ==
    ASSUME Typed, CountInv, [Next]_vars
    PROVE  CountInv'
<1>1. ASSUME NEW p \in Slot,
             Step(p) \/ Refuse(p) \/ \E way \in Way, op \in Op : Arrive(p, way, op)
      PROVE  CountInv'
  <2>1. Only(p) /\ Allowed(p)
    BY Zenon, <1>1, StepFrame, AllowedStep
  <2>2. /\ InFlight \in SUBSET Slot /\ InFlight' \in SUBSET Slot /\ InFlight \ {p} = InFlight' \ {p}
        /\ Adding \in SUBSET Slot /\ Adding' \in SUBSET Slot /\ Adding \ {p} = Adding' \ {p}
    BY Zenon, <2>1 DEF Only, InFlight, Adding
  <2>3. /\ Cardinality(InFlight) \in Nat /\ Cardinality(InFlight') \in Nat
        /\ Cardinality(Slot) \in Nat /\ Cardinality(InFlight') <= Cardinality(Slot)
        /\ Cardinality(InFlight') + One(InFlight, p) = Cardinality(InFlight) + One(InFlight', p)
    BY Zenon, <2>2, CountMoves
  <2>4. /\ Cardinality(Adding) \in Nat /\ Cardinality(Adding') \in Nat
        /\ Cardinality(Adding') <= Cardinality(Slot)
        /\ Cardinality(Adding') + One(Adding, p) = Cardinality(Adding) + One(Adding', p)
    BY Zenon, <2>2, CountMoves
  <2>5. /\ errors \in Nat /\ errors' \in Nat /\ begun \in Nat /\ begun' \in Nat /\ Threshold \in Nat
        /\ One(InFlight, p) \in Nat /\ One(InFlight', p) \in Nat
        /\ One(Adding, p) \in Nat /\ One(Adding', p) \in Nat
    BY Zenon, TypedStep, RequestsAssumption DEF Typed, One
  <2>6. errors' + Cardinality(InFlight') <= Threshold + Cardinality(Slot)
    BY <2>1, <2>3, <2>5 DEF Allowed, CountInv
  <2>7. errors' + Cardinality(Adding') <= begun' + Cardinality(Slot)
    BY <2>1, <2>3, <2>4, <2>5 DEF Allowed, CountInv
  <2> QED
    BY Zenon, <2>6, <2>7 DEF CountInv
<1>2. CASE UNCHANGED <<h, errors, begun>>
  BY Zenon, <1>2 DEF CountInv, InFlight, Adding
<1> QED
  BY Zenon, <1>1, <1>2 DEF Next, Arrival, Tick, vars

\* Whatever the order of the resets, loads and additions of concurrent requests,
\* the breaker never counts more errors than its threshold and one for each
\* request served at a time, nor more than the window had and those in flight
\* when it began.
THEOREM BreakerCountsBounded == Spec => []BreakerCounts
<1>1. Init => CountInv
  <2>1. ASSUME Init PROVE InFlight = {} /\ Adding = {} /\ errors = 0 /\ begun = 0
    BY Zenon, <2>1 DEF Init, Idle, InFlight, Adding
  <2>2. Cardinality(Slot) \in Nat /\ Cardinality({}) = 0
    BY Zenon, RequestsAssumption, FS_CardinalityType, FS_EmptySet
  <2> QED
    BY <2>1, <2>2, RequestsAssumption DEF CountInv
<1>2. Typed /\ CountInv /\ [Next]_vars => (Typed /\ CountInv)'
  BY Zenon, TypedStep, CountStep
<1>3. Typed /\ CountInv => BreakerCounts
  <2>1. InFlight \in SUBSET Slot /\ Adding \in SUBSET Slot /\ IsFiniteSet(Slot)
    BY Zenon, RequestsAssumption DEF InFlight, Adding
  <2>2. IsFiniteSet(InFlight) /\ IsFiniteSet(Adding)
    BY Zenon, <2>1, FS_Subset
  <2>3. Cardinality(InFlight) \in Nat /\ Cardinality(Adding) \in Nat /\ Cardinality(Slot) \in Nat
    BY <2>1, <2>2, FS_CardinalityType
  <2> QED
    BY <2>3, RequestsAssumption DEF Typed, CountInv, BreakerCounts, ErrorsBounded, CountsThisWindow
<1> QED
  BY <1>1, <1>2, <1>3, TypedInitially, PTL DEF Spec

-----------------------------------------------------------------------------
(* MessagePack integers and lengths *)

\* The 64-bit integers, and the lengths that array32 and str32 can hold.
I64 == {n \in Int : -2147483648 <= High(n) /\ High(n) <= 2147483647}
U32 == {n \in Nat : n < 65536 * 65536}

\* An integer is its low four bytes and what is above them.
LEMMA LowBytes ==
    ASSUME NEW n \in Int
    PROVE  /\ High(n) \in Int
           /\ n = 65536 * 65536 * High(n)
                + 16777216 * ((n \div 16777216) % 256) + 65536 * ((n \div 65536) % 256)
                + 256 * ((n \div 256) % 256) + (n % 256)
  BY SMTT(60) DEF High

\* The two's complement of a number of 32 bits.
LEMMA HighBytes ==
    ASSUME NEW x \in Int, -2147483648 <= x, x <= 2147483647
    PROVE  x = 16777216 * Signed((x \div 16777216) % 256) + 65536 * ((x \div 65536) % 256)
                + 256 * ((x \div 256) % 256) + (x % 256)
  BY SMTT(60) DEF Signed

LEMMA Read4 ==
    ASSUME NEW n \in U32
    PROVE  From4(To4(n)) = n
  BY LowBytes, SMTT(60) DEF U32, From4, To4, High

LEMMA ReadSigned4 ==
    ASSUME NEW n \in Int, n \div 65536 >= -32768, n < 0
    PROVE  SignedFrom4(To4(n)) = n
<1>1. -2147483648 <= n /\ n <= 2147483647
  BY SMTT(30)
<1>2. n = 16777216 * Signed((n \div 16777216) % 256) + 65536 * ((n \div 65536) % 256)
             + 256 * ((n \div 256) % 256) + (n % 256)
  BY <1>1, SMTT(60) DEF Signed
<1>3. SignedFrom4(To4(n)) =
        16777216 * Signed((n \div 16777216) % 256) + 65536 * ((n \div 65536) % 256)
             + 256 * ((n \div 256) % 256) + (n % 256)
  BY SMTT(30) DEF SignedFrom4, To4
<1> QED
  BY <1>2, <1>3, SMTT(30)

LEMMA ReadSigned8 ==
    ASSUME NEW n \in Int, -2147483648 <= High(n), High(n) <= 2147483647
    PROVE  SignedFrom8(To8(n)) = n
<1> DEFINE up == High(n)
<1>1. n \in Int /\ up \in Int /\ -2147483648 <= up /\ up <= 2147483647
  BY LowBytes, SMTT(30)
<1>2. up = 16777216 * Signed((up \div 16777216) % 256) + 65536 * ((up \div 65536) % 256)
             + 256 * ((up \div 256) % 256) + (up % 256)
  BY <1>1, HighBytes, SMTT(30)
<1>3. n = 65536 * 65536 * up
             + 16777216 * ((n \div 16777216) % 256) + 65536 * ((n \div 65536) % 256)
             + 256 * ((n \div 256) % 256) + (n % 256)
  BY <1>1, SMTT(60) DEF High
<1>4. SignedFrom8(To8(n)) =
        65536 * 65536 * (16777216 * Signed((up \div 16777216) % 256) + 65536 * ((up \div 65536) % 256)
             + 256 * ((up \div 256) % 256) + (up % 256))
             + 16777216 * ((n \div 16777216) % 256) + 65536 * ((n \div 65536) % 256)
             + 256 * ((n \div 256) % 256) + (n % 256)
  BY SMTT(30) DEF SignedFrom8, To8
<1> HIDE DEF up
<1> QED
  BY <1>1, <1>2, <1>3, <1>4, SMTT(30)

-----------------------------------------------------------------------------
\* msgpack_write_i64 followed by msgpack_read_value: whatever format the value's
\* size selects, the reader gives the value back, negative or not, for every i64.
THEOREM IntegersRoundTrip ==
    ASSUME NEW n \in I64
    PROVE  ReadInt(WriteI64(n)) = n
<1>0. n \in Int /\ -2147483648 <= High(n) /\ High(n) <= 2147483647
  BY SMTT(30) DEF I64
<1>1. CASE n >= 0 /\ n <= 127
  <2>1. WriteI64(n) = [f |-> n, b |-> <<>>]
    BY <1>0, <1>1, SMTT(30) DEF WriteI64, WriteU64, Bytes
  <2> QED
    BY <1>0, <1>1, <2>1, SMTT(30) DEF ReadInt
<1>2. CASE n > 127 /\ n <= 255
  <2>1. WriteI64(n) = [f |-> 204, b |-> To1(n)]
    BY <1>0, <1>2, SMTT(30) DEF WriteI64, WriteU64, Bytes
  <2> QED
    BY <1>0, <1>2, <2>1, SMTT(30) DEF ReadInt, To1
<1>3. CASE n > 255 /\ n <= 65535
  <2>1. WriteI64(n) = [f |-> 205, b |-> To2(n)]
    BY <1>0, <1>3, SMTT(30) DEF WriteI64, WriteU64, Bytes
  <2> QED
    BY <1>0, <1>3, <2>1, SMTT(30) DEF ReadInt, To2, From2
<1>4. CASE n > 65535 /\ n \div 65536 < 65536
  <2>1. WriteI64(n) = [f |-> 206, b |-> To4(n)]
    BY <1>0, <1>4, SMTT(30) DEF WriteI64, WriteU64, Bytes
  <2>2. n \in U32
    BY <1>0, <1>4, SMTT(30) DEF U32
  <2> QED
    BY <2>1, <2>2, Read4, SMTT(30) DEF ReadInt
<1>5. CASE n > 65535 /\ ~(n \div 65536 < 65536)
  <2>1. WriteI64(n) = [f |-> 207, b |-> To8(n)]
    BY <1>0, <1>5, SMTT(30) DEF WriteI64, WriteU64, Bytes
  <2> QED
    BY <1>0, <1>5, <2>1, ReadSigned8, SMTT(30) DEF ReadInt
<1>6. CASE n < 0 /\ n >= -32
  <2>1. WriteI64(n) = [f |-> n % 256, b |-> <<>>]
    BY <1>0, <1>6, SMTT(30) DEF WriteI64, WriteU64, Bytes
  <2> QED
    BY <1>0, <1>6, <2>1, SMTT(30) DEF ReadInt, Signed
<1>7. CASE n < -32 /\ n >= -128
  <2>1. WriteI64(n) = [f |-> 208, b |-> To1(n)]
    BY <1>0, <1>7, SMTT(30) DEF WriteI64, WriteU64, Bytes
  <2> QED
    BY <1>0, <1>7, <2>1, SMTT(30) DEF ReadInt, To1, Signed
<1>8. CASE n < -128 /\ n >= -32768
  <2>1. WriteI64(n) = [f |-> 209, b |-> To2(n)]
    BY <1>0, <1>8, SMTT(30) DEF WriteI64, WriteU64, Bytes
  <2> QED
    BY <1>0, <1>8, <2>1, SMTT(30) DEF ReadInt, To2, SignedFrom2, Signed
<1>9. CASE n < -32768 /\ n \div 65536 >= -32768
  <2>1. WriteI64(n) = [f |-> 210, b |-> To4(n)]
    BY <1>0, <1>9, SMTT(30) DEF WriteI64, WriteU64, Bytes
  <2> QED
    BY <1>0, <1>9, <2>1, ReadSigned4, SMTT(30) DEF ReadInt
<1>10. CASE n < -32768 /\ ~(n \div 65536 >= -32768)
  <2>1. WriteI64(n) = [f |-> 211, b |-> To8(n)]
    BY <1>0, <1>10, SMTT(30) DEF WriteI64, WriteU64, Bytes
  <2> QED
    BY <1>0, <1>10, <2>1, ReadSigned8, SMTT(30) DEF ReadInt
<1> QED
  BY <1>0, <1>1, <1>2, <1>3, <1>4, <1>5, <1>6, <1>7, <1>8, <1>9, <1>10, SMTT(30)

\* msgpack_write_str and msgpack_write_array_len followed by the reader: a string
\* is read as a string and an array as an array, of the length it was written with.
THEOREM LengthsRoundTrip ==
    ASSUME NEW n \in U32
    PROVE  /\ IsStr(StrHeader(n)) /\ ReadLength(StrHeader(n)) = n
           /\ IsArray(ArrayHeader(n)) /\ ReadLength(ArrayHeader(n)) = n
<1>0. n \in Nat
  BY SMTT(30) DEF U32
<1>1. IsStr(StrHeader(n)) /\ ReadLength(StrHeader(n)) = n
  <2>1. CASE n <= 31
    BY <1>0, <2>1, SMTT(30) DEF IsStr, StrHeader, ReadLength, Bytes
  <2>2. CASE n > 31 /\ n <= 255
    BY <1>0, <2>2, SMTT(30) DEF IsStr, StrHeader, ReadLength, Bytes, To1
  <2>3. CASE n > 255 /\ n <= 65535
    BY <1>0, <2>3, SMTT(30) DEF IsStr, StrHeader, ReadLength, Bytes, To2, From2
  <2>4. CASE n > 65535
    BY <1>0, <2>4, Read4, SMTT(30) DEF IsStr, StrHeader, ReadLength, Bytes
  <2> QED
    BY <1>0, <2>1, <2>2, <2>3, <2>4, SMTT(30)
<1>2. IsArray(ArrayHeader(n)) /\ ReadLength(ArrayHeader(n)) = n
  <2>1. CASE n <= 15
    BY <1>0, <2>1, SMTT(30) DEF IsArray, ArrayHeader, ReadLength, Bytes
  <2>2. CASE n > 15 /\ n <= 65535
    BY <1>0, <2>2, SMTT(30) DEF IsArray, ArrayHeader, ReadLength, Bytes, To2, From2
  <2>3. CASE n > 65535
    BY <1>0, <2>3, Read4, SMTT(30) DEF IsArray, ArrayHeader, ReadLength, Bytes
  <2> QED
    BY <1>0, <2>1, <2>2, <2>3, SMTT(30)
<1> QED
  BY <1>1, <1>2, SMTT(30)

=============================================================================
