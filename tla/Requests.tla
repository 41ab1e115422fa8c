------------------------------ MODULE Requests ------------------------------
(***************************************************************************)
(* The life of a request in mentatd: the circuit breaker, the connection   *)
(* pool and the retry loop of execute_operation (src/mentatd/src/server.rs)*)
(* and the three ways in: handle_request (HTTP), process_ws_message        *)
(* (websocket.rs) and handle_stream_query (stream.rs).                     *)
(*                                                                         *)
(* maybe_reset runs under its mutex; the error counter is an atomic that   *)
(* is read and incremented outside of it, so these are steps of their own. *)
(***************************************************************************)
EXTENDS Integers, FiniteSets

CONSTANTS
    Slot,         \* requests served at a time
    PoolSize,     \* connections of the pool
    Threshold,    \* errors the breaker tolerates in a window
    Window,       \* ticks of a window
    MaxRetries    \* MAX_TRANSACT_RETRIES

ASSUME RequestsAssumption ==
    /\ IsFiniteSet(Slot)
    /\ PoolSize \in Nat \ {0}
    /\ {Threshold, Window, MaxRetries} \subseteq Nat

(* Operations by what can happen to them: answered without the database,   *)
(* refused for their arguments (a database name, an unknown ident or an    *)
(* expired db-id), a read, a transaction.                                  *)
Op == {"health", "checked", "read", "transact"}
Way == {"http", "ws", "stream"}

VARIABLES
    h,        \* the handler of each slot
    errors,   \* error_count
    age,      \* ticks since last_reset
    begun     \* errors met since last_reset (history)

vars == <<h, errors, age, begun>>

Outcome == {"ok", "error", "rejected", "incorrect", "conflict", "unique"}

\* A handler: where it is, the request, the attempts after the first, how often
\* its statement took effect (history) and what the client was told.
Handler ==
    [pc : {"idle", "healthy", "admit", "load", "check", "wait", "database", "backoff", "record",
           "add", "answered"},
     way : Way \cup {"none"}, op : Op \cup {"none"}, attempt : 0..MaxRetries,
     applied : Nat, what : Outcome \cup {"none"}]

Idle == [pc |-> "idle", way |-> "none", op |-> "none", attempt |-> 0, applied |-> 0, what |-> "none"]

At(p, pc) == h[p].pc = pc
Goto(p, pc) == h' = [h EXCEPT ![p].pc = pc]
Answer(p, what) == h' = [h EXCEPT ![p].pc = "answered", ![p].what = what]

(* A connection is held from pool.get until the variable goes out of       *)
(* scope: over the sleep between two attempts as well.                     *)
Held == {p \in Slot : h[p].pc \in {"database", "backoff"}}
Free == Cardinality(Held) < PoolSize

-----------------------------------------------------------------------------
(* CircuitBreaker *)

Elapsed == age > Window
(* Mutant: a new window keeps the errors of the old one. *)
ResetClockOnly ==
    /\ age' = IF Elapsed THEN 0 ELSE age
    /\ begun' = IF Elapsed THEN 0 ELSE begun
    /\ UNCHANGED errors

MaybeReset ==
    /\ errors' = IF Elapsed THEN 0 ELSE errors
    /\ age' = IF Elapsed THEN 0 ELSE age
    /\ begun' = IF Elapsed THEN 0 ELSE begun

(* Mutant: only an error resets the window. *)
ShouldRejectNoReset(p) ==
    /\ At(p, "admit")
    /\ Goto(p, "load")
    /\ UNCHANGED <<errors, age, begun>>

(* should_reject: maybe_reset, then the load. *)
ShouldReject(p) ==
    /\ At(p, "admit")
    /\ MaybeReset
    /\ Goto(p, "load")

(* Mutant: every request is admitted. *)
LoadErrorsAlways(p) ==
    /\ At(p, "load")
    /\ Goto(p, IF h[p].op = "checked" THEN "check" ELSE "wait")
    /\ UNCHANGED <<errors, age, begun>>

LoadErrors(p) ==
    /\ At(p, "load")
    /\ IF errors > Threshold THEN Answer(p, "rejected")
       ELSE Goto(p, IF h[p].op = "checked" THEN "check" ELSE "wait")
    /\ UNCHANGED <<errors, age, begun>>

(* record_error: maybe_reset, then fetch_add. *)
RecordError(p) ==
    /\ At(p, "record")
    /\ MaybeReset
    /\ Goto(p, "add")

AddError(p) ==
    /\ At(p, "add")
    /\ errors' = errors + 1
    /\ Answer(p, "error")
    /\ UNCHANGED <<age, begun>>

(* What the way in does with an error that is Pool, Database or Internal:  *)
(* only handle_request records it.                                         *)
Fail(p) ==
    /\ IF h[p].way = "http" THEN Goto(p, "record") ELSE Answer(p, "error")
    /\ begun' = IF h[p].way = "http" THEN begun + 1 ELSE begun
    /\ UNCHANGED <<errors, age>>

-----------------------------------------------------------------------------
(* A request arrives.  One that does not parse, and a stream of anything   *)
(* but a query, is answered at once.  A stream goes by the breaker.        *)
Arrive(p, way, op) ==
    /\ At(p, "idle")
    /\ way = "stream" => op = "read"
    /\ h' = [h EXCEPT ![p].way = way, ![p].op = op,
                      ![p].pc = IF way = "stream" THEN "wait"
                                ELSE IF op = "health" THEN "healthy" ELSE "admit"]
    /\ UNCHANGED <<errors, age, begun>>

Refuse(p) ==
    /\ At(p, "idle")
    /\ Answer(p, "incorrect")
    /\ UNCHANGED <<errors, age, begun>>

Health(p) ==
    /\ At(p, "healthy")
    /\ Answer(p, "ok")
    /\ UNCHANGED <<errors, age, begun>>

CheckPasses(p) ==
    /\ At(p, "check")
    /\ Goto(p, "wait")
    /\ UNCHANGED <<errors, age, begun>>

CheckFails(p) == At(p, "check") /\ Fail(p)

-----------------------------------------------------------------------------
(* The pool: a connection, or a timeout after wait_timeout without one. *)
Connect(p) ==
    /\ At(p, "wait") /\ Free
    /\ Goto(p, "database")
    /\ UNCHANGED <<errors, age, begun>>

WaitTimeout(p) == At(p, "wait") /\ ~Free /\ Fail(p)

-----------------------------------------------------------------------------
(* PostgreSQL answers. *)
Transacts(p) == h[p].op = "transact"
Effects(p) == IF Transacts(p) THEN h[p].applied + 1 ELSE h[p].applied

Succeed(p) ==
    /\ At(p, "database")
    /\ h' = [h EXCEPT ![p].pc = "answered", ![p].what = "ok", ![p].applied = Effects(p)]
    /\ UNCHANGED <<errors, age, begun>>

(* Mutant: an attempt is not counted. *)
RetryForever(p) ==
    /\ At(p, "database") /\ Transacts(p)
    /\ h' = [h EXCEPT ![p].pc = "backoff", ![p].attempt = 0]
    /\ UNCHANGED <<errors, age, begun>>

(* Mutant: the attempt after the last is made. *)
RetryOnceMore(p) ==
    /\ At(p, "database") /\ Transacts(p)
    /\ IF h[p].attempt > MaxRetries THEN Answer(p, "conflict") ELSE Goto(p, "backoff")
    /\ UNCHANGED <<errors, age, begun>>

(* 40001 and 40P01: the transaction is rolled back and sent again. *)
RetryConflict(p) ==
    /\ At(p, "database") /\ Transacts(p)
    /\ IF h[p].attempt >= MaxRetries THEN Answer(p, "conflict") ELSE Goto(p, "backoff")
    /\ UNCHANGED <<errors, age, begun>>

Backoff(p) ==
    /\ At(p, "backoff")
    /\ h' = [h EXCEPT ![p].pc = "wait", ![p].attempt = h[p].attempt + 1]
    /\ UNCHANGED <<errors, age, begun>>

(* 23505 *)
UniqueViolation(p) ==
    /\ At(p, "database") /\ Transacts(p)
    /\ Answer(p, "unique")
    /\ UNCHANGED <<errors, age, begun>>

(* Any other error of the statement, the ones its text causes included. *)
StatementError(p) == At(p, "database") /\ Fail(p)

(* Mutant: a transaction whose answer is lost is sent again. *)
RetryLost(p) ==
    /\ At(p, "database") /\ Transacts(p) /\ h[p].attempt < MaxRetries
    /\ h' = [h EXCEPT ![p].pc = "backoff", ![p].applied = Effects(p)]
    /\ UNCHANGED <<errors, age, begun>>

(* The connection breaks after the statement took effect. *)
AnswerLost(p) ==
    /\ At(p, "database")
    /\ h' = [h EXCEPT ![p].pc = IF h[p].way = "http" THEN "record" ELSE "answered",
                      ![p].what = "error", ![p].applied = Effects(p)]
    /\ begun' = IF h[p].way = "http" THEN begun + 1 ELSE begun
    /\ UNCHANGED <<errors, age>>

-----------------------------------------------------------------------------
Release(p) ==
    /\ At(p, "answered")
    /\ h' = [h EXCEPT ![p] = Idle]
    /\ UNCHANGED <<errors, age, begun>>

Tick ==
    /\ ~Elapsed
    /\ age' = age + 1
    /\ UNCHANGED <<h, errors, begun>>

Step(p) ==
    \/ ShouldReject(p) \/ LoadErrors(p) \/ RecordError(p) \/ AddError(p)
    \/ Health(p) \/ CheckPasses(p) \/ CheckFails(p)
    \/ Connect(p) \/ WaitTimeout(p)
    \/ Succeed(p) \/ RetryConflict(p) \/ Backoff(p) \/ UniqueViolation(p)
    \/ StatementError(p) \/ AnswerLost(p)
    \/ Release(p)

Arrival == \E p \in Slot : Refuse(p) \/ \E way \in Way, op \in Op : Arrive(p, way, op)

Init ==
    /\ h = [p \in Slot |-> Idle]
    /\ errors = 0 /\ age = 0 /\ begun = 0

Next == Arrival \/ (\E p \in Slot : Step(p)) \/ Tick

Spec == Init /\ [][Next]_vars

(* tokio polls every task that can go on, PostgreSQL answers, and time     *)
(* passes.  Nobody has to send a request.                                  *)
FairSpec == Spec /\ WF_vars(Tick) /\ \A p \in Slot : WF_vars(Step(p))
-----------------------------------------------------------------------------
(* A handler tries at most MaxRetries + 1 times, and no more connections   *)
(* are held than the pool has.                                             *)
TypeOK ==
    /\ h \in [Slot -> Handler]
    /\ Cardinality(Held) <= PoolSize
    /\ errors \in Nat /\ begun \in Nat /\ age \in 0..Window + 1

(* A transaction takes effect at most once whatever is retried; it has     *)
(* taken effect when the client is told so, and has not when the client is *)
(* told of a conflict, a unique violation or an open breaker.              *)
AppliedAtMostOnce ==
    \A p \in Slot : h[p].pc # "idle" =>
        /\ h[p].applied <= 1
        /\ At(p, "answered") /\ h[p].what = "ok" /\ Transacts(p) => h[p].applied = 1
        /\ At(p, "answered") /\ h[p].what \in {"conflict", "unique", "rejected"} => h[p].applied = 0

(* The breaker closes the door behind the requests it has let in: the      *)
(* errors of a window never exceed the threshold by more than the requests *)
(* that can be in flight.                                                  *)
ErrorsBounded == errors <= Threshold + Cardinality(Slot)

(* The race of maybe_reset with fetch_add carries over to a new window at  *)
(* most the errors that were in flight when it began.                      *)
CountsThisWindow == errors <= begun + Cardinality(Slot)

(* Whatever the order in which overlapping requests reset the window, load *)
(* the count and add to it, the breaker opens in time and on errors that   *)
(* are not much older than its window (CircuitBreaker).                    *)
BreakerCounts == ErrorsBounded /\ CountsThisWindow

(* Every request is answered: a wait for a connection ends in a timeout    *)
(* and a transaction is sent at most MaxRetries + 1 times.                 *)
RequestsAnswered == \A p \in Slot : h[p].pc # "idle" ~> h[p].pc = "idle"

(* "Open -> Closed when the window resets": while requests keep coming to  *)
(* the breaker, it does not stay open.                                     *)
BreakerCloses ==
    []<><<\E p \in Slot : ShouldReject(p)>>_vars => (errors > Threshold ~> errors <= Threshold)
=============================================================================
