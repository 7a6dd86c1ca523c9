------------------------------ MODULE Requests ------------------------------
(***************************************************************************)
(* The life of one request id: a client sends the same OpenDating request  *)
(* again until it has a reply, each copy in a gift wrap of its own, and    *)
(* routeRequest runs every copy through the freshness check, the           *)
(* idempotency check, the service and the idempotency record.  The check   *)
(* may be answered by a replica; the record is kept for Retention and      *)
(* pruned by the housekeeper.                                              *)
(***************************************************************************)
EXTENDS Integers, FiniteSets

CONSTANTS
    Flights,        \* copies that can be in flight at once
    Created,        \* created_at, which the client put in every copy
    MaxAge,         \* OD_REQUEST_MAX_AGE_SEC
    MaxFuture,      \* OD_REQUEST_MAX_FUTURE_SEC
    Retention,      \* OD_IDEMPOTENCY_RETENTION_SEC
    Lagging,        \* whether reads may be answered by a replica that lags
    StoreFails,     \* whether statements fail and handlers are cut off
    CopySpan,       \* ticks a copy may be in flight
    LastTick,       \* bound on the clock
    MaxRuns         \* bound on the executions

ASSUME RequestTimes ==
    /\ Created \in Nat /\ MaxAge \in Nat /\ MaxFuture \in Nat /\ Retention \in Nat
    /\ CopySpan \in Nat /\ LastTick \in Nat /\ MaxRuns \in Nat
    /\ Retention >= MaxAge + MaxFuture + CopySpan
ASSUME RequestProcs == IsFiniteSet(Flights)
ASSUME RequestModes == Lagging \in BOOLEAN /\ StoreFails \in BOOLEAN

VARIABLES
    ticks,      \* seconds, in ticks
    record,     \* od_idempotency: expires_at of the row, or NoRecord
    replica,    \* the row as a replica has it
    copy,       \* per process: where the copy in flight is, and when it arrived
    runs,       \* how often the service has executed the request
    failed      \* history: whether a statement failed or a handler was cut off

requestVars == <<ticks, record, replica, copy, runs, failed>>

NoRecord == -1
Ticks == 0..LastTick
CopySteps == {"idle", "check", "run", "record"}

Copies == [at : CopySteps, since : Ticks]

IsAt(p, step) == copy[p].at = step
MoveTo(p, step) == copy' = [copy EXCEPT ![p].at = step]
Enter(p) == copy' = [copy EXCEPT ![p] = [at |-> "check", since |-> ticks]]

RequestInit ==
    /\ ticks = 0
    /\ record = NoRecord /\ replica = NoRecord
    /\ copy = [p \in Flights |-> [at |-> "idle", since |-> 0]]
    /\ runs = 0
    /\ failed = FALSE

Fresh == ticks - Created <= MaxAge /\ Created - ticks <= MaxFuture

\* Mutant: the age is not looked at.
ArriveAnyAge(p) ==
    /\ IsAt(p, "idle")
    /\ Created - ticks <= MaxFuture
    /\ Enter(p)
    /\ UNCHANGED <<ticks, record, replica, runs, failed>>

(* A well-formed copy whose sender is authenticated; one that is too old,  *)
(* or too far in the future, is answered with an error and changes nothing.*)
Arrive(p) ==
    /\ IsAt(p, "idle")
    /\ Fresh
    /\ Enter(p)
    /\ UNCHANGED <<ticks, record, replica, runs, failed>>

\* isDuplicate.
Check(p) ==
    /\ IsAt(p, "check")
    /\ IF (IF Lagging THEN replica ELSE record) # NoRecord THEN MoveTo(p, "idle") ELSE MoveTo(p, "run")
    /\ UNCHANGED <<ticks, record, replica, runs, failed>>

\* The check fails open.
CheckFails(p) ==
    /\ StoreFails /\ IsAt(p, "check")
    /\ MoveTo(p, "run")
    /\ failed' = TRUE
    /\ UNCHANGED <<ticks, record, replica, runs>>

\* The service has the effects of the request and returns its response.
Execute(p) ==
    /\ IsAt(p, "run") /\ runs < MaxRuns
    /\ runs' = runs + 1
    /\ MoveTo(p, "record")
    /\ UNCHANGED <<ticks, record, replica, failed>>

\* INSERT OR IGNORE.
Record(p) ==
    /\ IsAt(p, "record")
    /\ record' = IF record = NoRecord THEN ticks + Retention ELSE record
    /\ MoveTo(p, "idle")
    /\ UNCHANGED <<ticks, replica, runs, failed>>

(* The service throws (after some or all of its effects), the record fails *)
(* and is not tried again, or the isolate is gone.                         *)
CopyFails(p) ==
    /\ StoreFails /\ copy[p].at \in {"check", "run", "record"}
    /\ MoveTo(p, "idle")
    /\ failed' = TRUE
    /\ UNCHANGED <<ticks, record, replica, runs>>

CatchUp ==
    /\ replica # record
    /\ replica' = record
    /\ UNCHANGED <<ticks, record, copy, runs, failed>>

\* pruneExpiredIdempotency.
Prune ==
    /\ record # NoRecord /\ record < ticks
    /\ record' = NoRecord
    /\ UNCHANGED <<ticks, replica, copy, runs, failed>>

TickOn ==
    /\ ticks < LastTick
    /\ \A p \in Flights : ~IsAt(p, "idle") => ticks < copy[p].since + CopySpan
    /\ ticks' = ticks + 1
    /\ UNCHANGED <<record, replica, copy, runs, failed>>

RequestNext ==
    \/ \E p \in Flights :
         Arrive(p) \/ Check(p) \/ CheckFails(p) \/ Execute(p) \/ Record(p) \/ CopyFails(p)
    \/ CatchUp \/ Prune \/ TickOn

RequestSpec == RequestInit /\ [][RequestNext]_requestVars

-----------------------------------------------------------------------------
RequestTypeOK ==
    /\ ticks \in Ticks
    /\ record \in {NoRecord} \cup 0..LastTick + Retention
    /\ replica \in {NoRecord} \cup 0..LastTick + Retention
    /\ copy \in [Flights -> Copies]
    /\ runs \in 0..MaxRuns
    /\ failed \in BOOLEAN

(* A request that is sent again and again, early or late, is executed at   *)
(* most once per copy that can be in flight at a time: once, if the client *)
(* waits for a copy to be over before it sends the next.  What runs first  *)
(* leaves a record that outlives every moment at which a copy is fresh, as *)
(* long as nothing fails and the check reads what was recorded.            *)
OncePerCopyInFlight == ~failed => runs <= Cardinality(Flights)
=============================================================================
