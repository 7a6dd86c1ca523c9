--------------------------- MODULE RequestsProofs ---------------------------
(* Proofs about Requests, for every retention, age limit and span, and     *)
(* about Quota, for every limit, batch and day, and any number of requests *)
(* of the member at once.                                                  *)
EXTENDS Requests, Quota, FiniteSetTheorems, TLAPS

USE DEF NoRecord, Ticks

(* Every step keeps the record a time and the copies where they can be. *)
LEMMA TypeInductive == RequestTypeOK /\ [RequestNext]_requestVars => RequestTypeOK'
<1> SUFFICES ASSUME RequestTypeOK, [RequestNext]_requestVars PROVE RequestTypeOK'
  OBVIOUS
<1> USE RequestTimes DEF RequestTypeOK, Copies, CopySteps
<1>1. ASSUME NEW p \in Flights,
             \/ Arrive(p) \/ Check(p) \/ CheckFails(p) \/ Execute(p) \/ Record(p) \/ CopyFails(p)
      PROVE  RequestTypeOK'
  <2>1. copy' \in [Flights -> Copies]
    BY <1>1 DEF Arrive, Check, CheckFails, Execute, Record, CopyFails, MoveTo, Enter
  <2>2. record' \in {NoRecord} \cup 0..LastTick + Retention /\ replica' = replica
    BY <1>1 DEF Arrive, Check, CheckFails, Execute, Record, CopyFails
  <2>3. runs' \in 0..MaxRuns /\ ticks' = ticks
    BY <1>1 DEF Arrive, Check, CheckFails, Execute, Record, CopyFails
  <2>4. failed' \in BOOLEAN
    BY <1>1, Zenon DEF Arrive, Check, CheckFails, Execute, Record, CopyFails
  <2> QED
    BY <2>1, <2>2, <2>3, <2>4
<1>2. CASE CatchUp \/ Prune \/ TickOn \/ UNCHANGED requestVars
  BY <1>2 DEF CatchUp, Prune, TickOn, requestVars
<1> QED
  BY <1>1, <1>2 DEF RequestNext

LEMMA InitialType == RequestInit => RequestTypeOK
<1> SUFFICES ASSUME RequestInit PROVE RequestTypeOK
  OBVIOUS
<1>1. copy \in [Flights -> Copies]
  BY RequestTimes DEF RequestInit, Copies, CopySteps
<1>2. failed \in BOOLEAN
  BY Zenon DEF RequestInit
<1> QED
  BY <1>1, <1>2, RequestTimes DEF RequestInit, RequestTypeOK

(* The types of the tables and of the copies in flight. *)
THEOREM TypeCorrect == RequestSpec => []RequestTypeOK
BY InitialType, TypeInductive, PTL DEF RequestSpec

-----------------------------------------------------------------------------
(* The earliest second a record of this request can expire in. *)
Expiry == Created - MaxFuture + Retention

(* A copy in flight was fresh when it arrived, and is not late. *)
InTime ==
    \A p \in Flights : copy[p].at # "idle" =>
        /\ copy[p].since - Created <= MaxAge /\ Created - copy[p].since <= MaxFuture
        /\ copy[p].since <= ticks /\ ticks <= copy[p].since + CopySpan

\* Copies that were let through and have not been executed, and executed but not recorded.
Ready == {p \in Flights : IsAt(p, "run")}
Ran == {p \in Flights : IsAt(p, "record")}

(* Until the first record is written every execution is that of a copy     *)
(* about to write it; from then on only the copies already let through can *)
(* run.  The record may go once no copy can arrive any more.               *)
Counted ==
    /\ record # NoRecord => record >= Expiry
    /\ ~failed =>
         /\ record = NoRecord /\ ticks <= Expiry => runs = Cardinality(Ran)
         /\ record # NoRecord \/ ticks > Expiry => runs + Cardinality(Ready) <= Cardinality(Flights)

Inv == RequestTypeOK /\ InTime /\ Counted

LEMMA Finite ==
    /\ IsFiniteSet(Ready) /\ IsFiniteSet(Ran)
    /\ Cardinality(Ready) \in Nat /\ Cardinality(Ran) \in Nat /\ Cardinality(Flights) \in Nat
    /\ Cardinality(Ready) + Cardinality(Ran) <= Cardinality(Flights)
<1>1. Ready \in SUBSET Flights /\ Ran \in SUBSET Flights /\ Ready \cup Ran \in SUBSET Flights
  BY DEF Ready, Ran
<1>2. Ready \cap Ran = {}
  BY DEF Ready, Ran, IsAt
<1>3. IsFiniteSet(Ready) /\ IsFiniteSet(Ran) /\ IsFiniteSet(Ready \cup Ran)
  BY <1>1, RequestProcs, FS_Subset
<1>4. Cardinality(Ready \cup Ran) <= Cardinality(Flights)
  BY <1>1, RequestProcs, FS_Subset
<1>5. Cardinality(Ready \cup Ran) = Cardinality(Ready) + Cardinality(Ran)
  <2>1. Cardinality(Ready \cup Ran)
          = Cardinality(Ready) + Cardinality(Ran) - Cardinality(Ready \cap Ran)
    BY <1>3, FS_Union
  <2>2. Cardinality(Ready \cap Ran) = 0
    BY <1>2, FS_EmptySet
  <2> QED
    BY <1>3, <2>1, <2>2, FS_CardinalityType
<1> QED
  BY <1>3, <1>4, <1>5, RequestProcs, FS_CardinalityType

(* No copy is in flight once a record of it can have expired. *)
LEMMA OverInTime ==
    ASSUME RequestTypeOK, InTime, NEW p \in Flights, copy[p].at # "idle"
    PROVE  ticks <= Expiry
BY RequestTimes DEF RequestTypeOK, InTime, Expiry, Copies

(* A step of one copy *)
LEMMA Moving ==
    ASSUME RequestTypeOK, InTime, NEW p \in Flights, NEW step \in CopySteps, MoveTo(p, step),
           copy[p].at # "idle", ticks' = ticks
    PROVE  /\ InTime'
           /\ copy'[p].at = step
           /\ \A q \in Flights : q # p => copy'[q] = copy[q]
           /\ Ready' = IF step = "run" THEN Ready \cup {p} ELSE Ready \ {p}
           /\ Ran' = IF step = "record" THEN Ran \cup {p} ELSE Ran \ {p}
<1>1. /\ copy'[p].at = step /\ copy'[p].since = copy[p].since
      /\ \A q \in Flights : q # p => copy'[q] = copy[q]
  BY DEF MoveTo, RequestTypeOK, Copies
<1>2. InTime'
  BY <1>1 DEF InTime
<1> QED
  BY <1>1, <1>2 DEF Ready, Ran, IsAt

LEMMA CountedInductive ==
    ASSUME Inv, Lagging = FALSE, [RequestNext]_requestVars
    PROVE  InTime' /\ Counted'
<1> USE RequestTimes
<1>0. ticks \in Nat /\ Expiry \in Int /\ runs \in Nat
  BY DEF Inv, RequestTypeOK, Expiry
<1>1. ASSUME NEW p \in Flights, Arrive(p) PROVE InTime' /\ Counted'
  <2>1. /\ copy'[p] = [at |-> "check", since |-> ticks]
        /\ \A q \in Flights : q # p => copy'[q] = copy[q]
    BY <1>1 DEF Arrive, Enter, Inv, RequestTypeOK
  <2>2. InTime'
    BY <1>0, <1>1, <2>1 DEF Arrive, Fresh, InTime, Inv, RequestTypeOK
  <2>3. Ready' = Ready /\ Ran' = Ran
    BY <1>1, <2>1 DEF Arrive, Ready, Ran, IsAt
  <2> QED
    BY <1>1, <2>2, <2>3 DEF Arrive, Inv, Counted
<1>2. ASSUME NEW p \in Flights, Check(p) PROVE InTime' /\ Counted'
  <2>1. copy[p].at # "idle" /\ ticks <= Expiry /\ p \notin Ready /\ p \notin Ran
    BY <1>2, OverInTime DEF Check, IsAt, Inv, Ready, Ran
  <2>2. CASE record # NoRecord
    <3>1. MoveTo(p, "idle") /\ "idle" \in CopySteps
      BY <1>2, <2>2 DEF Check, CopySteps
    <3>2. InTime' /\ Ready' = Ready \ {p} /\ Ran' = Ran \ {p}
      BY <1>2, <2>1, <3>1, Moving DEF Check, Inv
    <3>3. Ready' = Ready /\ Ran' = Ran
      BY <2>1, <3>2
    <3> QED
      BY <1>2, <3>2, <3>3 DEF Check, Inv, Counted
  <2>3. CASE record = NoRecord
    <3>1. MoveTo(p, "run") /\ "run" \in CopySteps
      BY <1>2, <2>3 DEF Check, CopySteps
    <3>2. InTime' /\ Ran' = Ran \ {p}
      BY <1>2, <2>1, <3>1, Moving DEF Check, Inv
    <3>3. Ran' = Ran
      BY <2>1, <3>2
    <3>4. ~(ticks > Expiry)
      BY <1>0, <2>1
    <3>5. Cardinality(Ran') = Cardinality(Ran)
      BY <3>3
    <3>6. UNCHANGED <<ticks, record, runs, failed, Expiry>>
      BY <1>2 DEF Check, Expiry
    <3>7. Counted'
      BY <2>3, <3>4, <3>5, <3>6 DEF Inv, Counted
    <3> QED
      BY <3>2, <3>7
  <2> QED
    BY <2>2, <2>3
<1>3. ASSUME NEW p \in Flights, CheckFails(p) \/ CopyFails(p) PROVE InTime' /\ Counted'
  <2>1. copy[p].at # "idle" /\ ticks' = ticks /\ record' = record /\ failed'
    BY <1>3 DEF CheckFails, CopyFails, IsAt
  <2>2. \E step \in CopySteps : MoveTo(p, step)
    BY <1>3 DEF CheckFails, CopyFails, CopySteps
  <2> QED
    BY <2>1, <2>2, Moving DEF Inv, Counted, Expiry
<1>4. ASSUME NEW p \in Flights, Execute(p) PROVE InTime' /\ Counted'
  <2>1. copy[p].at # "idle" /\ ticks <= Expiry /\ p \in Ready /\ p \notin Ran
    BY <1>4, OverInTime DEF Execute, IsAt, Inv, Ready, Ran
  <2>2. MoveTo(p, "record") /\ "record" \in CopySteps
    BY <1>4 DEF Execute, CopySteps
  <2>3. InTime' /\ Ready' = Ready \ {p} /\ Ran' = Ran \cup {p}
    BY <1>4, <2>1, <2>2, Moving DEF Execute, Inv
  <2>4. Cardinality(Ready') = Cardinality(Ready) - 1 /\ Cardinality(Ran') = Cardinality(Ran) + 1
    BY <2>1, <2>3, Finite, FS_AddElement, FS_RemoveElement
  <2> QED
    BY <1>0, <1>4, <2>1, <2>3, <2>4, Finite DEF Execute, Inv, Counted
<1>5. ASSUME NEW p \in Flights, Record(p) PROVE InTime' /\ Counted'
  <2>1. copy[p].at # "idle" /\ ticks <= Expiry /\ p \notin Ready
    BY <1>5, OverInTime DEF Record, IsAt, Inv, Ready
  <2>2. MoveTo(p, "idle") /\ "idle" \in CopySteps
    BY <1>5 DEF Record, CopySteps
  <2>3. InTime' /\ Ready' = Ready
    BY <1>5, <2>1, <2>2, Moving DEF Record, Inv
  <2>4. ticks >= Created - MaxFuture
    BY <2>1 DEF Inv, RequestTypeOK, InTime, Copies
  <2>5. record' # NoRecord /\ record' >= Expiry
    BY <1>0, <1>5, <2>4 DEF Record, Inv, RequestTypeOK, Counted, Expiry
  <2>6. ~failed => runs + Cardinality(Ready) <= Cardinality(Flights)
    BY <1>0, <2>1, Finite DEF Inv, Counted
  <2> QED
    BY <1>5, <2>3, <2>5, <2>6 DEF Record, Counted, Expiry
<1>6. CASE Prune
  <2>1. Ready' = Ready /\ Ran' = Ran
    BY <1>6 DEF Prune, Ready, Ran, IsAt
  <2>2. ticks > Expiry
    BY <1>0, <1>6 DEF Prune, Inv, RequestTypeOK, Counted
  <2>3. InTime'
    BY <1>6 DEF Prune, Inv, InTime
  <2> QED
    BY <1>0, <1>6, <2>1, <2>2, <2>3 DEF Prune, Inv, Counted, Expiry
<1>7. CASE TickOn
  <2>1. Ready' = Ready /\ Ran' = Ran
    BY <1>7 DEF TickOn, Ready, Ran, IsAt
  <2>2. InTime'
    BY <1>7 DEF TickOn, Inv, RequestTypeOK, InTime, Copies, IsAt
  <2>3. RequestTypeOK'
    BY TypeInductive DEF Inv
  <2>4. ASSUME ticks' > Expiry PROVE Ready = {} /\ Ran = {}
    <3>1. \A p \in Flights : copy'[p].at = "idle"
      BY <2>2, <2>3, <2>4 DEF RequestTypeOK, InTime, Copies, Expiry
    <3> QED
      BY <1>7, <3>1 DEF TickOn, Ready, Ran, IsAt
  <2>5. ASSUME ticks' > Expiry, ~failed PROVE runs + Cardinality(Ready) <= Cardinality(Flights)
    <3>1. Cardinality(Ready) = 0 /\ Cardinality(Ran) = 0
      BY <2>4, <2>5, FS_EmptySet
    <3> QED
      BY <1>0, <2>5, <3>1, Finite DEF Inv, Counted
  <2> QED
    BY <1>0, <1>7, <2>1, <2>2, <2>5 DEF TickOn, Inv, Counted, Expiry
<1>8. CASE CatchUp \/ UNCHANGED requestVars
  BY <1>8 DEF CatchUp, requestVars, Inv, InTime, Counted, Ready, Ran, IsAt, Expiry
<1> QED
  BY <1>1, <1>2, <1>3, <1>4, <1>5, <1>6, <1>7, <1>8 DEF RequestNext

(* If reads are answered by the primary, a request is executed at most as  *)
(* often as copies of it can be in flight at once, while nothing fails,    *)
(* for all ages, clocks and prunings: Retention >= MaxAge + MaxFuture +    *)
(* MaxSpan makes the record outlive the last copy.                         *)
THEOREM ExecutedOncePerCopy ==
    ASSUME Lagging = FALSE
    PROVE  RequestSpec => []OncePerCopyInFlight
<1>1. RequestInit => Inv
  <2> SUFFICES ASSUME RequestInit PROVE Inv
    OBVIOUS
  <2>1. Ran = {} /\ Ready = {}
    BY DEF RequestInit, Ran, Ready, IsAt
  <2>2. Cardinality(Ran) = 0 /\ Cardinality(Ready) = 0
    BY <2>1, FS_EmptySet
  <2>3. RequestTypeOK
    BY InitialType
  <2> QED
    BY <2>2, <2>3, Finite, RequestTimes DEF RequestInit, Inv, InTime, Counted, Expiry
<1>2. Inv /\ [RequestNext]_requestVars => Inv'
  BY TypeInductive, CountedInductive DEF Inv
<1>3. Inv => OncePerCopyInFlight
  BY Finite, RequestTimes DEF Inv, RequestTypeOK, Counted, OncePerCopyInFlight, Expiry
<1> QED
  BY <1>1, <1>2, <1>3, PTL DEF RequestSpec

-----------------------------------------------------------------------------
(* Quota: counting in a window of seconds *)

LEMMA UnitsAreFinite ==
    ASSUME NEW at \in [Seconds -> Nat], NEW a \in Int, NEW b \in Int
    PROVE  IsFiniteSet(Units(at, a, b)) /\ Count(at, a, b) \in Nat
<1> DEFINE W == {u \in Seconds : a <= u /\ u <= b}
           Part(t) == {t} \X (1..at[t])
<1>1. IsFiniteSet(Seconds)
  BY QuotaLimits, FS_Interval DEF Seconds
<1>2. IsFiniteSet(W)
  BY <1>1, FS_Subset
<1>3. IsFiniteSet({Part(t) : t \in W})
  <2> PICK f : f = [t \in W |-> Part(t)]
    OBVIOUS
  <2>1. f \in Surjection(W, {Part(t) : t \in W})
    BY DEF Surjection
  <2> QED
    BY <1>2, <2>1, FS_Surjection
<1>4. ASSUME NEW S \in {Part(t) : t \in W} PROVE IsFiniteSet(S)
  <2>1. PICK t \in W : S = Part(t)
    OBVIOUS
  <2> PICK k \in Int : k = at[t]
    BY <2>1
  <2>2. IsFiniteSet(1..k)
    BY FS_Interval
  <2>3. IsFiniteSet({t})
    BY FS_Singleton
  <2> QED
    BY <2>1, <2>2, <2>3, FS_Product
<1>5. IsFiniteSet(UNION {Part(t) : t \in W})
  BY <1>3, <1>4, FS_UNION
<1> QED
  BY <1>5, FS_CardinalityType DEF Units, Count

(* A window that holds no more of the counted seconds counts no more. *)
LEMMA CountWithin ==
    ASSUME NEW at \in [Seconds -> Nat], NEW a \in Int, NEW b \in Int, NEW c \in Int, NEW d \in Int,
           \A t \in Seconds : at[t] > 0 /\ c <= t /\ t <= d => a <= t /\ t <= b
    PROVE  Count(at, c, d) <= Count(at, a, b)
<1>1. Units(at, c, d) \subseteq Units(at, a, b)
  <2> SUFFICES ASSUME NEW u \in Units(at, c, d) PROVE u \in Units(at, a, b)
    OBVIOUS
  <2>1. PICK t \in Seconds : c <= t /\ t <= d /\ u \in {t} \X (1..at[t])
    BY DEF Units
  <2>2. at[t] > 0
    BY <2>1 DEF Seconds
  <2> QED
    BY <2>1, <2>2 DEF Units, Seconds
<1> QED
  BY <1>1, UnitsAreFinite, FS_Subset DEF Count

LEMMA CountNone ==
    ASSUME NEW at \in [Seconds -> Nat], NEW a \in Int, NEW b \in Int,
           \A t \in Seconds : at[t] > 0 => ~(a <= t /\ t <= b)
    PROVE  Count(at, a, b) = 0
<1>1. Units(at, a, b) = {}
  BY DEF Units, Seconds
<1> QED
  BY <1>1, FS_EmptySet DEF Count

(* Counting n more at one second adds n to the windows that hold it. *)
LEMMA CountMore ==
    ASSUME NEW at \in [Seconds -> Nat], NEW a \in Int, NEW b \in Int,
           NEW s \in Seconds, NEW n \in Nat, NEW more, more = [at EXCEPT ![s] = @ + n]
    PROVE  Count(more, a, b) <= Count(at, a, b) + n
<1> DEFINE New == {s} \X (at[s] + 1..at[s] + n)
<1>1. more \in [Seconds -> Nat] /\ more[s] = at[s] + n /\ \A t \in Seconds : t # s => more[t] = at[t]
  OBVIOUS
<1>2. IsFiniteSet(New) /\ Cardinality(New) = n
  <2>1. IsFiniteSet({s}) /\ Cardinality({s}) = 1
    BY FS_Singleton
  <2> PICK i : i = at[s] + 1
    OBVIOUS
  <2> PICK j : j = at[s] + n
    OBVIOUS
  <2>2. i \in Int /\ j \in Int /\ j - i + 1 = n /\ (i > j => n = 0)
    OBVIOUS
  <2>3. IsFiniteSet(i..j) /\ Cardinality(i..j) = IF i > j THEN 0 ELSE j - i + 1
    BY <2>2, FS_Interval
  <2>4. Cardinality(i..j) = n
    BY <2>2, <2>3
  <2> PICK I : I = i..j
    OBVIOUS
  <2> PICK J : J = {s}
    OBVIOUS
  <2>5. IsFiniteSet(I) /\ Cardinality(I) = n /\ IsFiniteSet(J) /\ Cardinality(J) = 1
    BY <2>1, <2>3, <2>4
  <2>6. IsFiniteSet(J \X I) /\ Cardinality(J \X I) = Cardinality(J) * Cardinality(I)
    BY <2>5, FS_Product
  <2>7. Cardinality(J \X I) = n
    BY <2>5, <2>6
  <2> QED
    BY <2>6, <2>7
<1>3. Units(more, a, b) \subseteq Units(at, a, b) \cup New
  <2> SUFFICES ASSUME NEW u \in Units(more, a, b), u \notin New PROVE u \in Units(at, a, b)
    OBVIOUS
  <2>1. PICK t \in Seconds : a <= t /\ t <= b /\ u \in {t} \X (1..more[t])
    BY DEF Units
  <2>2. u \in {t} \X (1..at[t])
    <3>1. PICK k \in 1..more[t] : u = <<t, k>>
      BY <2>1
    <3>2. at[t] \in Nat
      OBVIOUS
    <3>3. k \in 1..at[t]
      BY <3>1, <3>2, <1>1
    <3> QED
      BY <3>1, <3>3
  <2> QED
    BY <2>1, <2>2 DEF Units
<1>4. Count(more, a, b) <= Count(at, a, b) + n
  <2> PICK A : A = Units(at, a, b)
    OBVIOUS
  <2> PICK B : B = New
    OBVIOUS
  <2>1. IsFiniteSet(A) /\ IsFiniteSet(B) /\ Cardinality(B) = n /\ Units(more, a, b) \subseteq A \cup B
    BY <1>2, <1>3, UnitsAreFinite
  <2>2. IsFiniteSet(A \cup B) /\ Cardinality(A \cup B) = Cardinality(A) + Cardinality(B) - Cardinality(A \cap B)
    BY <2>1, FS_Union
  <2>3. IsFiniteSet(A \cap B)
    BY <2>1, FS_Subset
  <2>4. Cardinality(Units(more, a, b)) <= Cardinality(A \cup B)
    BY <2>1, <2>2, FS_Subset
  <2>5. Cardinality(Units(more, a, b)) \in Nat
    BY <1>1, UnitsAreFinite DEF Count
  <2> QED
    BY <2>1, <2>2, <2>3, <2>4, <2>5, FS_CardinalityType DEF Count
<1> QED
  BY <1>4

-----------------------------------------------------------------------------
(* Quota: types *)

\* A deck goes on only below the limit.
DeckBelow == \A p \in Callers : Reaches(p, "discover.write") => service[p].read.served < MaxServed

LEMMA CallColumns ==
    ASSUME QuotaTypeOK, NEW p \in Callers, service[p].at # "idle"
    PROVE  /\ service[p] = [at |-> service[p].at, now |-> service[p].now, read |-> service[p].read]
           /\ service[p].at \in {"like", "discover", "like.bump", "discover.write"}
           /\ service[p].now \in Seconds /\ service[p].now \in Nat
           /\ service[p].read \in Rows
<1>1. service[p] \in [at : {"like", "discover", "like.bump", "discover.write"}, now : Seconds, read : Rows]
  BY DEF QuotaTypeOK, ServiceStates, AtRest
<1> QED
  BY <1>1 DEF Seconds

LEMMA RowColumns ==
    ASSUME NEW r \in Rows
    PROVE  /\ r.served \in 0..MaxServed - 1 + Batch /\ r.served \in Nat
           /\ r.likes \in Nat
           /\ r.reset \in 0..LastSecond + Day /\ r.reset \in Nat
<1>1. MaxServed - 1 + Batch \in Nat /\ LastSecond + Day \in Nat
  BY QuotaLimits
<1> QED
  BY <1>1 DEF Rows

LEMMA QuotaTypeInductive ==
    QuotaTypeOK /\ DeckBelow /\ [QuotaNext]_quotaVars => QuotaTypeOK' /\ DeckBelow'
<1> SUFFICES ASSUME QuotaTypeOK, DeckBelow, [QuotaNext]_quotaVars
             PROVE  QuotaTypeOK' /\ DeckBelow'
  OBVIOUS
<1> USE QuotaOps, QuotaLimits
<1>1. ASSUME NEW p \in Callers, NEW op \in Services, Serve(p, op)
      PROVE  QuotaTypeOK' /\ DeckBelow'
  <2>1. NoRow \in Rows
    BY DEF NoRow, Rows
  <2>2. service' = [service EXCEPT ![p] = [at |-> op, now |-> second, read |-> NoRow]]
    BY <1>1 DEF Serve
  <2>3. service' \in [Callers -> ServiceStates]
    BY <2>1, <2>2 DEF QuotaTypeOK, ServiceStates
  <2>4. DeckBelow'
    BY <2>2 DEF DeckBelow, Reaches, QuotaTypeOK
  <2> QED
    BY <1>1, <2>3, <2>4 DEF Serve, QuotaTypeOK
<1>2. ASSUME NEW p \in Callers, Done(p), UNCHANGED <<second, services>>,
             quota' \in Rows, sentAt' \in [Seconds -> Nat], dealtAt' \in [Seconds -> Nat], putBack' \in BOOLEAN
      PROVE  QuotaTypeOK' /\ DeckBelow'
  <2>1. service' = [service EXCEPT ![p] = AtRest] /\ AtRest \in ServiceStates
    BY <1>2 DEF Done, ServiceStates
  <2>2. DeckBelow'
    BY <2>1 DEF DeckBelow, Reaches, QuotaTypeOK, AtRest
  <2> QED
    BY <1>2, <2>1, <2>2 DEF QuotaTypeOK
<1>3. ASSUME NEW p \in Callers, service[p].at # "idle",
             NEW step \in {"like.bump", "discover.write"}, NEW r \in Rows, Proceed(p, step, r),
             step = "discover.write" => r.served < MaxServed,
             UNCHANGED <<second, quota, services, sentAt, dealtAt, putBack>>
      PROVE  QuotaTypeOK' /\ DeckBelow'
  <2>1. service' = [service EXCEPT ![p] = [at |-> step, now |-> service[p].now, read |-> r]]
    BY <1>3 DEF Proceed
  <2>2. service' \in [Callers -> ServiceStates]
    BY <1>3, <2>1, CallColumns DEF QuotaTypeOK, ServiceStates
  <2>3. DeckBelow'
    BY <1>3, <2>1 DEF DeckBelow, Reaches, QuotaTypeOK
  <2> QED
    BY <1>3, <2>2, <2>3 DEF QuotaTypeOK
<1>4. ASSUME NEW p \in Callers, LikeCheck(p)
      PROVE  QuotaTypeOK' /\ DeckBelow'
  <2>1. CASE Done(p)
    BY <1>2, <1>4, <2>1 DEF LikeCheck, QuotaTypeOK
  <2>2. CASE Proceed(p, "like.bump", quota)
    BY <1>3, <1>4, <2>2 DEF LikeCheck, QuotaTypeOK, Reaches
  <2> QED
    BY <1>4, <2>1, <2>2 DEF LikeCheck
<1>5. ASSUME NEW p \in Callers, LikeBump(p)
      PROVE  QuotaTypeOK' /\ DeckBelow'
  <2>1. service[p].at # "idle"
    BY <1>5 DEF LikeBump, Reaches
  <2> PICK now \in Seconds : now = service[p].now
    BY <2>1, CallColumns
  <2> PICK old \in 0..LastSecond + Day : old = service[p].read.reset
    BY <2>1, CallColumns DEF Rows
  <2>2. quota' \in Rows
    <3> PICK next : next = IF now >= old THEN now + Day ELSE old
      OBVIOUS
    <3>1. next \in 0..LastSecond + Day
      BY DEF Seconds
    <3>2. quota' = [served |-> quota.served,
                    likes |-> IF quota.reset < now THEN 1 ELSE quota.likes + 1,
                    reset |-> IF quota.reset < now THEN next ELSE quota.reset]
      BY <1>5 DEF LikeBump
    <3>3. /\ quota.served \in 0..MaxServed - 1 + Batch
          /\ quota.likes \in Nat /\ quota.likes + 1 \in Nat
          /\ quota.reset \in 0..LastSecond + Day
      BY RowColumns DEF QuotaTypeOK
    <3> QED
      BY <3>1, <3>2, <3>3 DEF Rows
  <2>3. sentAt' = [sentAt EXCEPT ![now] = @ + 1]
    BY <1>5 DEF LikeBump
  <2>4. sentAt' \in [Seconds -> Nat]
    BY <2>3 DEF QuotaTypeOK
  <2> QED
    BY <1>2, <1>5, <2>2, <2>4 DEF LikeBump, QuotaTypeOK
<1>6. ASSUME NEW p \in Callers, DeckRead(p)
      PROVE  QuotaTypeOK' /\ DeckBelow'
  <2>1. service[p].at # "idle"
    BY <1>6 DEF DeckRead, Reaches
  <2> PICK now \in Seconds : now = service[p].now
    BY <2>1, CallColumns
  <2>2. CASE Done(p)
    BY <1>2, <1>6, <2>2 DEF DeckRead, QuotaTypeOK
  <2>3. ASSUME RolledOver(now, quota), Proceed(p, "discover.write", [served |-> 0, likes |-> quota.likes, reset |-> now + Day])
        PROVE  QuotaTypeOK' /\ DeckBelow'
    <3> PICK r : r = [served |-> 0, likes |-> quota.likes, reset |-> now + Day]
      OBVIOUS
    <3>1. quota.likes \in Nat
      BY RowColumns DEF QuotaTypeOK
    <3>2. now + Day \in 0..LastSecond + Day /\ 0 \in 0..MaxServed - 1 + Batch
      BY DEF Seconds
    <3>3. r \in Rows /\ r.served < MaxServed
      BY <3>1, <3>2 DEF Rows
    <3> QED
      BY <1>3, <1>6, <2>1, <2>3, <3>3 DEF DeckRead
  <2>4. ASSUME ~RolledOver(now, quota), ~DeckSpent(now, quota), Proceed(p, "discover.write", quota)
        PROVE  QuotaTypeOK' /\ DeckBelow'
    <3>1. quota \in Rows /\ quota.served < MaxServed
      BY <2>4 DEF Rows, QuotaTypeOK, DeckSpent
    <3> QED
      BY <1>3, <1>6, <2>1, <2>4, <3>1 DEF DeckRead
  <2> QED
    BY <1>6, <2>2, <2>3, <2>4 DEF DeckRead
<1>7. ASSUME NEW p \in Callers, DeckWrite(p)
      PROVE  QuotaTypeOK' /\ DeckBelow'
  <2>1. service[p].at # "idle" /\ service[p].read.served < MaxServed
    BY <1>7 DEF DeckWrite, Reaches, DeckBelow
  <2> PICK r \in Rows : r = service[p].read
    BY <2>1, CallColumns
  <2> PICK now \in Seconds : now = service[p].now
    BY <2>1, CallColumns
  <2> PICK n \in 0..Batch : /\ quota' = [served |-> r.served + n, likes |-> quota.likes, reset |-> r.reset]
                            /\ dealtAt' = [dealtAt EXCEPT ![now] = @ + n]
    BY <1>7 DEF DeckWrite
  <2>2. quota' \in Rows
    <3>1. quota.likes \in Nat /\ r.reset \in 0..LastSecond + Day
      BY RowColumns DEF QuotaTypeOK
    <3>2. r.served \in Nat /\ n \in 0..Batch
      BY RowColumns
    <3>3. r.served + n \in 0..MaxServed - 1 + Batch
      BY <2>1, <3>2
    <3> QED
      BY <3>1, <3>3 DEF Rows
  <2>4. dealtAt' \in [Seconds -> Nat]
    BY DEF QuotaTypeOK
  <2>3. putBack' \in BOOLEAN
    BY <1>7, Zenon DEF DeckWrite
  <2> QED
    BY <1>2, <1>7, <2>2, <2>3, <2>4 DEF DeckWrite, QuotaTypeOK
<1>8. ASSUME NEW p \in Callers, GiveUp(p)
      PROVE  QuotaTypeOK' /\ DeckBelow'
  BY <1>2, <1>8 DEF GiveUp, QuotaTypeOK
<1>9. CASE ResetDailyQuotas
  <2>1. quota' \in Rows
    BY <1>9 DEF ResetDailyQuotas, Rows, QuotaTypeOK, Seconds
  <2> QED
    BY <1>9, <2>1 DEF ResetDailyQuotas, QuotaTypeOK, DeckBelow, Reaches
<1>10. CASE NextSecond \/ UNCHANGED quotaVars
  BY <1>10 DEF NextSecond, quotaVars, QuotaTypeOK, DeckBelow, Reaches, Seconds
<1> QED
  BY <1>1, <1>4, <1>5, <1>6, <1>7, <1>8, <1>9, <1>10 DEF QuotaNext

LEMMA QuotaTypeInitially == QuotaInit => QuotaTypeOK /\ DeckBelow
<1> SUFFICES ASSUME QuotaInit PROVE QuotaTypeOK /\ DeckBelow
  OBVIOUS
<1>1. NoRow \in Rows
  BY QuotaLimits DEF NoRow, Rows
<1>2. service \in [Callers -> ServiceStates] /\ \A p \in Callers : service[p].at = "idle"
  BY DEF QuotaInit, ServiceStates, AtRest
<1>3. putBack \in BOOLEAN
  BY Zenon DEF QuotaInit
<1> QED
  BY <1>1, <1>2, <1>3, QuotaLimits DEF QuotaInit, QuotaTypeOK, DeckBelow, Reaches, Seconds

(* The types of the row, of the requests in flight and of the histories:   *)
(* the count of candidates stays below the limit plus a deck.              *)
THEOREM QuotaTypeCorrect == QuotaSpec => []QuotaTypeOK
<1>1. QuotaSpec => [](QuotaTypeOK /\ DeckBelow)
  BY QuotaTypeInitially, QuotaTypeInductive, PTL DEF QuotaSpec
<1> QED
  BY <1>1, PTL

-----------------------------------------------------------------------------
(* Quota: the like limit *)

\* The likes past the check that count in the window that ends at r.
Bumps(r) == {p \in Callers : Reaches(p, "like.bump") /\ service[p].now < r}

\* A request spans no more than it may, and nothing is counted ahead of time.
Timely ==
    /\ \A p \in Callers : service[p].at # "idle" =>
          service[p].now <= second /\ second <= service[p].now + ServiceSpan
    /\ \A t \in Seconds : sentAt[t] > 0 \/ dealtAt[t] > 0 => t <= second

\* No like is counted past the end of the window ...
SentBefore == \A t \in Seconds : sentAt[t] > 0 => t <= quota.reset
\* ... which does not move back behind what a like has read, ...
BumpReadsPast == \A p \in Callers : Reaches(p, "like.bump") => service[p].read.reset <= quota.reset
\* ... and which a deck that rolls over finds closed, or just opened by another.
DeckOpens ==
    \A p \in Callers : Reaches(p, "discover.write") =>
        \/ service[p].read.reset <= quota.reset
        \/ /\ service[p].read.reset = service[p].now + Day
           /\ \/ quota.reset < service[p].now
              \/ quota.reset >= service[p].now + Day - ServiceSpan
\* The column counts every like of the window, its last second included; ...
LikesCover == Count(sentAt, quota.reset - Day, quota.reset) <= quota.likes
\* ... a like past the check is one of the likes that are still to come.
LikesToCome ==
    Count(sentAt, quota.reset - Day, quota.reset - 1) + Cardinality(Bumps(quota.reset))
        <= MaxLikes - 1 + Cardinality(Callers)

Forward == SentBefore /\ BumpReadsPast /\ DeckOpens /\ LikesCover /\ LikesToCome

LEMMA CallersFinite ==
    ASSUME NEW S, S \subseteq Callers
    PROVE  /\ IsFiniteSet(S) /\ Cardinality(S) \in Nat /\ Cardinality(Callers) \in Nat
           /\ Cardinality(S) <= Cardinality(Callers)
           /\ \A p \in S : /\ Cardinality(S \ {p}) = Cardinality(S) - 1
                           /\ IsFiniteSet(S \ {p})
<1>1. IsFiniteSet(Callers)
  BY QuotaOps
<1>2. IsFiniteSet(S) /\ Cardinality(S) <= Cardinality(Callers)
  BY <1>1, FS_Subset
<1> QED
  BY <1>1, <1>2, FS_CardinalityType, FS_RemoveElement

(* How every step moves the clock and the requests. *)
LEMMA TimelyInductive ==
    ASSUME QuotaTypeOK, Timely, [QuotaNext]_quotaVars
    PROVE  Timely'
<1> USE QuotaLimits
<1>0. second \in Nat /\ (\A t \in Seconds : t \in Nat) /\ ServiceSpan \in Nat
  BY DEF QuotaTypeOK, Seconds
<1>1. ASSUME NEW p \in Callers, NEW op \in Services, Serve(p, op)
      PROVE  Timely'
  <2>1. service' = [service EXCEPT ![p] = [at |-> op, now |-> second, read |-> NoRow]]
    BY <1>1 DEF Serve
  <2> QED
    BY <1>0, <1>1, <2>1 DEF Serve, Timely, QuotaTypeOK
<1>2. ASSUME NEW p \in Callers, Done(p), UNCHANGED second,
             \A t \in Seconds : sentAt'[t] > 0 \/ dealtAt'[t] > 0 => t <= second
      PROVE  Timely'
  BY <1>2 DEF Done, Timely, QuotaTypeOK, AtRest
<1>3. ASSUME NEW p \in Callers, service[p].at # "idle", NEW step, NEW r, Proceed(p, step, r),
             UNCHANGED <<second, sentAt, dealtAt>>
      PROVE  Timely'
  BY <1>3 DEF Proceed, Timely, QuotaTypeOK
<1>4. ASSUME NEW p \in Callers, LikeCheck(p) \/ DeckRead(p) \/ GiveUp(p)
      PROVE  Timely'
  <2>1. service[p].at # "idle"
    BY <1>4 DEF LikeCheck, DeckRead, GiveUp, Reaches
  <2>2. CASE Done(p)
    BY <1>2, <1>4, <2>2 DEF LikeCheck, DeckRead, GiveUp, Timely
  <2>3. CASE \E step, r : Proceed(p, step, r)
    BY <1>3, <1>4, <2>1, <2>3 DEF LikeCheck, DeckRead, GiveUp
  <2> QED
    BY <1>4, <2>2, <2>3 DEF LikeCheck, DeckRead, GiveUp
<1>5. ASSUME NEW p \in Callers, LikeBump(p)
      PROVE  Timely'
  <2>1. service[p].at # "idle"
    BY <1>5 DEF LikeBump, Reaches
  <2> PICK now \in Seconds : now = service[p].now
    BY <2>1, CallColumns
  <2>2. sentAt' = [sentAt EXCEPT ![now] = @ + 1] /\ dealtAt' = dealtAt
    BY <1>5 DEF LikeBump
  <2>3. \A t \in Seconds : sentAt'[t] > 0 \/ dealtAt'[t] > 0 => t <= second
    BY <2>1, <2>2 DEF Timely, QuotaTypeOK
  <2> QED
    BY <1>2, <1>5, <2>3 DEF LikeBump
<1>6. ASSUME NEW p \in Callers, DeckWrite(p)
      PROVE  Timely'
  <2>1. service[p].at # "idle"
    BY <1>6 DEF DeckWrite, Reaches
  <2> PICK now \in Seconds : now = service[p].now
    BY <2>1, CallColumns
  <2>2. sentAt' = sentAt /\ \E n \in 0..Batch : dealtAt' = [dealtAt EXCEPT ![now] = @ + n]
    BY <1>6 DEF DeckWrite
  <2>3. \A t \in Seconds : sentAt'[t] > 0 \/ dealtAt'[t] > 0 => t <= second
    BY <2>1, <2>2 DEF Timely, QuotaTypeOK
  <2> QED
    BY <1>2, <1>6, <2>3 DEF DeckWrite
<1>7. CASE NextSecond
  <2>1. ASSUME NEW p \in Callers, service[p].at # "idle"
        PROVE  service[p].now <= second + 1 /\ second + 1 <= service[p].now + ServiceSpan
    <3>1. service[p] # AtRest
      BY <2>1 DEF AtRest
    <3>3. service[p].now \in Nat
      BY <2>1, CallColumns
    <3>2. second < service[p].now + ServiceSpan /\ service[p].now <= second
      BY <1>7, <2>1, <3>1 DEF NextSecond, Timely
    <3> QED
      BY <1>0, <3>3, <3>2
  <2>2. \A t \in Seconds : sentAt[t] > 0 \/ dealtAt[t] > 0 => t <= second + 1
    BY <1>0 DEF Timely
  <2>3. second' = second + 1 /\ service' = service /\ sentAt' = sentAt /\ dealtAt' = dealtAt
    BY <1>7 DEF NextSecond
  <2> QED
    BY <2>1, <2>2, <2>3 DEF Timely
<1>8. CASE ResetDailyQuotas \/ UNCHANGED quotaVars
  BY <1>8 DEF ResetDailyQuotas, quotaVars, Timely
<1> QED
  BY <1>1, <1>4, <1>5, <1>6, <1>7, <1>8 DEF QuotaNext

(* A like that is counted in an open window, or opens the next one. *)
LEMMA BumpForward ==
    ASSUME QuotaTypeOK, Timely, Forward, NEW p \in Callers, LikeBump(p)
    PROVE  Forward'
<1> USE QuotaLimits
<1> PICK reset \in Nat : reset = quota.reset
  BY RowColumns DEF QuotaTypeOK
<1>0. reset \in Int /\ reset \in Nat /\ Day \in Nat /\ ServiceSpan \in Nat /\ quota.likes \in Nat /\ second \in Nat
  BY RowColumns DEF QuotaTypeOK, Seconds
<1>1. Reaches(p, "like.bump") /\ service[p].at # "idle"
  BY DEF LikeBump, Reaches
<1> PICK now \in Seconds : now = service[p].now
  BY <1>1, CallColumns
<1> PICK old \in Nat : old = service[p].read.reset
  BY <1>1, CallColumns, RowColumns
<1>2. now \in Nat /\ now <= second /\ second <= now + ServiceSpan /\ old <= reset
  BY <1>1 DEF Timely, Forward, BumpReadsPast, Seconds
<1> PICK sent \in [Seconds -> Nat] : sent = sentAt
  BY DEF QuotaTypeOK
<1> PICK more : more = [sent EXCEPT ![now] = @ + 1]
  OBVIOUS
<1>3. /\ sentAt' = more
      /\ quota'.likes = IF reset < now THEN 1 ELSE quota.likes + 1
      /\ quota'.reset = IF reset < now THEN now + Day ELSE reset
  BY <1>0, <1>2 DEF LikeBump
<1>4. \A t \in Seconds : t \in Nat /\ sent[t] \in Nat /\ (more[t] > 0 => t = now \/ sent[t] > 0)
  <2>1. \A t \in Seconds : t \in Nat /\ sent[t] \in Nat
    BY DEF Seconds
  <2>2. \A t \in Seconds : t # now => more[t] = sent[t]
    OBVIOUS
  <2> QED
    BY <2>1, <2>2
<1>5. more \in [Seconds -> Nat]
  OBVIOUS
<1>6. \A t \in Seconds : sent[t] > 0 => t <= reset
  BY DEF Forward, SentBefore
<1>7. /\ service' = [service EXCEPT ![p] = AtRest]
      /\ ~Reaches(p, "like.bump")' /\ ~Reaches(p, "discover.write")'
      /\ \A q \in Callers : q # p => service'[q] = service[q]
  BY DEF LikeBump, Done, Reaches, QuotaTypeOK, AtRest
<1>8. CASE reset < now
  <2> PICK end : end = now + Day
    OBVIOUS
  <2>1. end \in Nat /\ end > reset /\ end >= now /\ end - Day = now /\ quota'.reset = end /\ quota'.likes = 1
    BY <1>0, <1>2, <1>3, <1>8
  <2>2. SentBefore'
    <3>1. \A t \in Seconds : more[t] > 0 => t <= end
      BY <1>4, <1>6, <1>0, <1>2, <1>8, <2>1
    <3> QED
      BY <1>3, <2>1, <3>1 DEF SentBefore
  <2>3. ASSUME NEW q \in Callers, Reaches(q, "like.bump")'
        PROVE  service'[q].read.reset <= end
    <3>1. q # p /\ service'[q] = service[q] /\ Reaches(q, "like.bump")
      BY <1>7, <2>3 DEF Reaches
    <3>2. service[q].read.reset \in Nat /\ service[q].read.reset <= reset
      BY <3>1, CallColumns, RowColumns DEF Forward, BumpReadsPast, Reaches
    <3> QED
      BY <1>0, <2>1, <3>1, <3>2
  <2>4. BumpReadsPast'
    BY <2>1, <2>3 DEF BumpReadsPast
  <2>5. ASSUME NEW q \in Callers, Reaches(q, "discover.write")'
        PROVE  \/ service'[q].read.reset <= end
               \/ (service'[q].read.reset = service'[q].now + Day /\ end >= service'[q].now + Day - ServiceSpan)
    <3>1. q # p /\ service'[q] = service[q] /\ service[q].at # "idle" /\ Reaches(q, "discover.write")
      BY <1>7, <2>5 DEF Reaches
    <3> PICK mine \in Nat : mine = service[q].now
      BY <3>1, CallColumns
    <3> PICK e \in Nat : e = service[q].read.reset
      BY <3>1, CallColumns, RowColumns
    <3>2. mine <= second /\ (e <= reset \/ e = mine + Day)
      BY <3>1 DEF Timely, Forward, DeckOpens
    <3>3. e <= end \/ (e = mine + Day /\ end >= mine + Day - ServiceSpan)
      BY <1>0, <1>2, <2>1, <3>2
    <3> QED
      BY <3>1, <3>3
  <2>6. DeckOpens'
    BY <2>1, <2>5 DEF DeckOpens
  <2>7. Count(sent, now, end) = 0 /\ Count(sent, now, end - 1) = 0
    BY <1>6, <1>8, <1>4, <1>0, <1>2, <2>1, CountNone
  <2>8. Count(more, now, end) <= 1 /\ Count(more, now, end - 1) <= 1
    <3>1. now \in Int /\ end \in Int /\ end - 1 \in Int /\ 1 \in Nat
      BY <1>2, <2>1
    <3>2. Count(more, now, end) <= Count(sent, now, end) + 1
      BY <3>1, CountMore
    <3>3. Count(more, now, end - 1) <= Count(sent, now, end - 1) + 1
      BY <3>1, CountMore
    <3> QED
      BY <2>7, <3>2, <3>3
  <2>9. LikesCover'
    BY <1>3, <2>1, <2>8 DEF LikesCover
  <2>10. LikesToCome'
    <3> PICK B : B = Bumps(quota.reset)'
      OBVIOUS
    <3>1. B \subseteq Callers \ {p}
      BY <1>7 DEF Bumps
    <3>2. /\ Cardinality(B) \in Nat /\ Cardinality(B) <= Cardinality(Callers \ {p})
          /\ Cardinality(Callers \ {p}) = Cardinality(Callers) - 1 /\ Cardinality(Callers) \in Nat
      BY <3>1, CallersFinite, FS_Subset
    <3>5. now \in Int /\ end - 1 \in Int
      BY <1>2, <2>1
    <3>3. Count(more, now, end - 1) \in Nat
      BY <1>5, <3>5, UnitsAreFinite
    <3>4. Count(more, now, end - 1) + Cardinality(B) <= MaxLikes - 1 + Cardinality(Callers)
      BY <2>8, <3>2, <3>3
    <3> QED
      BY <1>3, <2>1, <3>4 DEF LikesToCome
  <2> QED
    BY <2>2, <2>4, <2>6, <2>9, <2>10 DEF Forward
<1>9. CASE now <= reset
  <2>1. quota'.reset = reset /\ quota'.likes = quota.likes + 1
    BY <1>0, <1>2, <1>3, <1>9
  <2>2. SentBefore'
    <3>1. \A t \in Seconds : more[t] > 0 => t <= reset
      BY <1>4, <1>6, <1>9
    <3> QED
      BY <1>3, <2>1, <3>1 DEF SentBefore
  <2>3. BumpReadsPast'
    BY <1>7, <2>1 DEF BumpReadsPast, Forward, Reaches
  <2>4. DeckOpens'
    BY <1>7, <2>1 DEF DeckOpens, Forward, Reaches
  <2> PICK from \in Int : from = reset - Day
    BY <1>0
  <2>5. Count(more, from, reset) <= Count(sent, from, reset) + 1
    BY <1>0, CountMore
  <2>6. LikesCover'
    <3>1. Count(sent, from, reset) \in Nat /\ Count(more, from, reset) \in Nat
      BY <1>0, <1>5, UnitsAreFinite
    <3>2. Count(sent, from, reset) <= quota.likes
      BY DEF Forward, LikesCover
    <3>3. Count(more, from, reset) <= quota.likes + 1
      BY <1>0, <2>5, <3>1, <3>2
    <3> QED
      BY <1>3, <2>1, <3>3 DEF LikesCover
  <2>7. LikesToCome'
    <3> PICK last \in Int : last = reset - 1
      BY <1>0
    <3> PICK B : B = Bumps(quota.reset)
      OBVIOUS
    <3> PICK C : C = Bumps(quota.reset)'
      OBVIOUS
    <3>1. B \subseteq Callers /\ C \subseteq B \ {p}
      BY <1>7, <2>1 DEF Bumps, Reaches
    <3>2. /\ IsFiniteSet(B) /\ Cardinality(B) \in Nat /\ Cardinality(C) \in Nat /\ Cardinality(C) <= Cardinality(B)
          /\ Cardinality(Callers) \in Nat
      BY <3>1, CallersFinite, FS_Subset
    <3>3. Count(sent, from, last) \in Nat /\ Count(more, from, last) \in Nat
      BY <1>5, UnitsAreFinite
    <3>4. Count(sent, from, last) + Cardinality(B) <= MaxLikes - 1 + Cardinality(Callers)
      BY DEF Forward, LikesToCome
    <3>5. CASE now < reset
      <4>1. p \in B
        BY <1>1, <3>5 DEF Bumps
      <4>2. Cardinality(C) <= Cardinality(B) - 1
        <5>1. IsFiniteSet(B \ {p}) /\ Cardinality(B \ {p}) = Cardinality(B) - 1
          BY <3>1, <4>1, CallersFinite
        <5> QED
          BY <3>1, <5>1, FS_Subset
      <4>3. Count(more, from, last) <= Count(sent, from, last) + 1
        BY CountMore
      <4>4. Count(more, from, last) + Cardinality(C) <= MaxLikes - 1 + Cardinality(Callers)
        BY <3>2, <3>3, <3>4, <4>2, <4>3
      <4> QED
        BY <1>3, <2>1, <4>4 DEF LikesToCome
    <3>6. CASE now = reset
      <4>1. \A t \in Seconds : from <= t /\ t <= last => more[t] = sent[t]
        BY <1>0, <1>4, <3>6
      <4>2. Count(more, from, last) = Count(sent, from, last)
        <5>1. Units(more, from, last) = Units(sent, from, last)
          <6> DEFINE W == {u \in Seconds : from <= u /\ u <= last}
          <6> HIDE DEF W
          <6>1. \A t \in W : more[t] = sent[t]
            BY <4>1 DEF W
          <6>2. {{t} \X (1..more[t]) : t \in W} = {{t} \X (1..sent[t]) : t \in W}
            BY <6>1
          <6> QED
            BY <6>2 DEF W, Units
        <5> QED
          BY <5>1 DEF Count
      <4>4. Count(more, from, last) + Cardinality(C) <= MaxLikes - 1 + Cardinality(Callers)
        BY <3>2, <3>3, <3>4, <4>2
      <4> QED
        BY <1>3, <2>1, <4>4 DEF LikesToCome
    <3> QED
      BY <1>0, <1>2, <1>9, <3>5, <3>6
  <2> QED
    BY <2>2, <2>3, <2>4, <2>6, <2>7 DEF Forward
<1> QED
  BY <1>0, <1>2, <1>8, <1>9

(* A deck that sets the end of the window to what it read, or opened. *)
LEMMA DeckForward ==
    ASSUME QuotaTypeOK, Timely, Forward, NEW p \in Callers, DeckWrite(p), ~putBack'
    PROVE  Forward'
<1> USE QuotaLimits
<1> PICK reset \in Nat : reset = quota.reset
  BY RowColumns DEF QuotaTypeOK
<1>0. reset \in Int /\ Day \in Nat /\ ServiceSpan \in Nat /\ quota.likes \in Nat /\ second \in Nat
  BY RowColumns DEF QuotaTypeOK, Seconds
<1>1. Reaches(p, "discover.write") /\ service[p].at # "idle"
  BY DEF DeckWrite, Reaches
<1> PICK now \in Seconds : now = service[p].now
  BY <1>1, CallColumns
<1> PICK end \in Nat : end = service[p].read.reset
  BY <1>1, CallColumns, RowColumns
<1>2. now \in Nat /\ now <= second /\ second <= now + ServiceSpan
  BY <1>1 DEF Timely, Seconds
<1>3. quota'.reset = end /\ quota'.likes = quota.likes /\ sentAt' = sentAt
  BY DEF DeckWrite
<1>4. end >= reset
  <2>1. putBack' = (putBack \/ end < reset)
    BY DEF DeckWrite
  <2>2. ~(end < reset)
    BY <2>1, Zenon
  <2> QED
    BY <2>2
<1>5. end = reset \/ (end = now + Day /\ (reset < now \/ reset >= now + Day - ServiceSpan))
  <2>1. \/ service[p].read.reset <= quota.reset
        \/ /\ service[p].read.reset = service[p].now + Day
           /\ quota.reset < service[p].now \/ quota.reset >= service[p].now + Day - ServiceSpan
    BY <1>1 DEF Forward, DeckOpens
  <2> QED
    BY <1>4, <2>1
<1> PICK sent \in [Seconds -> Nat] : sent = sentAt
  BY DEF QuotaTypeOK
<1>6. \A t \in Seconds : t \in Nat /\ (sent[t] > 0 => t <= reset /\ t <= second)
  BY DEF Forward, SentBefore, Timely, Seconds
<1>7. /\ service' = [service EXCEPT ![p] = AtRest]
      /\ \A q \in Callers : Reaches(q, "like.bump")' \/ Reaches(q, "discover.write")' =>
            q # p /\ service'[q] = service[q]
  BY DEF DeckWrite, Done, Reaches, QuotaTypeOK, AtRest
<1>8. \A q \in Callers : service[q].at # "idle" =>
        service[q].read.reset \in Nat /\ service[q].now \in Nat /\ service[q].now <= second
  BY CallColumns, RowColumns DEF Timely
<1>9. SentBefore'
  BY <1>3, <1>4, <1>6 DEF SentBefore
<1>10. BumpReadsPast'
  <2> SUFFICES ASSUME NEW q \in Callers, Reaches(q, "like.bump")'
               PROVE  service'[q].read.reset <= end
    BY <1>3 DEF BumpReadsPast
  <2>1. service'[q] = service[q] /\ Reaches(q, "like.bump") /\ service[q].at # "idle"
    BY <1>7 DEF Reaches
  <2>2. service[q].read.reset <= reset
    BY <2>1 DEF Forward, BumpReadsPast
  <2> QED
    BY <1>4, <1>8, <2>1, <2>2
<1>11. DeckOpens'
  <2> SUFFICES ASSUME NEW q \in Callers, Reaches(q, "discover.write")'
               PROVE  \/ service'[q].read.reset <= end
                      \/ /\ service'[q].read.reset = service'[q].now + Day
                         /\ end < service'[q].now \/ end >= service'[q].now + Day - ServiceSpan
    BY <1>3 DEF DeckOpens
  <2>1. service'[q] = service[q] /\ Reaches(q, "discover.write") /\ service[q].at # "idle"
    BY <1>7 DEF Reaches
  <2> PICK mine \in Nat : mine = service[q].now
    BY <1>8, <2>1
  <2> PICK e \in Nat : e = service[q].read.reset
    BY <1>8, <2>1
  <2>2. mine <= second /\ (e <= reset \/ (e = mine + Day /\ (reset < mine \/ reset >= mine + Day - ServiceSpan)))
    <3>1. \/ service[q].read.reset <= quota.reset
          \/ /\ service[q].read.reset = service[q].now + Day
             /\ quota.reset < service[q].now \/ quota.reset >= service[q].now + Day - ServiceSpan
      BY <2>1 DEF Forward, DeckOpens
    <3> QED
      BY <1>8, <2>1, <3>1
  <2>3. e <= end \/ (e = mine + Day /\ (end < mine \/ end >= mine + Day - ServiceSpan))
    BY <1>0, <1>2, <1>4, <1>5, <2>2
  <2> QED
    BY <2>1, <2>3
<1> PICK from \in Int : from = reset - Day
  BY <1>0
<1> PICK opens \in Int : opens = end - Day
  BY <1>0
<1>12. \A t \in Seconds : sent[t] > 0 /\ opens <= t /\ t <= end => from <= t /\ t <= reset
  BY <1>0, <1>4, <1>6
<1>13. \A t \in Seconds : sent[t] > 0 /\ opens <= t /\ t <= end - 1 => from <= t /\ t <= reset - 1
  BY <1>0, <1>2, <1>4, <1>5, <1>6
<1>14. LikesCover'
  <2>1. Count(sent, opens, end) <= Count(sent, from, reset)
    <3>1. end \in Int
      OBVIOUS
    <3> QED
      BY <1>0, <1>12, <3>1, CountWithin
  <2>2. Count(sent, opens, end) \in Nat /\ Count(sent, from, reset) \in Nat
    <3>1. end \in Int
      OBVIOUS
    <3> QED
      BY <1>0, <3>1, UnitsAreFinite
  <2>3. Count(sent, from, reset) <= quota.likes
    BY DEF Forward, LikesCover
  <2>4. Count(sent, opens, end) <= quota.likes
    BY <1>0, <2>1, <2>2, <2>3
  <2> QED
    BY <1>3, <2>4 DEF LikesCover
<1>15. LikesToCome'
  <2> PICK last \in Int : last = reset - 1
    BY <1>0
  <2> PICK closes \in Int : closes = end - 1
    OBVIOUS
  <2>1. Count(sent, opens, closes) <= Count(sent, from, last)
    BY <1>13, CountWithin
  <2>2. Count(sent, opens, closes) \in Nat /\ Count(sent, from, last) \in Nat
    BY UnitsAreFinite
  <2> PICK B : B = Bumps(quota.reset)
    OBVIOUS
  <2> PICK C : C = Bumps(quota.reset)'
    OBVIOUS
  <2>3. B \subseteq Callers /\ C \subseteq Callers
    BY DEF Bumps
  <2>4. /\ IsFiniteSet(B) /\ Cardinality(B) \in Nat /\ Cardinality(C) \in Nat
        /\ Cardinality(C) <= Cardinality(Callers) /\ Cardinality(Callers) \in Nat
    BY <2>3, CallersFinite
  <2>5. Count(sent, from, last) + Cardinality(B) <= MaxLikes - 1 + Cardinality(Callers)
    BY DEF Forward, LikesToCome
  <2>6. CASE reset < now /\ end = now + Day
    <3>1. \A t \in Seconds : sent[t] > 0 => ~(opens <= t /\ t <= closes)
      BY <1>0, <1>2, <1>6, <2>6
    <3>2. Count(sent, opens, closes) = 0
      BY <3>1, CountNone
    <3>3. Count(sent, opens, closes) + Cardinality(C) <= MaxLikes - 1 + Cardinality(Callers)
      BY <2>4, <3>2
    <3> QED
      BY <1>3, <3>3 DEF LikesToCome
  <2>7. CASE end = reset \/ reset >= now + Day - ServiceSpan
    <3>1. ASSUME NEW q \in Callers, service[q].at # "idle", service[q].now < end
          PROVE  service[q].now < reset
      BY <1>0, <1>2, <1>8, <2>7, <3>1
    <3>2. C \subseteq B
      BY <1>3, <1>7, <3>1 DEF Bumps, Reaches
    <3>3. Cardinality(C) <= Cardinality(B)
      BY <2>4, <3>2, FS_Subset
    <3>4. Count(sent, opens, closes) + Cardinality(C) <= MaxLikes - 1 + Cardinality(Callers)
      BY <2>1, <2>2, <2>4, <2>5, <3>3
    <3> QED
      BY <1>3, <3>4 DEF LikesToCome
  <2> QED
    BY <1>5, <2>6, <2>7
<1> QED
  BY <1>9, <1>10, <1>11, <1>14, <1>15 DEF Forward

(* The housekeeper closes a window no like can be counted in any more. *)
LEMMA ResetForward ==
    ASSUME QuotaTypeOK, Timely, Forward, ResetDailyQuotas
    PROVE  Forward'
<1> USE QuotaLimits
<1> PICK reset \in Nat : reset = quota.reset
  BY RowColumns DEF QuotaTypeOK
<1>0. Day \in Nat /\ ServiceSpan \in Nat /\ second \in Nat /\ reset < second
  BY DEF QuotaTypeOK, Seconds, ResetDailyQuotas
<1> PICK end \in Nat : end = second + Day
  BY <1>0
<1>1. /\ quota'.reset = end /\ quota'.likes = 0 /\ sentAt' = sentAt /\ service' = service
      /\ end - Day = second /\ second \in Int /\ end \in Int /\ end - 1 \in Int
  BY <1>0 DEF ResetDailyQuotas
<1> PICK sent \in [Seconds -> Nat] : sent = sentAt
  BY DEF QuotaTypeOK
<1>2. \A t \in Seconds : t \in Nat /\ (sent[t] > 0 => t <= reset)
  BY DEF Forward, SentBefore, Seconds
<1>3. SentBefore'
  BY <1>0, <1>1, <1>2 DEF SentBefore
<1>4. \A q \in Callers : service[q].at # "idle" =>
        service[q].read.reset \in Nat /\ service[q].now \in Nat /\ service[q].now <= second
  BY CallColumns, RowColumns DEF Timely
<1>5. BumpReadsPast'
  <2> SUFFICES ASSUME NEW q \in Callers, Reaches(q, "like.bump")
               PROVE  service[q].read.reset <= end
    BY <1>1 DEF BumpReadsPast, Reaches
  <2>1. service[q].read.reset \in Nat /\ service[q].read.reset <= reset
    BY <1>4 DEF Forward, BumpReadsPast, Reaches
  <2> QED
    BY <1>0, <2>1
<1>6. DeckOpens'
  <2> SUFFICES ASSUME NEW q \in Callers, Reaches(q, "discover.write")
               PROVE  \/ service[q].read.reset <= end
                      \/ (service[q].read.reset = service[q].now + Day /\ end >= service[q].now + Day - ServiceSpan)
    BY <1>1 DEF DeckOpens, Reaches
  <2> PICK mine \in Nat : mine = service[q].now
    BY <1>4 DEF Reaches
  <2> PICK e \in Nat : e = service[q].read.reset
    BY <1>4 DEF Reaches
  <2>1. mine <= second /\ (e <= reset \/ e = mine + Day)
    BY <1>4 DEF Forward, DeckOpens, Reaches
  <2> QED
    BY <1>0, <2>1
<1>7. Count(sent, second, end) = 0 /\ Count(sent, second, end - 1) = 0
  BY <1>0, <1>1, <1>2, CountNone
<1>8. LikesCover'
  BY <1>1, <1>7 DEF LikesCover
<1>9. LikesToCome'
  <2> PICK C : C = Bumps(quota.reset)'
    OBVIOUS
  <2>1. C \subseteq Callers
    BY DEF Bumps
  <2>2. Cardinality(C) \in Nat /\ Cardinality(C) <= Cardinality(Callers) /\ Cardinality(Callers) \in Nat
    BY <2>1, CallersFinite
  <2>3. Count(sent, second, end - 1) + Cardinality(C) <= MaxLikes - 1 + Cardinality(Callers)
    BY <1>7, <2>2
  <2> QED
    BY <1>1, <2>3 DEF LikesToCome
<1> QED
  BY <1>3, <1>5, <1>6, <1>8, <1>9 DEF Forward

(* Steps that leave the row and the likes alone: a like passes the check   *)
(* only with a like to spare, a deck rolls over only a window that is over.*)
LEMMA ReadForward ==
    ASSUME QuotaTypeOK, Timely, Forward, UNCHANGED <<quota, sentAt>>, NEW p \in Callers, NEW new,
           service' = [service EXCEPT ![p] = new],
           new.at = "like.bump" => new.read = quota /\ ~LikeSpent(new.now, quota) /\ new.now \in Nat,
           new.at = "discover.write" =>
               \/ new.read = quota
               \/ (new.read.reset = new.now + Day /\ quota.reset < new.now)
    PROVE  Forward'
<1> USE QuotaLimits
<1> PICK reset \in Nat : reset = quota.reset
  BY RowColumns DEF QuotaTypeOK
<1>0. reset \in Int /\ Day \in Nat /\ ServiceSpan \in Nat /\ quota.likes \in Nat
  BY RowColumns DEF QuotaTypeOK
<1>1. quota' = quota /\ sentAt' = sentAt /\ quota'.reset = reset
  OBVIOUS
<1>2. service'[p] = new /\ \A q \in Callers : q # p => service'[q] = service[q]
  BY DEF QuotaTypeOK
<1>3. SentBefore' /\ LikesCover'
  BY <1>1 DEF Forward, SentBefore, LikesCover
<1>4. BumpReadsPast'
  BY <1>0, <1>1, <1>2 DEF Forward, BumpReadsPast, Reaches
<1>5. DeckOpens'
  BY <1>0, <1>1, <1>2 DEF Forward, DeckOpens, Reaches
<1>6. LikesToCome'
  <2> PICK B : B = Bumps(quota.reset)
    OBVIOUS
  <2> PICK C : C = Bumps(quota.reset)'
    OBVIOUS
  <2> PICK sent \in [Seconds -> Nat] : sent = sentAt
    BY DEF QuotaTypeOK
  <2> PICK from \in Int : from = reset - Day
    BY <1>0
  <2> PICK last \in Int : last = reset - 1
    BY <1>0
  <2>1. B \subseteq Callers /\ C \subseteq Callers
    BY DEF Bumps
  <2>2. /\ IsFiniteSet(B) /\ Cardinality(B) \in Nat /\ Cardinality(C) \in Nat
        /\ Cardinality(C) <= Cardinality(Callers) /\ Cardinality(Callers) \in Nat
    BY <2>1, CallersFinite
  <2>3. Count(sent, from, last) \in Nat /\ Count(sent, from, reset) \in Nat
    BY <1>0, UnitsAreFinite
  <2>4. CASE new.at = "like.bump" /\ new.now < reset
    <3>1. quota.likes < MaxLikes
      BY <1>0, <2>4 DEF LikeSpent
    <3>2. Count(sent, from, reset) <= quota.likes
      BY DEF Forward, LikesCover
    <3>3. Count(sent, from, last) <= Count(sent, from, reset)
      <4>1. \A t \in Seconds : sent[t] > 0 /\ from <= t /\ t <= last => from <= t /\ t <= reset
        BY DEF Seconds
      <4> QED
        BY <1>0, <4>1, CountWithin
    <3>4. Count(sent, from, last) + Cardinality(C) <= MaxLikes - 1 + Cardinality(Callers)
      BY <1>0, <2>2, <2>3, <3>1, <3>2, <3>3
    <3> QED
      BY <1>1, <3>4 DEF LikesToCome
  <2>5. CASE ~(new.at = "like.bump" /\ new.now < reset)
    <3>1. C \subseteq B
      BY <1>1, <1>2, <2>5 DEF Bumps, Reaches
    <3>2. Cardinality(C) <= Cardinality(B)
      BY <2>2, <3>1, FS_Subset
    <3>3. Count(sent, from, last) + Cardinality(B) <= MaxLikes - 1 + Cardinality(Callers)
      BY DEF Forward, LikesToCome
    <3>4. Count(sent, from, last) + Cardinality(C) <= MaxLikes - 1 + Cardinality(Callers)
      BY <2>2, <2>3, <3>2, <3>3
    <3> QED
      BY <1>1, <3>4 DEF LikesToCome
  <2> QED
    BY <2>4, <2>5
<1> QED
  BY <1>3, <1>4, <1>5, <1>6 DEF Forward

LikeInv == QuotaTypeOK /\ DeckBelow /\ Timely /\ (~putBack => Forward)

LEMMA LikeInductive == LikeInv /\ [QuotaNext]_quotaVars => LikeInv'
<1> SUFFICES ASSUME LikeInv, [QuotaNext]_quotaVars PROVE LikeInv'
  OBVIOUS
<1>1. QuotaTypeOK /\ Timely /\ QuotaTypeOK' /\ DeckBelow' /\ Timely'
  BY QuotaTypeInductive, TimelyInductive DEF LikeInv
<1>2. ASSUME ~putBack' PROVE ~putBack
  <2>1. ASSUME NEW p \in Callers, DeckWrite(p) PROVE ~putBack
    <3>1. putBack' = (putBack \/ service[p].read.reset < quota.reset)
      BY <2>1 DEF DeckWrite
    <3> QED
      BY <1>2, <3>1, Zenon
  <2>2. CASE ~ \E p \in Callers : DeckWrite(p)
    <3>1. putBack' = putBack
      BY <2>2 DEF QuotaNext, quotaVars, Serve, LikeCheck, LikeBump, DeckRead, GiveUp, ResetDailyQuotas, NextSecond
    <3> QED
      BY <1>2, <3>1, Zenon
  <2> QED
    BY <2>1, <2>2
<1>3. ASSUME ~putBack' PROVE Forward'
  <2>1. Forward
    BY <1>2, <1>3, Zenon DEF LikeInv
  <2> USE <1>1, <2>1
  <2>2. ASSUME NEW p \in Callers, NEW op \in Services, Serve(p, op) PROVE Forward'
    <3> PICK new : new = [at |-> op, now |-> second, read |-> NoRow]
      OBVIOUS
    <3>1. service' = [service EXCEPT ![p] = new] /\ UNCHANGED <<quota, sentAt>>
      BY <2>2 DEF Serve
    <3>2. new.at \in {"like", "discover"}
      BY QuotaOps
    <3> QED
      BY <3>1, <3>2, ReadForward
  <2>3. ASSUME NEW p \in Callers, Done(p), UNCHANGED <<quota, sentAt>> PROVE Forward'
    <3> PICK new : new = AtRest
      OBVIOUS
    <3>1. service' = [service EXCEPT ![p] = new] /\ new.at = "idle"
      BY <2>3 DEF Done, AtRest
    <3> QED
      BY <2>3, <3>1, ReadForward
  <2>4. ASSUME NEW p \in Callers, LikeCheck(p) PROVE Forward'
    <3>1. CASE Done(p)
      BY <2>3, <2>4, <3>1 DEF LikeCheck
    <3>2. CASE ~Done(p)
      <4> PICK new : new = [at |-> "like.bump", now |-> service[p].now, read |-> quota]
        OBVIOUS
      <4>1. service' = [service EXCEPT ![p] = new] /\ ~LikeSpent(service[p].now, quota) /\ UNCHANGED <<quota, sentAt>>
        BY <2>4, <3>2 DEF LikeCheck, Proceed
      <4>2. service[p].now \in Nat
        BY <2>4, CallColumns DEF LikeCheck, Reaches
      <4> QED
        BY <4>1, <4>2, ReadForward
    <3> QED
      BY <3>1, <3>2
  <2>5. ASSUME NEW p \in Callers, DeckRead(p) PROVE Forward'
    <3>1. CASE Done(p)
      BY <2>3, <2>5, <3>1 DEF DeckRead
    <3>2. CASE ~Done(p)
      <4> PICK now \in Nat : now = service[p].now
        BY <2>5, CallColumns DEF DeckRead, Reaches
      <4> PICK r : r = IF RolledOver(now, quota) THEN [served |-> 0, likes |-> quota.likes, reset |-> now + Day] ELSE quota
        OBVIOUS
      <4> PICK new : new = [at |-> "discover.write", now |-> now, read |-> r]
        OBVIOUS
      <4>1. service' = [service EXCEPT ![p] = new] /\ UNCHANGED <<quota, sentAt>>
        BY <2>5, <3>2 DEF DeckRead, Proceed
      <4>2. quota.reset \in Nat
        BY RowColumns DEF QuotaTypeOK
      <4>3. r = quota \/ (r.reset = now + Day /\ quota.reset < now)
        BY <4>2 DEF RolledOver
      <4> QED
        BY <4>1, <4>3, ReadForward
    <3> QED
      BY <3>1, <3>2
  <2>6. ASSUME NEW p \in Callers, GiveUp(p) PROVE Forward'
    BY <2>3, <2>6 DEF GiveUp
  <2>7. CASE NextSecond \/ UNCHANGED quotaVars
    <3>1. UNCHANGED <<quota, sentAt, service>>
      BY <2>7 DEF NextSecond, quotaVars
    <3> QED
      BY <3>1 DEF Forward, SentBefore, BumpReadsPast, DeckOpens, LikesCover, LikesToCome, Bumps, Reaches
  <2> QED
    BY <1>3, <2>2, <2>4, <2>5, <2>6, <2>7, BumpForward, DeckForward, ResetForward DEF QuotaNext
<1> QED
  BY <1>1, <1>3 DEF LikeInv

LEMMA LikeInitially == QuotaInit => LikeInv
<1> SUFFICES ASSUME QuotaInit PROVE LikeInv
  OBVIOUS
<1> USE QuotaLimits
<1>1. QuotaTypeOK /\ DeckBelow
  BY QuotaTypeInitially
<1>2. /\ \A p \in Callers : service[p].at = "idle"
      /\ \A t \in Seconds : ~(sentAt[t] > 0) /\ ~(dealtAt[t] > 0)
      /\ quota.reset = 0 /\ quota.likes = 0
  BY DEF QuotaInit, AtRest, NoRow
<1>3. Timely
  BY <1>2 DEF Timely
<1>4. \A a, b \in Int : Count(sentAt, a, b) = 0
  BY <1>2, CountNone DEF QuotaTypeOK, QuotaInit, Seconds
<1>5. 0 - Day \in Int /\ 0 - 1 \in Int /\ 0 \in Int
  OBVIOUS
<1>6. SentBefore /\ BumpReadsPast /\ DeckOpens
  BY <1>2 DEF SentBefore, BumpReadsPast, DeckOpens, Reaches
<1>7. LikesCover
  BY <1>2, <1>4, <1>5 DEF LikesCover
<1>8. LikesToCome
  <2>1. Bumps(quota.reset) = {}
    BY <1>2 DEF Bumps, Reaches
  <2>2. Cardinality(Callers) \in Nat
    BY CallersFinite
  <2>3. Count(sentAt, quota.reset - Day, quota.reset - 1) = 0
    BY <1>2, <1>4, <1>5
  <2> QED
    BY <2>1, <2>2, <2>3, FS_EmptySet DEF LikesToCome
<1> QED
  BY <1>1, <1>3, <1>6, <1>7, <1>8 DEF LikeInv, Forward

(* The daily like limit, for any number of requests of the member at once. *)
THEOREM LikeCapHolds == QuotaSpec => []LikeCap
<1>1. LikeInv => LikeCap
  <2> SUFFICES ASSUME LikeInv, ~putBack PROVE Count(sentAt, quota.reset - Day, quota.reset - 1) <= MaxLikes - 1 + Cardinality(Callers)
    BY DEF LikeCap
  <2>1. QuotaTypeOK /\ Forward
    BY Zenon DEF LikeInv
  <2> PICK B : B = Bumps(quota.reset)
    OBVIOUS
  <2>2. Cardinality(B) \in Nat /\ Cardinality(Callers) \in Nat
    BY CallersFinite DEF Bumps
  <2> PICK c : c = Count(sentAt, quota.reset - Day, quota.reset - 1)
    OBVIOUS
  <2>3. c \in Nat
    <3>1. quota.reset - Day \in Int /\ quota.reset - 1 \in Int
      BY <2>1, RowColumns, QuotaLimits DEF QuotaTypeOK
    <3> QED
      BY <2>1, <3>1, UnitsAreFinite DEF QuotaTypeOK
  <2>4. c + Cardinality(B) <= MaxLikes - 1 + Cardinality(Callers)
    BY <2>1 DEF Forward, LikesToCome
  <2> QED
    BY <2>2, <2>3, <2>4, QuotaLimits
<1>2. QuotaSpec => []LikeInv
  BY LikeInitially, LikeInductive, PTL DEF QuotaSpec
<1> QED
  BY <1>1, <1>2, PTL

-----------------------------------------------------------------------------
(* Quota: the discovery limit *)

Asks(p) == Reaches(p, "discover") \/ Reaches(p, "discover.write")

\* Candidates are dealt up to the end of the window, and before the deck in flight.
DealtBefore ==
    /\ \A t \in Seconds : dealtAt[t] > 0 => t <= quota.reset
    /\ \A p \in Callers : Asks(p) =>
          /\ \A q \in Callers : Asks(q) => p = q
          /\ \A t \in Seconds : dealtAt[t] > 0 => t <= service[p].now
\* The column counts every candidate of the window, ...
ServedCover == Count(dealtAt, quota.reset - Day, quota.reset) <= quota.served
\* ... also of the one a deck has read, whatever became of the row since.
ReadCovers(now, r) == now <= r.reset /\ Count(dealtAt, r.reset - Day, r.reset) <= r.served
DecksCover == \A p \in Callers : Reaches(p, "discover.write") => ReadCovers(service[p].now, service[p].read)

Dealt == DealtBefore /\ ServedCover /\ DecksCover

(* Steps that deal nothing and leave the row alone. *)
LEMMA ReadDealt ==
    ASSUME QuotaTypeOK, Dealt, UNCHANGED <<quota, dealtAt>>, NEW p \in Callers, NEW new,
           service' = [service EXCEPT ![p] = new],
           new.at \in {"discover", "discover.write"} =>
               /\ \A q \in Callers : Asks(q) => p = q
               /\ \A t \in Seconds : dealtAt[t] > 0 => t <= new.now,
           new.at = "discover.write" => ReadCovers(new.now, new.read)
    PROVE  Dealt'
<1>1. service'[p] = new /\ \A q \in Callers : q # p => service'[q] = service[q]
  BY DEF QuotaTypeOK
<1>2. DealtBefore'
  <2>1. ASSUME NEW q \in Callers, Asks(q)'
        PROVE  /\ \A r \in Callers : Asks(r)' => q = r
               /\ \A t \in Seconds : dealtAt[t] > 0 => t <= service'[q].now
    BY <1>1, <2>1 DEF Dealt, DealtBefore, Asks, Reaches
  <2> QED
    BY <2>1 DEF Dealt, DealtBefore
<1>3. ServedCover'
  BY DEF Dealt, ServedCover
<1>4. DecksCover'
  BY <1>1 DEF Dealt, DecksCover, ReadCovers, Reaches
<1> QED
  BY <1>2, <1>3, <1>4 DEF Dealt

(* A window that is over is replaced by a later one, which holds no        *)
(* candidate the closed one does not hold.                                 *)
LEMMA LaterDealt ==
    ASSUME QuotaTypeOK, Dealt, UNCHANGED dealtAt,
           \A q \in Callers : (Asks(q)' => Asks(q)) /\ (Asks(q) => service'[q] = service[q]),
           NEW end \in Nat, quota'.reset = end, quota.reset <= end,
           \/ quota'.served = quota.served
           \/ (quota'.served \in Nat /\ quota.reset < end - Day)
    PROVE  Dealt'
<1> PICK reset \in Nat : reset = quota.reset
  BY RowColumns DEF QuotaTypeOK
<1> PICK dealt \in [Seconds -> Nat] : dealt = dealtAt
  BY DEF QuotaTypeOK
<1> PICK from \in Int : from = reset - Day
  BY QuotaLimits
<1> PICK opens \in Int : opens = end - Day
  BY QuotaLimits
<1>0. quota.served \in Nat /\ Day \in Nat /\ reset \in Int /\ end \in Int
  BY QuotaLimits, RowColumns DEF QuotaTypeOK
<1>1. \A t \in Seconds : t \in Nat /\ (dealt[t] > 0 => t <= reset)
  BY DEF Dealt, DealtBefore, Seconds
<1>2. DealtBefore'
  <2>1. \A t \in Seconds : dealt[t] > 0 => t <= end
    BY <1>0, <1>1
  <2>2. ASSUME NEW q \in Callers, Asks(q)'
        PROVE  /\ \A r \in Callers : Asks(r)' => q = r
               /\ \A t \in Seconds : dealtAt[t] > 0 => t <= service'[q].now
    BY <2>2 DEF Dealt, DealtBefore
  <2> QED
    BY <2>1, <2>2 DEF DealtBefore
<1>3. ServedCover'
  <2>1. CASE quota'.served = quota.served
    <3>1. \A t \in Seconds : dealt[t] > 0 /\ opens <= t /\ t <= end => from <= t /\ t <= reset
      BY <1>0, <1>1
    <3>2. Count(dealt, opens, end) <= Count(dealt, from, reset)
      BY <1>0, <3>1, CountWithin
    <3>3. Count(dealt, opens, end) \in Nat /\ Count(dealt, from, reset) \in Nat
      BY <1>0, UnitsAreFinite
    <3>4. Count(dealt, from, reset) <= quota.served
      BY DEF Dealt, ServedCover
    <3>5. Count(dealt, opens, end) <= quota.served
      BY <1>0, <3>2, <3>3, <3>4
    <3> QED
      BY <2>1, <3>5 DEF ServedCover
  <2>2. CASE quota'.served \in Nat /\ quota.reset < end - Day
    <3>1. \A t \in Seconds : dealt[t] > 0 => ~(opens <= t /\ t <= end)
      BY <1>0, <1>1, <2>2
    <3>2. Count(dealt, opens, end) = 0
      BY <1>0, <3>1, CountNone
    <3>3. 0 <= quota'.served
      BY <2>2
    <3> QED
      BY <3>2, <3>3 DEF ServedCover
  <2> QED
    BY <2>1, <2>2
<1>4. DecksCover'
  <2> SUFFICES ASSUME NEW q \in Callers, Reaches(q, "discover.write")'
               PROVE  ReadCovers(service[q].now, service[q].read) /\ service'[q] = service[q]
    BY DEF DecksCover, ReadCovers
  <2>1. Asks(q) /\ service'[q] = service[q]
    BY DEF Asks
  <2> QED
    BY <2>1 DEF Dealt, DecksCover, Reaches
<1> QED
  BY <1>2, <1>3, <1>4 DEF Dealt

(* The one deck in flight writes what it read and dealt. *)
LEMMA WriteDealt ==
    ASSUME QuotaTypeOK, DeckBelow, Dealt, NEW p \in Callers, DeckWrite(p)
    PROVE  Dealt'
<1>1. Reaches(p, "discover.write") /\ service[p].at # "idle"
  BY DEF DeckWrite, Reaches
<1> PICK now \in Seconds : now = service[p].now
  BY <1>1, CallColumns
<1> PICK r \in Rows : r = service[p].read
  BY <1>1, CallColumns
<1> PICK n \in 0..Batch : /\ quota' = [served |-> r.served + n, likes |-> quota.likes, reset |-> r.reset]
                          /\ dealtAt' = [dealtAt EXCEPT ![now] = @ + n]
  BY DEF DeckWrite
<1> PICK end \in Nat : end = r.reset
  BY RowColumns
<1> PICK dealt \in [Seconds -> Nat] : dealt = dealtAt
  BY DEF QuotaTypeOK
<1> PICK more : more = [dealt EXCEPT ![now] = @ + n]
  OBVIOUS
<1> PICK opens \in Int : opens = end - Day
  BY QuotaLimits
<1>0. n \in Nat /\ r.served \in Nat /\ end \in Int /\ more \in [Seconds -> Nat]
  BY QuotaLimits, RowColumns
<1>2. quota'.reset = end /\ quota'.served = r.served + n /\ dealtAt' = more
  OBVIOUS
<1>3. now <= end /\ Count(dealt, opens, end) <= r.served
  BY <1>1 DEF Dealt, DecksCover, ReadCovers
<1>4. \A t \in Seconds : t \in Nat /\ dealt[t] \in Nat /\ (more[t] > 0 => t = now \/ dealt[t] > 0)
  BY <1>0 DEF Seconds
<1>5. Asks(p) /\ \A q \in Callers : Asks(q) => p = q
  BY <1>1 DEF Dealt, DealtBefore, Asks
<1>6. \A t \in Seconds : dealt[t] > 0 => t <= now
  BY <1>5 DEF Dealt, DealtBefore
<1>7. \A q \in Callers : ~Asks(q)'
  <2>1. service' = [service EXCEPT ![p] = AtRest]
    BY DEF DeckWrite, Done
  <2> QED
    BY <1>5, <2>1 DEF Asks, Reaches, QuotaTypeOK, AtRest
<1>8. DealtBefore'
  <2>1. \A t \in Seconds : more[t] > 0 => t <= end
    BY <1>0, <1>3, <1>4, <1>6
  <2> QED
    BY <1>2, <1>7, <2>1 DEF DealtBefore
<1>9. ServedCover'
  <2>1. Count(more, opens, end) <= Count(dealt, opens, end) + n
    BY <1>0, CountMore
  <2>2. Count(more, opens, end) \in Nat /\ Count(dealt, opens, end) \in Nat
    BY <1>0, UnitsAreFinite
  <2>3. Count(more, opens, end) <= r.served + n
    BY <1>0, <1>3, <2>1, <2>2
  <2> QED
    BY <1>2, <2>3 DEF ServedCover
<1>10. DecksCover'
  BY <1>7 DEF DecksCover, Asks
<1> QED
  BY <1>8, <1>9, <1>10 DEF Dealt

ServedInv == QuotaTypeOK /\ DeckBelow /\ Timely /\ Dealt

LEMMA ServedInductive == ASSUME OneDeck PROVE ServedInv /\ [QuotaNext]_quotaVars => ServedInv'
<1> SUFFICES ASSUME ServedInv, [QuotaNext]_quotaVars PROVE ServedInv'
  OBVIOUS
<1> USE QuotaLimits
<1>0. QuotaTypeOK /\ DeckBelow /\ Timely /\ Dealt
  BY DEF ServedInv
<1>1. QuotaTypeOK' /\ DeckBelow' /\ Timely'
  BY <1>0, QuotaTypeInductive, TimelyInductive
<1> USE <1>0
<1>2. ASSUME NEW p \in Callers, NEW op \in Services, Serve(p, op) PROVE Dealt'
  <2> PICK new : new = [at |-> op, now |-> second, read |-> NoRow]
    OBVIOUS
  <2>1. service' = [service EXCEPT ![p] = new] /\ UNCHANGED <<quota, dealtAt>>
    BY <1>2 DEF Serve
  <2>2. new.at \in {"like", "discover"} /\ new.at = op /\ new.now = second
    BY QuotaOps
  <2>3. op = "discover" => \A q \in Callers : ~Asks(q)
    BY <1>2 DEF Serve, Asks
  <2>4. \A t \in Seconds : dealtAt[t] > 0 => t <= second
    BY DEF Timely
  <2> QED
    BY <2>1, <2>2, <2>3, <2>4, ReadDealt
<1>3. ASSUME NEW p \in Callers, Done(p), UNCHANGED <<quota, dealtAt>> PROVE Dealt'
  <2> PICK new : new = AtRest
    OBVIOUS
  <2>1. service' = [service EXCEPT ![p] = new] /\ new.at = "idle"
    BY <1>3 DEF Done, AtRest
  <2> QED
    BY <1>3, <2>1, ReadDealt
<1>4. ASSUME NEW p \in Callers, LikeCheck(p) PROVE Dealt'
  <2>1. CASE Done(p)
    BY <1>3, <1>4, <2>1 DEF LikeCheck
  <2>2. CASE ~Done(p)
    <3> PICK new : new = [at |-> "like.bump", now |-> service[p].now, read |-> quota]
      OBVIOUS
    <3>1. service' = [service EXCEPT ![p] = new] /\ UNCHANGED <<quota, dealtAt>>
      BY <1>4, <2>2 DEF LikeCheck, Proceed
    <3> QED
      BY <3>1, ReadDealt
  <2> QED
    BY <2>1, <2>2
<1>5. ASSUME NEW p \in Callers, LikeBump(p) PROVE Dealt'
  <2>1. Reaches(p, "like.bump") /\ service[p].at # "idle"
    BY <1>5 DEF LikeBump, Reaches
  <2> PICK now \in Nat : now = service[p].now
    BY <2>1, CallColumns
  <2> PICK old \in Nat : old = service[p].read.reset
    BY <2>1, CallColumns, RowColumns
  <2> PICK end : end = IF quota.reset < now THEN (IF now >= old THEN now + Day ELSE old) ELSE quota.reset
    OBVIOUS
  <2>2. quota'.reset = end /\ quota'.served = quota.served /\ dealtAt' = dealtAt
    BY <1>5 DEF LikeBump
  <2>3. quota.reset \in Nat
    BY RowColumns DEF QuotaTypeOK
  <2>4. end \in Nat /\ quota.reset <= end
    BY <2>3
  <2>5. \A q \in Callers : (Asks(q)' => Asks(q)) /\ (Asks(q) => service'[q] = service[q])
    BY <1>5, <2>1 DEF LikeBump, Done, Asks, Reaches, QuotaTypeOK, AtRest
  <2> QED
    BY <2>2, <2>4, <2>5, LaterDealt
<1>6. ASSUME NEW p \in Callers, DeckRead(p) PROVE Dealt'
  <2>1. CASE Done(p)
    BY <1>3, <1>6, <2>1 DEF DeckRead
  <2>2. CASE ~Done(p)
    <3>1. Asks(p) /\ service[p].at # "idle"
      BY <1>6 DEF DeckRead, Reaches, Asks
    <3> PICK now \in Nat : now = service[p].now
      BY <3>1, CallColumns
    <3> PICK r : r = IF RolledOver(now, quota) THEN [served |-> 0, likes |-> quota.likes, reset |-> now + Day] ELSE quota
      OBVIOUS
    <3> PICK new : new = [at |-> "discover.write", now |-> now, read |-> r]
      OBVIOUS
    <3>2. service' = [service EXCEPT ![p] = new] /\ UNCHANGED <<quota, dealtAt>>
      BY <1>6, <2>2 DEF DeckRead, Proceed
    <3>3. /\ \A q \in Callers : Asks(q) => p = q
          /\ \A t \in Seconds : dealtAt[t] > 0 => t <= now
      BY <3>1 DEF Dealt, DealtBefore
    <3>4. ReadCovers(now, r)
      <4>1. quota.reset \in Nat
        BY RowColumns DEF QuotaTypeOK
      <4>2. CASE RolledOver(now, quota)
        <5>1. now + Day \in Int /\ now \in Int /\ (now + Day) - Day = now /\ now <= now + Day
          OBVIOUS
        <5>2. \A t \in Seconds : dealtAt[t] > 0 => ~(now <= t /\ t <= now + Day)
          BY <4>1, <4>2 DEF Dealt, DealtBefore, RolledOver, Seconds
        <5>3. Count(dealtAt, now, now + Day) = 0
          BY <5>1, <5>2, CountNone DEF QuotaTypeOK
        <5> QED
          BY <4>2, <5>1, <5>3 DEF ReadCovers
      <4>3. CASE ~RolledOver(now, quota)
        BY <4>1, <4>3 DEF ReadCovers, RolledOver, Dealt, ServedCover
      <4> QED
        BY <4>2, <4>3
    <3> QED
      BY <3>2, <3>3, <3>4, ReadDealt
  <2> QED
    BY <2>1, <2>2
<1>7. ASSUME NEW p \in Callers, GiveUp(p) PROVE Dealt'
  BY <1>3, <1>7 DEF GiveUp
<1>8. ASSUME ResetDailyQuotas PROVE Dealt'
  <2> PICK end \in Nat : end = second + Day
    BY DEF QuotaTypeOK, Seconds
  <2>1. quota'.reset = end /\ quota'.served = 0 /\ dealtAt' = dealtAt /\ service' = service
    BY <1>8 DEF ResetDailyQuotas
  <2>2. quota.reset \in Nat /\ second \in Nat /\ quota.reset < second
    BY <1>8, RowColumns DEF QuotaTypeOK, Seconds, ResetDailyQuotas
  <2>3. quota.reset <= end /\ quota.reset < end - Day
    BY <2>2
  <2>4. \A q \in Callers : (Asks(q)' => Asks(q)) /\ (Asks(q) => service'[q] = service[q])
    BY <2>1 DEF Asks, Reaches
  <2>5. quota'.served \in Nat
    BY <2>1
  <2> QED
    BY <2>1, <2>3, <2>4, <2>5, LaterDealt
<1>9. ASSUME NextSecond \/ UNCHANGED quotaVars PROVE Dealt'
  <2>1. UNCHANGED <<quota, dealtAt, service>>
    BY <1>9 DEF NextSecond, quotaVars
  <2> QED
    <3>1. DealtBefore'
      BY <2>1 DEF Dealt, DealtBefore, Asks, Reaches
    <3>2. ServedCover'
      BY <2>1 DEF Dealt, ServedCover
    <3>3. DecksCover'
      BY <2>1 DEF Dealt, DecksCover, ReadCovers, Reaches
    <3> QED
      BY <3>1, <3>2, <3>3 DEF Dealt
<1>11. ASSUME NEW p \in Callers, DeckWrite(p) PROVE Dealt'
  BY <1>11, WriteDealt
<1>10. Dealt'
  BY <1>2, <1>4, <1>5, <1>6, <1>7, <1>8, <1>9, <1>11 DEF QuotaNext
<1> QED
  BY <1>1, <1>10 DEF ServedInv

LEMMA ServedInitially == QuotaInit => ServedInv
<1> SUFFICES ASSUME QuotaInit PROVE ServedInv
  OBVIOUS
<1>1. QuotaTypeOK /\ DeckBelow /\ Timely
  BY LikeInitially DEF LikeInv
<1>2. /\ \A p \in Callers : service[p].at = "idle"
      /\ \A t \in Seconds : ~(dealtAt[t] > 0)
      /\ quota.reset = 0 /\ quota.served = 0
  BY DEF QuotaInit, AtRest, NoRow
<1>3. DealtBefore /\ DecksCover
  BY <1>2 DEF DealtBefore, DecksCover, Asks, Reaches
<1>4. 0 - Day \in Int /\ 0 \in Int
  BY QuotaLimits
<1>5. Count(dealtAt, 0 - Day, 0) = 0
  BY <1>1, <1>2, <1>4, CountNone DEF QuotaTypeOK
<1>6. ServedCover
  BY <1>2, <1>5 DEF ServedCover
<1> QED
  BY <1>1, <1>3, <1>6 DEF ServedInv, Dealt

(* The daily discovery limit, for a member that waits for a deck before it *)
(* asks for the next, whatever likes and the housekeeper do meanwhile.     *)
THEOREM ServedCapHolds == ASSUME OneDeck PROVE QuotaSpec => []ServedCap
<1>1. ServedInv => ServedCap
  <2> SUFFICES ASSUME ServedInv PROVE ServedCap
    OBVIOUS
  <2>1. QuotaTypeOK /\ ServedCover
    BY DEF ServedInv, Dealt
  <2>2. /\ quota.served \in 0..MaxServed - 1 + Batch
        /\ quota.reset \in Int /\ quota.reset - Day \in Int
    BY <2>1, RowColumns, QuotaLimits DEF QuotaTypeOK
  <2>3. Count(dealtAt, quota.reset - Day, quota.reset) \in Nat
    BY <2>1, <2>2, UnitsAreFinite DEF QuotaTypeOK
  <2> QED
    BY <2>1, <2>2, <2>3, QuotaLimits DEF ServedCover, ServedCap
<1>2. QuotaSpec => []ServedInv
  BY ServedInitially, ServedInductive, PTL DEF QuotaSpec
<1> QED
  BY <1>1, <1>2, PTL
=============================================================================
