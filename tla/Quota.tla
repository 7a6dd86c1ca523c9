------------------------------- MODULE Quota -------------------------------
(***************************************************************************)
(* The daily limits of one member: their od_discovery_quotas row, which    *)
(* the matcher counts likes in, discovery counts candidates in, and the    *)
(* housekeeper resets, each with its own rule for when a day is over.      *)
(*                                                                         *)
(* A request takes its "now" once, when it starts, and uses it in a read   *)
(* and in a write of the row with other statements in between, so other    *)
(* requests of the member can run between the two.                         *)
(***************************************************************************)
EXTENDS Integers, FiniteSets

CONSTANTS
    Callers,        \* requests of the member that can be in flight at once
    Services,       \* the operations the member calls in this instance
    OneDeck,        \* whether the member waits for a deck before asking for another
    MaxLikes,       \* MAX_DAILY_LIKES
    MaxServed,      \* MAX_DAILY_CANDIDATES
    Batch,          \* CANDIDATE_BATCH_SIZE
    Day,            \* DAY_SEC, in ticks
    ServiceSpan,    \* ticks a request may span
    LastSecond,     \* bound on the clock
    MaxServices     \* bound on the requests

ASSUME QuotaOps == Services \subseteq {"like", "discover"} /\ OneDeck \in BOOLEAN /\ IsFiniteSet(Callers)
ASSUME QuotaLimits ==
    /\ MaxLikes \in Nat \ {0} /\ MaxServed \in Nat \ {0} /\ Batch \in Nat \ {0}
    /\ Day \in Nat \ {0} /\ ServiceSpan \in Nat /\ 2 * ServiceSpan < Day /\ LastSecond \in Nat \ {0} /\ MaxServices \in Nat

VARIABLES
    second,     \* seconds, in ticks
    quota,      \* the member's row; reset = 0 stands for no row
    service,    \* per process: the request in flight, its now, and the row it read
    services,   \* requests started so far
    sentAt,     \* history: likes counted, by the now of the request
    dealtAt,    \* history: candidates dealt, by the now of the request
    putBack     \* history: whether a deck wrote back a window that another had closed

quotaVars == <<second, quota, service, services, sentAt, dealtAt, putBack>>

Seconds == 1..LastSecond
NoRow == [served |-> 0, likes |-> 0, reset |-> 0]
Rows == [served : 0..MaxServed - 1 + Batch, likes : Nat, reset : 0..LastSecond + Day]
AtRest == [at |-> "idle"]
ServiceStates == {AtRest} \cup
    [at : {"like", "discover", "like.bump", "discover.write"}, now : Seconds, read : Rows]

Reaches(p, step) == service[p].at = step
Done(p) == service' = [service EXCEPT ![p] = AtRest]
\* Goes on to a step with what was read.
Proceed(p, step, r) == service' = [service EXCEPT ![p] = [at |-> step, now |-> service[p].now, read |-> r]]
\* The sum of at[t] for the seconds from..to, as the size of a disjoint union.
Units(at, from, to) == UNION {{t} \X (1..at[t]) : t \in {u \in Seconds : from <= u /\ u <= to}}
Count(at, from, to) == Cardinality(Units(at, from, to))

QuotaInit ==
    /\ second = 1
    /\ quota = NoRow
    /\ service = [p \in Callers |-> AtRest]
    /\ services = 0
    /\ sentAt = [t \in Seconds |-> 0]
    /\ dealtAt = [t \in Seconds |-> 0]
    /\ putBack = FALSE

Serve(p, op) ==
    /\ service[p] = AtRest /\ services < MaxServices
    /\ op = "discover" /\ OneDeck => \A q \in Callers : ~Reaches(q, "discover") /\ ~Reaches(q, "discover.write")
    /\ services' = services + 1
    /\ service' = [service EXCEPT ![p] = [at |-> op, now |-> second, read |-> NoRow]]
    /\ UNCHANGED <<second, quota, sentAt, dealtAt, putBack>>

-----------------------------------------------------------------------------
(* intent.like *)

LikeSpent(now, r) == now < r.reset /\ r.likes >= MaxLikes

\* Mutant: the count is not looked at.
LikeCheckUncounted(p) ==
    /\ Reaches(p, "like")
    /\ Proceed(p, "like.bump", quota)
    /\ UNCHANGED <<second, quota, services, sentAt, dealtAt, putBack>>

\* Refused while the window is open and the limit is reached.
LikeCheck(p) ==
    /\ Reaches(p, "like")
    /\ IF LikeSpent(service[p].now, quota) THEN Done(p) ELSE Proceed(p, "like.bump", quota)
    /\ UNCHANGED <<second, quota, services, sentAt, dealtAt, putBack>>

(* One upsert: the end of the next window is computed from the row read,   *)
(* the rollover is decided on the row as it is now.                        *)
LikeBump(p) ==
    /\ Reaches(p, "like.bump")
    /\ LET now == service[p].now
           old == service[p].read.reset
           next == IF now >= old THEN now + Day ELSE old
           over == quota.reset < now
       IN  /\ quota' = [served |-> quota.served,
                         likes |-> IF over THEN 1 ELSE quota.likes + 1,
                         reset |-> IF over THEN next ELSE quota.reset]
           /\ sentAt' = [sentAt EXCEPT ![now] = @ + 1]
    /\ Done(p)
    /\ UNCHANGED <<second, services, dealtAt, putBack>>

-----------------------------------------------------------------------------
(* discovery.get_candidates *)

RolledOver(now, r) == now > r.reset

DeckSpent(now, r) == ~RolledOver(now, r) /\ r.served >= MaxServed

\* consumeQuota: what was served today and when today ends, or exhausted.
DeckRead(p) ==
    /\ Reaches(p, "discover")
    /\ LET now == service[p].now IN
       IF DeckSpent(now, quota) THEN Done(p)
       ELSE Proceed(p, "discover.write",
                 IF RolledOver(now, quota) THEN [served |-> 0, likes |-> quota.likes, reset |-> now + Day] ELSE quota)
    /\ UNCHANGED <<second, quota, services, sentAt, dealtAt, putBack>>

\* Mutant: this request's candidates only.
DeckWriteForgets(p) ==
    /\ Reaches(p, "discover.write")
    /\ \E n \in 0..Batch :
         /\ quota' = [served |-> n, likes |-> quota.likes, reset |-> service[p].read.reset]
         /\ dealtAt' = [dealtAt EXCEPT ![service[p].now] = @ + n]
    /\ putBack' = (putBack \/ service[p].read.reset < quota.reset)
    /\ Done(p)
    /\ UNCHANGED <<second, services, sentAt>>

(* recordServed after up to a batch of candidates was found: both columns  *)
(* are set from what the request read, the likes stay.                     *)
DeckWrite(p) ==
    /\ Reaches(p, "discover.write")
    /\ LET r == service[p].read IN
       \E n \in 0..Batch :
         /\ quota' = [served |-> r.served + n, likes |-> quota.likes, reset |-> r.reset]
         /\ dealtAt' = [dealtAt EXCEPT ![service[p].now] = @ + n]
    /\ putBack' = (putBack \/ service[p].read.reset < quota.reset)
    /\ Done(p)
    /\ UNCHANGED <<second, services, sentAt>>

-----------------------------------------------------------------------------
\* No grant for the like, no location for the deck, or an error of D1.
GiveUp(p) ==
    /\ Reaches(p, "like.bump") \/ Reaches(p, "discover.write")
    /\ Done(p)
    /\ UNCHANGED <<second, quota, services, sentAt, dealtAt, putBack>>

\* The housekeeper closes a window that is over and opens the next at once.
ResetDailyQuotas ==
    /\ quota # NoRow /\ quota.reset < second
    /\ quota' = [served |-> 0, likes |-> 0, reset |-> second + Day]
    /\ UNCHANGED <<second, service, services, sentAt, dealtAt, putBack>>

NextSecond ==
    /\ second < LastSecond
    /\ \A p \in Callers : service[p] # AtRest => second < service[p].now + ServiceSpan
    /\ second' = second + 1
    /\ UNCHANGED <<quota, service, services, sentAt, dealtAt, putBack>>

QuotaNext ==
    \/ \E p \in Callers :
         \/ \E op \in Services : Serve(p, op)
         \/ LikeCheck(p) \/ LikeBump(p) \/ DeckRead(p) \/ DeckWrite(p) \/ GiveUp(p)
    \/ ResetDailyQuotas
    \/ NextSecond

QuotaSpec == QuotaInit /\ [][QuotaNext]_quotaVars

-----------------------------------------------------------------------------
QuotaTypeOK ==
    /\ second \in Seconds
    /\ quota \in Rows
    /\ service \in [Callers -> ServiceStates]
    /\ services \in 0..MaxServices
    /\ sentAt \in [Seconds -> Nat]
    /\ dealtAt \in [Seconds -> Nat]
    /\ putBack \in BOOLEAN

(* The daily like limit: of the requests that fall in the window the row   *)
(* describes, no more than the limit are counted, plus those that were     *)
(* past the check when the last like of the day was counted; unless a deck *)
(* that was read before midnight and is written after it put the closed    *)
(* window back, for the next like then starts the day, and the count, anew.*)
LikeCap ==
    ~putBack =>
        Count(sentAt, quota.reset - Day, quota.reset - 1) <= MaxLikes - 1 + Cardinality(Callers)

(* The daily discovery limit: a member is dealt at most the limit in the   *)
(* window the row describes, plus the rest of the deck that reaches it.    *)
ServedCap == Count(dealtAt, quota.reset - Day, quota.reset) <= MaxServed - 1 + Batch
=============================================================================
