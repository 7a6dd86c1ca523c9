---------------------------- MODULE RateLimiter ----------------------------
(***************************************************************************)
(* The token bucket of a session (types.ts; one for EVENTs, one for REQs). *)
(* Its rate is a whole number of tokens a minute, one in every Interval.   *)
(* Every attempt refills it by the tokens of the time since the one before *)
(* it, and forgets the rest of that time, whether it is let in or not.     *)
(* The bucket is part of the session object: a session that is put         *)
(* together again after hibernation starts with a full one.                *)
(***************************************************************************)
EXTENDS Integers

CONSTANTS
    Capacity,   \* tokens of a full bucket
    Interval,   \* milliseconds a token takes, in ticks
    MaxNow,     \* bound on the clock
    MaxTried,   \* bound on the attempts that are counted
    MaxBuckets  \* bound on the buckets handed out while it is counted

ASSUME LimiterRates ==
    /\ Capacity \in Nat \ {0} /\ Interval \in Nat \ {0}
    /\ MaxNow \in Nat /\ MaxTried \in Nat /\ MaxBuckets \in Nat

VARIABLES
    now,        \* Date.now(), in ticks
    tokens,
    lastRefill, \* lastRefillTime
    \* history, of the window that is being observed
    since,      \* its start; chosen once
    allowance,  \* the full buckets that were handed out for it
    passed,     \* attempts let in
    refused     \* attempts turned away

bucket == <<tokens, lastRefill>>
window == <<since, allowance, passed, refused>>
limiterVars == <<now, bucket, window>>

Unset == -1

Smaller(m, n) == IF m <= n THEN m ELSE n

LimiterInit ==
    /\ now = 0
    /\ tokens = Capacity /\ lastRefill = 0
    /\ since = Unset /\ allowance = 0 /\ passed = 0 /\ refused = 0

-----------------------------------------------------------------------------
\* Mutant: the bucket has no brim.
RefilledOver == tokens + (now - lastRefill) \div Interval

\* refill
Refilled == Smaller(Capacity, tokens + (now - lastRefill) \div Interval)

(* removeToken, called for a message of the session. *)
Attempt ==
    /\ passed + refused < MaxTried
    /\ lastRefill' = now
    /\ IF Refilled < 1
       THEN /\ tokens' = Refilled
            /\ refused' = refused + 1
            /\ UNCHANGED passed
       ELSE /\ tokens' = Refilled - 1
            /\ passed' = IF since = Unset THEN passed ELSE passed + 1
            /\ UNCHANGED refused
    /\ UNCHANGED <<now, since, allowance>>

(* The session leaves memory; its next message meets a new bucket. *)
Refresh ==
    /\ allowance < MaxBuckets * Capacity
    /\ tokens' = Capacity /\ lastRefill' = now
    /\ allowance' = IF since = Unset THEN allowance ELSE allowance + Capacity
    /\ UNCHANGED <<now, since, passed, refused>>

\* Some moment from which on is counted; a bucket is at hand.
Observe ==
    /\ since = Unset
    /\ since' = now /\ allowance' = Capacity
    /\ UNCHANGED <<now, bucket, passed, refused>>

Elapse ==
    /\ now < MaxNow
    /\ now' = now + 1
    /\ UNCHANGED <<bucket, window>>

LimiterNext == Attempt \/ Refresh \/ Observe \/ Elapse

LimiterSpec == LimiterInit /\ [][LimiterNext]_limiterVars

-----------------------------------------------------------------------------
LimiterTypeOK ==
    /\ now \in Nat /\ lastRefill \in 0..now
    /\ tokens \in 0..Capacity
    /\ since \in {Unset} \cup 0..now
    /\ allowance \in Nat /\ passed \in Nat /\ refused \in Nat

(* In any stretch of time a session lets in at most one full bucket and    *)
(* the tokens of that time, plus one more bucket for every time it was put *)
(* together again: docs/SECURITY.md:91 leaves open how much the state that *)
(* is lost lets through.                                                   *)
RateBound == since # Unset => passed <= allowance + (now - since) \div Interval

(* Whoever stays away for one interval is let in: an attempt is refused    *)
(* only within an interval of the one before it. (And an attempt that is   *)
(* refused starts the interval anew, so that nothing else can be promised: *)
(* a client that tries again and again sooner than that stays out.)        *)
PatientIsServed == [][refused' # refused => now - lastRefill < Interval]_limiterVars
=============================================================================
