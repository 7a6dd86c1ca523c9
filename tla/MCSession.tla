----------------------------- MODULE MCSession -----------------------------
(* The way of a message in and out: the sessions of one object and their   *)
(* rate limits, the copies of a request, its gift-wrapped answer, and the  *)
(* media server beside it.  The parts share no variable; a behaviour is of *)
(* one of them, so that TLC visits the sum of their states and not the     *)
(* product.                                                                *)
EXTENDS Session, RateLimiter, Requests, GiftWrap, Blossom, TLC
CONSTANTS c1, c2, p1, p2, k1, k2, s1, s2, u1, u2

MCConns == {c1, c2}
MCProcs == {p1, p2}
MCKeys == {k1, k2}
MCSubs == {s1, s2}
MCUsers == {u1, u2}
\* No property tells one of them from another.
MCSymmetry ==
    Permutations(MCConns) \cup Permutations(MCProcs) \cup Permutations(MCKeys)
    \cup Permutations(MCSubs)

\* Around the ends of the buckets, of the short length, and where the seal
\* of a rumor has no short length any more.
MCSizes == 250..2200 \cup 65500..65600 \cup 81900..81950

\* Both store the first blob; one may remove it, the other has more.
MCSignatures ==
    {[by |-> u1, verb |-> "upload", hash |-> h] : h \in 1..3}
    \cup {[by |-> u2, verb |-> v, hash |-> 1] : v \in Verbs}

VARIABLE part
requestSide == <<limiterVars, requestVars>>
mcVars == <<vars, requestSide, wrapVars, blossomVars, part>>

MCInit ==
    /\ part \in {"session", "limiter", "request", "reply", "media"}
    /\ Init /\ LimiterInit /\ RequestInit /\ WrapInit /\ BlossomInit

MCNext ==
    /\ UNCHANGED part
    /\ \/ part = "session" /\ Next /\ UNCHANGED <<requestSide, wrapVars, blossomVars>>
       \/ part = "limiter" /\ LimiterNext /\ UNCHANGED <<vars, requestVars, wrapVars, blossomVars>>
       \/ part = "request" /\ RequestNext /\ UNCHANGED <<vars, limiterVars, wrapVars, blossomVars>>
       \/ part = "reply" /\ WrapNext /\ UNCHANGED <<vars, requestSide, blossomVars>>
       \/ part = "media" /\ BlossomNext /\ UNCHANGED <<vars, requestSide, wrapVars>>

MCSpec == MCInit /\ [][MCNext]_mcVars
=============================================================================
