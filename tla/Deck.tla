-------------------------------- MODULE Deck --------------------------------
(***************************************************************************)
(* The deck of one member: discovery.update_preferences and                *)
(* discovery.get_candidates, statement by statement, with several requests *)
(* of the member in flight, while the others come and go.                  *)
(*                                                                         *)
(* A grant is known by the second it was written in: its token is a digest *)
(* of viewer, candidate and that second.  A read that a replica answers    *)
(* late is an earlier read.  The daily quota is in Quota, what a like does *)
(* with a grant in Matching.                                               *)
(***************************************************************************)
EXTENDS Integers, FiniteSets

CONSTANTS
    Calls,      \* requests of the member that can be in flight at once
    Candidates, \* the others: their member ids, which are compared
    Cell,       \* the tier in which each first shares a cell with the member
    Rank,       \* their order by trust tier and last update, in which the rows come
    Filters,    \* preferences: who they fit, and the tier they reach out to
    Page,       \* CANDIDATE_BATCH_SIZE
    GrantLife,  \* CANDIDATE_GRANT_TTL, in ticks
    SeenLife,   \* ticks the housekeeper keeps a seen row
    CallSpan,   \* ticks a request may span
    Movers,     \* the candidates that hide, pause and resume in this instance
    LastTime,   \* bound on the clock
    MaxCalls    \* bound on the requests

ASSUME DeckSizes ==
    /\ Candidates \subseteq Nat /\ Movers \subseteq Candidates /\ IsFiniteSet(Candidates) /\ IsFiniteSet(Calls)
    /\ Cell \in [Candidates -> 1..3] /\ Rank \in [Candidates -> Nat]
    /\ \A v, w \in Candidates : Rank[v] = Rank[w] => v = w
    /\ Filters \subseteq [who : SUBSET Candidates, reach : 1..3] /\ Filters # {}
    /\ Page \in Nat \ {0} /\ GrantLife \in Nat \ {0} /\ CallSpan \in Nat /\ LastTime \in Nat \ {0} /\ MaxCalls \in Nat
    /\ SeenLife \in Nat /\ SeenLife >= CallSpan

VARIABLES
    time,       \* seconds, in ticks
    filter,     \* od_discovery_prefs
    standing,   \* per candidate: "listed", "hidden" (its profile) or "away" (its status)
    grants,     \* od_candidate_grants: granted_at per candidate, 0 for no row
    seenAt,     \* od_seen_candidates: seen_at per candidate, 0 for no row
    call,       \* per process: the request in flight
    calls,      \* requests so far
    cursor,     \* the cursor of the page the client got last
    deals       \* history: grants of a candidate since it was last purged

tables == <<filter, standing, grants, seenAt>>
deckVars == <<time, tables, call, calls, cursor, deals>>

Moments == 1..LastTime
NoCursor == [since |-> 0, who |-> 0]
Cursors == [since : 0..LastTime, who : Candidates \cup {0}]
Cards == [who : Candidates, since : Moments]
Free == [at |-> "free"]
DeckRequests ==
    [at : {"drop", "load", "search", "persist", "answer"}, now : Moments,
     filter : Filters, from : Cursors, cards : SUBSET Cards, fresh : SUBSET Candidates,
     last : Cursors, tier : 1..3, alone : BOOLEAN]

Is(c, step) == call[c].at = step
\* A request does something the others in flight do not know of.
Apart(c) == [d \in Calls |-> IF d = c \/ call[d] = Free THEN call[d] ELSE [call[d] EXCEPT !.alone = FALSE]]
Nobody == [d \in Calls |-> IF call[d] = Free THEN Free ELSE [call[d] EXCEPT !.alone = FALSE]]
\* expires_at > now
Unexpired(since, now) == since # 0 /\ since + GrantLife > now
InForce(w, now) == Unexpired(grants[w], now)

DeckInit ==
    /\ time = 1
    /\ filter \in Filters
    /\ standing = [w \in Candidates |-> "listed"]
    /\ grants = [w \in Candidates |-> 0]
    /\ seenAt = [w \in Candidates |-> 0]
    /\ call = [c \in Calls |-> Free]
    /\ cursor = NoCursor /\ calls = 0
    /\ deals = [w \in Candidates |-> 0]

-----------------------------------------------------------------------------
(* updatePreferences *)

UpsertPrefs(c, f) ==
    /\ call[c] = Free /\ calls < MaxCalls
    /\ calls' = calls + 1
    /\ filter' = f
    /\ call' = [Apart(c) EXCEPT ![c] =
         [at |-> "drop", now |-> time, filter |-> f, from |-> NoCursor, cards |-> {},
          fresh |-> {}, last |-> NoCursor, tier |-> 1, alone |-> FALSE]]
    /\ UNCHANGED <<time, standing, grants, seenAt, cursor, deals>>

DropDeck(c) ==
    /\ Is(c, "drop")
    /\ grants' = [w \in Candidates |-> 0]
    /\ call' = [Apart(c) EXCEPT ![c] = Free]
    /\ UNCHANGED <<calls, time, filter, standing, seenAt, cursor, deals>>

-----------------------------------------------------------------------------
(* getCandidates *)

(* The client asks for the first page, or for the one after the last it    *)
(* got; loadViewer reads the preferences (and a location, which it has).   *)
Ask(c, from) ==
    /\ call[c] = Free /\ calls < MaxCalls
    /\ calls' = calls + 1
    /\ from \in {NoCursor, cursor}
    /\ call' = [call EXCEPT ![c] =
         [at |-> "load", now |-> time, filter |-> filter, from |-> from, cards |-> {},
          fresh |-> {}, last |-> NoCursor, tier |-> 1, alone |-> TRUE]]
    /\ UNCHANGED <<time, tables, cursor, deals>>

Newer(v, w) == grants[v] > grants[w] \/ (grants[v] = grants[w] /\ v < w)

\* Mutant: who was seen is not shown again.
EligibleUnseen(c) == {w \in Candidates : InForce(w, call[c].now) /\ seenAt[w] = 0}

\* What the query of loadExistingGrants selects, before its LIMIT.
Eligible(c) ==
    LET r == call[c] IN
    {w \in Candidates :
        /\ InForce(w, r.now)
        /\ r.from # NoCursor =>
             grants[w] < r.from.since \/ (grants[w] = r.from.since /\ w > r.from.who)}

\* The first rows of it; rows of one second come in any order without a cursor.
Leading(c, first) ==
    /\ first \subseteq Eligible(c)
    /\ Cardinality(first) <= Page
    /\ Cardinality(first) < Page => first = Eligible(c)
    /\ \A v \in first, w \in Eligible(c) \ first :
         IF call[c].from = NoCursor THEN grants[v] >= grants[w] ELSE Newer(v, w)

Final(first, w) == w \in first /\ \A v \in first : grants[v] >= grants[w]

(* loadExistingGrants: what is granted already comes first. *)
LoadGrants(c) ==
    /\ Is(c, "load")
    /\ \E first \in SUBSET Candidates :
         /\ Leading(c, first)
         /\ \E end \in Cursors :
              /\ IF first = {} THEN end = NoCursor
                 ELSE /\ Final(first, end.who) /\ end.since = grants[end.who]
                      /\ call[c].from # NoCursor => \A v \in first \ {end.who} : Newer(v, end.who)
              /\ call' = [call EXCEPT
                   ![c].at = IF Cardinality(first) < Page THEN "search" ELSE "answer",
                   ![c].cards = {[who |-> w, since |-> grants[w]] : w \in first},
                   ![c].last = end]
    /\ UNCHANGED <<calls, time, tables, cursor, deals>>

Wanted(r) == Page - Cardinality(r.cards)

\* Mutant: one tier less.
WidensLess(r) == r.tier + 1 < r.filter.reach
Widens(r) == r.tier < r.filter.reach

\* The rows of a tier: everybody in the cell, also those of nearer tiers.
InCell(r) ==
    {w \in Candidates :
        /\ Cell[w] <= r.tier /\ standing[w] = "listed" /\ w \in r.filter.who
        /\ seenAt[w] = 0 /\ ~InForce(w, r.now)}

\* LIMIT counts those that were collected from a nearer tier again.
Found(r) ==
    {w \in InCell(r) :
        Cardinality({v \in InCell(r) : Rank[v] < Rank[w]}) < Wanted(r) - Cardinality(r.fresh)}

(* One round of generateGrants. *)
Search(c) ==
    /\ Is(c, "search")
    /\ LET r     == call[c]
           new   == Found(r) \ r.fresh
           fresh == r.fresh \cup new
           more  == Cardinality(fresh) < Wanted(r) /\ Widens(r)
       IN  \E end \in Cursors :
             /\ IF new = {} THEN end = r.last
                ELSE /\ end.since = r.now /\ end.who \in new
                     /\ \A w \in new : Rank[w] <= Rank[end.who]
             /\ call' = [call EXCEPT
                  ![c].at = IF more THEN "search" ELSE IF fresh = {} THEN "answer" ELSE "persist",
                  ![c].tier = IF more THEN @ + 1 ELSE @,
                  ![c].fresh = fresh, ![c].last = end]
    /\ UNCHANGED <<calls, time, tables, cursor, deals>>

\* Mutant: seen when it is liked or passed.
PersistUnseen(c) ==
    /\ Is(c, "persist")
    /\ LET r == call[c] IN
         /\ grants' = [w \in Candidates |-> IF w \in r.fresh THEN r.now ELSE grants[w]]
         /\ deals' = [w \in Candidates |-> IF w \in r.fresh THEN deals[w] + 1 ELSE deals[w]]
         /\ call' = [Apart(c) EXCEPT ![c].at = "answer",
                ![c].cards = @ \cup {[who |-> w, since |-> r.now] : w \in r.fresh}]
    /\ UNCHANGED <<calls, time, filter, standing, seenAt, cursor>>

(* persistGrants: INSERT OR REPLACE the grant, INSERT OR IGNORE the ledger. *)
Persist(c) ==
    /\ Is(c, "persist")
    /\ LET r == call[c] IN
         /\ grants' = [w \in Candidates |-> IF w \in r.fresh THEN r.now ELSE grants[w]]
         /\ seenAt' = [w \in Candidates |->
                         IF w \in r.fresh /\ seenAt[w] = 0 THEN r.now ELSE seenAt[w]]
         /\ deals' = [w \in Candidates |-> IF w \in r.fresh THEN deals[w] + 1 ELSE deals[w]]
         /\ call' = [Apart(c) EXCEPT ![c].at = "answer",
                ![c].cards = @ \cup {[who |-> w, since |-> r.now] : w \in r.fresh}]
    /\ UNCHANGED <<calls, time, filter, standing, cursor>>

\* hydrate leaves out those whose account is not active any more.
Shown(r) == {k \in r.cards : standing[k.who] # "away"}

Answer(c) ==
    /\ Is(c, "answer")
    /\ cursor' = IF Cardinality(Shown(call[c])) >= Page THEN call[c].last ELSE NoCursor
    /\ call' = [call EXCEPT ![c] = Free]
    /\ UNCHANGED <<calls, time, tables, deals>>

\* An error of D1 or an evicted isolate; the deck may be left behind.
Abandon(c) ==
    /\ call[c] # Free
    /\ call' = [call EXCEPT ![c] = Free]
    /\ UNCHANGED <<calls, time, tables, cursor, deals>>

-----------------------------------------------------------------------------
(* What others do to the tables *)

\* A like presents the grant and consumes it; a block takes it away.
UseGrant(w) ==
    /\ grants[w] # 0
    /\ grants' = [grants EXCEPT ![w] = 0]
    /\ call' = Nobody
    /\ UNCHANGED <<calls, time, filter, standing, seenAt, cursor, deals>>

\* A candidate hides its profile, pauses, resumes.
Move(w, s) ==
    /\ standing[w] # s
    /\ standing' = [standing EXCEPT ![w] = s]
    /\ call' = Nobody
    /\ UNCHANGED <<calls, time, filter, grants, seenAt, cursor, deals>>

\* The housekeeper; a grant of that age is over.
PurgeLedger(w) ==
    /\ seenAt[w] # 0 /\ seenAt[w] + SeenLife < time
    /\ seenAt' = [seenAt EXCEPT ![w] = 0]
    /\ deals' = [deals EXCEPT ![w] = 0]
    /\ call' = Nobody
    /\ UNCHANGED <<calls, time, filter, standing, grants, cursor>>

Pass ==
    /\ time < LastTime
    /\ \A c \in Calls : call[c] # Free => time < call[c].now + CallSpan
    /\ time' = time + 1
    /\ UNCHANGED <<calls, tables, call, cursor, deals>>

CallStep(c) ==
    \/ \E f \in Filters : UpsertPrefs(c, f)
    \/ \E from \in Cursors : Ask(c, from)
    \/ DropDeck(c) \/ LoadGrants(c) \/ Search(c) \/ Persist(c)
    \/ Answer(c) \/ Abandon(c)

DeckNext ==
    \/ \E c \in Calls : CallStep(c)
    \/ \E w \in Candidates :
         UseGrant(w) \/ PurgeLedger(w)
    \/ \E w \in Movers, s \in {"listed", "hidden", "away"} : Move(w, s)
    \/ Pass

DeckSpec == DeckInit /\ [][DeckNext]_deckVars

-----------------------------------------------------------------------------
DeckTypeOK ==
    /\ time \in Moments
    /\ filter \in Filters
    /\ standing \in [Candidates -> {"listed", "hidden", "away"}]
    /\ grants \in [Candidates -> 0..LastTime]
    /\ seenAt \in [Candidates -> 0..LastTime]
    /\ call \in [Calls -> {Free} \cup DeckRequests]
    /\ calls \in 0..MaxCalls
    /\ cursor \in Cursors
    /\ deals \in [Candidates -> Nat]

Fits(w, f) == w \in f.who /\ Cell[w] <= f.reach

(* service.ts:425-428: a face is not dealt again, tomorrow or when the     *)
(* preferences change, for as long as the ledger is kept: at most once by  *)
(* every request of the member that can be in flight at a time.            *)
DealtOnce == \A w \in Candidates : deals[w] <= Cardinality(Calls)

Quiet(c) == Is(c, "answer") /\ call[c].alone
FirstPage(c) == Quiet(c) /\ call[c].from = NoCursor /\ Cardinality(call[c].cards) < Page

(* service.ts:219-220: a response that is lost burns nobody.  A first page *)
(* with room left is the whole deck, with the tokens that likes will be    *)
(* checked against, unless something changed while it was put together.    *)
NothingBurned ==
    \A c \in Calls : FirstPage(c) =>
        call[c].cards = {[who |-> w, since |-> grants[w]] :
                            w \in {v \in Candidates : InForce(v, call[c].now)}}

Remaining(c) == {w \in Candidates : standing[w] = "listed" /\ seenAt[w] = 0 /\ Fits(w, call[c].filter)
                                    /\ ~InForce(w, call[c].now)}

(* A page with room left leaves out only people farther away than somebody *)
(* it deals anew: the nearest tier that has anybody is dealt in full.      *)
NobodyNearer ==
    \A c \in Calls : Quiet(c) /\ Cardinality(call[c].cards) < Page =>
        \A w \in Remaining(c) : \E v \in call[c].fresh : Cell[v] < Cell[w]

(* service.ts:234: no cursor is the end of the deck.  (Violated: the LIMIT *)
(* of a farther tier is used up by those of the nearer ones.)              *)
EndIsEnd ==
    \A c \in Calls : Quiet(c) /\ Cardinality(Shown(call[c])) < Page => Remaining(c) = {}
=============================================================================
