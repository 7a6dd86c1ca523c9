------------------------------ MODULE Matching ------------------------------
(***************************************************************************)
(* Likes, matches, blocks, unmatching, account deletion and the discovery  *)
(* grants that authorise a like, as the matcher, block, deletion and       *)
(* discovery services write them to D1.                                    *)
(*                                                                         *)
(* D1 runs one statement (or one batch) at a time; between two awaited     *)
(* statements of a handler any other handler may run.  So every request is *)
(* a handler that starts (Begin), then executes one statement per action,  *)
(* and may be cut off before any of them (Abort: a D1 error is thrown out  *)
(* of the service, or the isolate is evicted).                             *)
(*                                                                         *)
(* A statement that only touches od_discovery_quotas is not an action      *)
(* here: Quota.tla has that table.  A request the quota check refuses      *)
(* writes nothing, so it is a stuttering step.                             *)
(***************************************************************************)
EXTENDS Integers, FiniteSets

CONSTANTS
    Members,        \* member ids
    Procs,          \* handlers that can be in flight at once
    Ops,            \* the operations clients call in this instance
    GrantTTL,       \* ticks a grant lives (CANDIDATE_GRANT_TTL)
    SeenRetention,  \* ticks a seen row is kept by the housekeeper
    MaxSpan,        \* ticks a discovery request may span
    MaxClock,       \* bound on the clock
    MayFail         \* whether handlers are cut off

AllOps == {"like", "revoke", "discover", "block", "unblock", "unmatch", "delete"}

ASSUME OpsAssumption == Ops \subseteq AllOps
ASSUME TimeAssumption ==
    /\ GrantTTL \in Nat \ {0} /\ SeenRetention \in Nat /\ MaxSpan \in Nat /\ MaxClock \in Nat
    /\ SeenRetention >= GrantTTL + 2 * MaxSpan - 1
ASSUME FailAssumption == MayFail \in BOOLEAN

VARIABLES
    clock,      \* seconds, in ticks
    deleted,    \* members whose status is 'deleted'
    grants,     \* od_candidate_grants: <<viewer, candidate>> -> second of issue, or Never
    seen,       \* od_seen_candidates: <<viewer, candidate>> -> seen_at, or Never
    intents,    \* od_intents: <<from, to>> -> state, or "none"
    matches,    \* od_matches: <<member_a, member_b>> -> state, or "none"
    notified,   \* od_match_notifications: <<recipient, other>>
    blocks,     \* od_blocks: <<blocker, blocked>>
    handler,    \* per process: the request in flight and the statement it is at
    granted,    \* history: pairs that were ever granted
    cut         \* history: likes cut off between the intent and the notifications

rows == <<grants, seen, intents, matches, notified, blocks>>
history == <<granted, cut>>
vars == <<clock, deleted, rows, handler, history>>

-----------------------------------------------------------------------------
(* Shapes *)

Never == -1
Times == 0..MaxClock
Pairs == {x \in Members \X Members : x[1] # x[2]}
Swap(x) == <<x[2], x[1]>>
Involving(m) == {x \in Pairs : x[1] = m \/ x[2] = m}

ClosedStates == {"unmatched_a", "unmatched_b", "blocked_a"}
IntentStates == {"none", "active", "revoked"}
MatchStates == {"none", "active"} \cup ClosedStates

LikeSteps == {"like.consume", "like.intent", "like.reciprocal", "like.match", "like.notify"}
PairSteps == LikeSteps \cup
    {"revoke", "unblock", "discover.persist",
     "block.insert", "block.matches", "block.intents", "block.grants",
     "unmatch.a", "unmatch.b"}
DeleteSteps ==
    {"delete.member", "delete.intents", "delete.matches", "delete.blocks", "delete.grants"}

\* The statement an operation awaits first.
FirstStep == [op \in AllOps |->
    CASE op = "like" -> "like.consume"        [] op = "discover" -> "discover.persist"
      [] op = "block" -> "block.insert"       [] op = "unmatch" -> "unmatch.a"
      [] op = "delete" -> "delete.member"     [] OTHER -> op]

(* A handler names its pair <<caller, target>>, a deletion the caller      *)
(* alone; "time" is the token of the grant a like presents, or the second  *)
(* whose rows a deck was read from.                                        *)
Targets(op) == IF op = "delete" THEN {<<m, m>> : m \in Members} ELSE Pairs
Idle == [at |-> "idle"]
PairHandlers == [at : PairSteps, pair : Pairs, time : Times]
DeleteHandlers == [at : DeleteSteps, pair : Targets("delete"), time : Times]
Handlers == {Idle} \cup PairHandlers \cup DeleteHandlers

At(p, step) == handler[p].at = step
Goto(p, step) == handler' = [handler EXCEPT ![p].at = step]
Return(p) == handler' = [handler EXCEPT ![p] = Idle]
Me(p) == handler[p].pair[1]
Both(p) == {handler[p].pair, Swap(handler[p].pair)}

-----------------------------------------------------------------------------
(* Reads *)

Live(x) == grants[x] # Never /\ grants[x] + GrantTTL > clock

\* The rows generateGrants can return for viewer x[1].
Eligible(x) ==
    /\ x[2] \notin deleted
    /\ seen[x] = Never
    /\ x \notin blocks /\ Swap(x) \notin blocks
    /\ ~Live(x)

MatchActive(x) == matches[x] = "active" \/ matches[Swap(x)] = "active"
MatchRow(x) == matches[x] # "none" \/ matches[Swap(x)] # "none"

\* checkDirectMessagePolicy for a sender and a recipient that differ.
DmDecision(x) ==
    IF x \in blocks \/ Swap(x) \in blocks THEN "blocked"
    ELSE IF MatchActive(x) THEN "allowed" ELSE "not-matched"

-----------------------------------------------------------------------------
Init ==
    /\ clock = 0
    /\ deleted = {}
    /\ grants = [x \in Pairs |-> Never]
    /\ seen = [x \in Pairs |-> Never]
    /\ intents = [x \in Pairs |-> "none"]
    /\ matches = [x \in Pairs |-> "none"]
    /\ notified = {}
    /\ blocks = {}
    /\ handler = [p \in Procs |-> Idle]
    /\ granted = {}
    /\ cut = {}

(* A request passes ensureMember, and a like presents a token that has not *)
(* expired at the handler's "now"; a like with any other token changes     *)
(* nothing.  Deletion does not call ensureMember.                          *)
Begin(p, op, x, t) ==
    /\ handler[p] = Idle
    /\ x[1] \notin deleted \/ op = "delete"
    /\ CASE op = "like" -> t + GrantTTL > clock
         [] op = "discover" -> t = clock /\ Eligible(x)
         [] OTHER -> t = 0
    /\ handler' = [handler EXCEPT ![p] = [at |-> FirstStep[op], pair |-> x, time |-> t]]
    /\ UNCHANGED <<clock, deleted, rows, history>>

-----------------------------------------------------------------------------
(* intent.like *)

\* Mutant: the number of deleted rows is not looked at.
LikeConsumeUnchecked(p) ==
    /\ At(p, "like.consume")
    /\ grants' = [grants EXCEPT ![handler[p].pair] = Never]
    /\ Goto(p, "like.intent")
    /\ UNCHANGED <<clock, deleted, seen, intents, matches, notified, blocks, history>>

\* DELETE of the exact grant: one row changed, or the like is refused.
LikeConsume(p) ==
    /\ At(p, "like.consume")
    /\ LET x == handler[p].pair IN
       IF grants[x] = handler[p].time
       THEN grants' = [grants EXCEPT ![x] = Never] /\ Goto(p, "like.intent")
       ELSE Return(p) /\ UNCHANGED grants
    /\ UNCHANGED <<clock, deleted, seen, intents, matches, notified, blocks, history>>

\* INSERT OR IGNORE: a row that exists, in whatever state, is left alone.
LikeIntent(p) ==
    /\ At(p, "like.intent")
    /\ LET x == handler[p].pair IN
       intents' = IF intents[x] = "none" THEN [intents EXCEPT ![x] = "active"] ELSE intents
    /\ Goto(p, "like.reciprocal")
    /\ UNCHANGED <<clock, deleted, grants, seen, matches, notified, blocks, history>>

\* Mutant: the read is answered by a replica that may lag.
LikeReciprocalStale(p) ==
    /\ At(p, "like.reciprocal")
    /\ \/ intents[Swap(handler[p].pair)] = "active" /\ Goto(p, "like.match")
       \/ Return(p)
    /\ UNCHANGED <<clock, deleted, rows, history>>

\* SELECT of an active like the other way round.
LikeReciprocal(p) ==
    /\ At(p, "like.reciprocal")
    /\ IF intents[Swap(handler[p].pair)] = "active" THEN Goto(p, "like.match") ELSE Return(p)
    /\ UNCHANGED <<clock, deleted, rows, history>>

\* Mutant: INSERT OR REPLACE, as the block and grant tables are written.
LikeMatchReplace(p) ==
    /\ At(p, "like.match")
    /\ matches' = [matches EXCEPT ![handler[p].pair] = "active", ![Swap(handler[p].pair)] = "none"]
    /\ Goto(p, "like.notify")
    /\ UNCHANGED <<clock, deleted, grants, seen, intents, notified, blocks, history>>

\* Mutant: the match id hashes the keys in the order of the request.
LikeMatchUnsorted(p) ==
    /\ At(p, "like.match")
    /\ LET x == handler[p].pair IN
       matches' = IF matches[x] # "none" THEN matches ELSE [matches EXCEPT ![x] = "active"]
    /\ Goto(p, "like.notify")
    /\ UNCHANGED <<clock, deleted, grants, seen, intents, notified, blocks, history>>

\* INSERT OR IGNORE: match_id is the same for both orientations of a pair.
LikeMatch(p) ==
    /\ At(p, "like.match")
    /\ LET x == handler[p].pair IN
       matches' = IF MatchRow(x) THEN matches ELSE [matches EXCEPT ![x] = "active"]
    /\ Goto(p, "like.notify")
    /\ UNCHANGED <<clock, deleted, grants, seen, intents, notified, blocks, history>>

\* Mutant: only the caller is notified.
LikeNotifyCaller(p) ==
    /\ At(p, "like.notify")
    /\ notified' = notified \cup {handler[p].pair}
    /\ Return(p)
    /\ UNCHANGED <<clock, deleted, grants, seen, intents, matches, blocks, history>>

\* One batch writes both notifications; then the response says match_created.
LikeNotify(p) ==
    /\ At(p, "like.notify")
    /\ notified' = notified \cup Both(p)
    /\ Return(p)
    /\ UNCHANGED <<clock, deleted, grants, seen, intents, matches, blocks, history>>

Revoke(p) ==
    /\ At(p, "revoke")
    /\ LET x == handler[p].pair IN
       intents' = IF intents[x] = "none" THEN intents ELSE [intents EXCEPT ![x] = "revoked"]
    /\ Return(p)
    /\ UNCHANGED <<clock, deleted, grants, seen, matches, notified, blocks, history>>

-----------------------------------------------------------------------------
(* discovery.get_candidates: Begin reads the eligible rows, persistGrants  *)
(* writes grant and ledger in one batch.  The read is first-unconstrained, *)
(* so the rows may be older than the request: its "now", which becomes the *)
(* token, lies anywhere from the second the rows show to the write.        *)

DiscoverPersist(p) ==
    /\ At(p, "discover.persist")
    /\ LET x == handler[p].pair IN
       \E now \in handler[p].time..clock :
         /\ grants' = [grants EXCEPT ![x] = now]
         /\ seen' = IF seen[x] = Never THEN [seen EXCEPT ![x] = now] ELSE seen
         /\ granted' = granted \cup {x}
    /\ Return(p)
    /\ UNCHANGED <<clock, deleted, intents, matches, notified, blocks, cut>>

\* discovery.update_preferences drops the viewer's deck, not the ledger.
DropDeck(m) ==
    /\ m \notin deleted /\ "discover" \in Ops
    /\ \E x \in Pairs : x[1] = m /\ grants[x] # Never
    /\ grants' = [x \in Pairs |-> IF x[1] = m THEN Never ELSE grants[x]]
    /\ UNCHANGED <<clock, deleted, seen, intents, matches, notified, blocks, handler, history>>

-----------------------------------------------------------------------------
(* block.create, block.remove, unmatch.create *)

BlockInsert(p) ==
    /\ At(p, "block.insert")
    /\ blocks' = blocks \cup {handler[p].pair}
    /\ Goto(p, "block.matches")
    /\ UNCHANGED <<clock, deleted, grants, seen, intents, matches, notified, history>>

\* Whatever state the row is in.
BlockMatches(p) ==
    /\ At(p, "block.matches")
    /\ matches' = [x \in Pairs |->
         IF x \in Both(p) /\ matches[x] # "none" THEN "blocked_a" ELSE matches[x]]
    /\ Goto(p, "block.intents")
    /\ UNCHANGED <<clock, deleted, grants, seen, intents, notified, blocks, history>>

BlockIntents(p) ==
    /\ At(p, "block.intents")
    /\ intents' = [x \in Pairs |->
         IF x \in Both(p) /\ intents[x] # "none" THEN "revoked" ELSE intents[x]]
    /\ Goto(p, "block.grants")
    /\ UNCHANGED <<clock, deleted, grants, seen, matches, notified, blocks, history>>

\* Mutant: only the blocker's own grant is deleted.
BlockGrantsOneWay(p) ==
    /\ At(p, "block.grants")
    /\ grants' = [grants EXCEPT ![handler[p].pair] = Never]
    /\ Return(p)
    /\ UNCHANGED <<clock, deleted, seen, intents, matches, notified, blocks, history>>

BlockGrants(p) ==
    /\ At(p, "block.grants")
    /\ grants' = [x \in Pairs |-> IF x \in Both(p) THEN Never ELSE grants[x]]
    /\ Return(p)
    /\ UNCHANGED <<clock, deleted, seen, intents, matches, notified, blocks, history>>

Unblock(p) ==
    /\ At(p, "unblock")
    /\ blocks' = blocks \ {handler[p].pair}
    /\ Return(p)
    /\ UNCHANGED <<clock, deleted, grants, seen, intents, matches, notified, history>>

\* Mutant: the second statement is never tried.
UnmatchAOnly(p) ==
    /\ At(p, "unmatch.a")
    /\ LET x == handler[p].pair IN
       matches' = IF matches[x] = "active" THEN [matches EXCEPT ![x] = "unmatched_a"] ELSE matches
    /\ Return(p)
    /\ UNCHANGED <<clock, deleted, grants, seen, intents, notified, blocks, history>>

\* Tried as member_a first; only if no row changed, as member_b.
UnmatchA(p) ==
    /\ At(p, "unmatch.a")
    /\ LET x == handler[p].pair IN
       IF matches[x] = "active"
       THEN matches' = [matches EXCEPT ![x] = "unmatched_a"] /\ Return(p)
       ELSE UNCHANGED matches /\ Goto(p, "unmatch.b")
    /\ UNCHANGED <<clock, deleted, grants, seen, intents, notified, blocks, history>>

UnmatchB(p) ==
    /\ At(p, "unmatch.b")
    /\ LET y == Swap(handler[p].pair) IN
       matches' = IF matches[y] = "active"
                  THEN [matches EXCEPT ![y] = "unmatched_b"] ELSE matches
    /\ Return(p)
    /\ UNCHANGED <<clock, deleted, grants, seen, intents, notified, blocks, history>>

-----------------------------------------------------------------------------
(* account.delete, and profile.resume, which sets the status of a deleted  *)
(* member back to active                                                   *)

DeleteMember(p) ==
    /\ At(p, "delete.member")
    /\ deleted' = deleted \cup {Me(p)}
    /\ Goto(p, "delete.intents")
    /\ UNCHANGED <<clock, rows, history>>

DeleteIntents(p) ==
    /\ At(p, "delete.intents")
    /\ intents' = [x \in Pairs |->
         IF x[1] = Me(p) /\ intents[x] # "none" THEN "revoked" ELSE intents[x]]
    /\ Goto(p, "delete.matches")
    /\ UNCHANGED <<clock, deleted, grants, seen, matches, notified, blocks, history>>

DeleteMatches(p) ==
    /\ At(p, "delete.matches")
    /\ matches' = [x \in Pairs |->
         IF x \in Involving(Me(p)) /\ matches[x] = "active" THEN "unmatched_a" ELSE matches[x]]
    /\ Goto(p, "delete.blocks")
    /\ UNCHANGED <<clock, deleted, grants, seen, intents, notified, blocks, history>>

DeleteBlocks(p) ==
    /\ At(p, "delete.blocks")
    /\ blocks' = blocks \ Involving(Me(p))
    /\ Goto(p, "delete.grants")
    /\ UNCHANGED <<clock, deleted, grants, seen, intents, matches, notified, history>>

DeleteGrants(p) ==
    /\ At(p, "delete.grants")
    /\ grants' = [x \in Pairs |-> IF x \in Involving(Me(p)) THEN Never ELSE grants[x]]
    /\ Return(p)
    /\ UNCHANGED <<clock, deleted, seen, intents, matches, notified, blocks, history>>

Resume(m) ==
    /\ m \in deleted
    /\ deleted' = deleted \ {m}
    /\ UNCHANGED <<clock, rows, handler, history>>

-----------------------------------------------------------------------------
(* Failures, time and the housekeeper *)

Abort(p) ==
    /\ MayFail /\ handler[p] # Idle
    /\ Return(p)
    /\ cut' = IF handler[p].at \in {"like.reciprocal", "like.match", "like.notify"}
              THEN cut \cup Both(p) ELSE cut
    /\ UNCHANGED <<clock, deleted, rows, granted>>

\* A discovery request is over within MaxSpan ticks of the rows it read.
Tick ==
    /\ clock < MaxClock
    /\ \A p \in Procs : At(p, "discover.persist") => clock < handler[p].time + MaxSpan
    /\ clock' = clock + 1
    /\ UNCHANGED <<deleted, rows, handler, history>>

\* The housekeeper deletes up to a batch of rows at a time; one by one here.
PruneGrant(x) ==
    /\ grants[x] # Never /\ grants[x] + GrantTTL < clock
    /\ grants' = [grants EXCEPT ![x] = Never]
    /\ UNCHANGED <<clock, deleted, seen, intents, matches, notified, blocks, handler, history>>

\* Mutant: the cutoff is a tick early.
PurgeSeenEarly(x) ==
    /\ seen[x] # Never /\ seen[x] <= clock - SeenRetention
    /\ seen' = [seen EXCEPT ![x] = Never]
    /\ UNCHANGED <<clock, deleted, grants, intents, matches, notified, blocks, handler, history>>

PurgeSeen(x) ==
    /\ seen[x] # Never /\ seen[x] < clock - SeenRetention
    /\ seen' = [seen EXCEPT ![x] = Never]
    /\ UNCHANGED <<clock, deleted, grants, intents, matches, notified, blocks, handler, history>>

-----------------------------------------------------------------------------
LikeStep(p) == LikeConsume(p) \/ LikeIntent(p) \/ LikeReciprocal(p) \/ LikeMatch(p) \/ LikeNotify(p)
BlockStep(p) == BlockInsert(p) \/ BlockMatches(p) \/ BlockIntents(p) \/ BlockGrants(p)
UnmatchStep(p) == UnmatchA(p) \/ UnmatchB(p)
DeleteStep(p) ==
    DeleteMember(p) \/ DeleteIntents(p) \/ DeleteMatches(p) \/ DeleteBlocks(p) \/ DeleteGrants(p)

\* The next statement of a request in flight.
Step(p) ==
    \/ LikeStep(p) \/ Revoke(p) \/ DiscoverPersist(p)
    \/ BlockStep(p) \/ Unblock(p) \/ UnmatchStep(p) \/ DeleteStep(p)

Next ==
    \/ \E p \in Procs : Step(p) \/ Abort(p)
    \/ \E p \in Procs, op \in Ops : \E x \in Targets(op), t \in 0..clock : Begin(p, op, x, t)
    \/ \E m \in Members : DropDeck(m) \/ Resume(m)
    \/ \E x \in Pairs : PruneGrant(x) \/ PurgeSeen(x)
    \/ Tick

Spec == Init /\ [][Next]_vars

(* A request in flight keeps going: its promise continuations are always   *)
(* run, and D1 answers every statement.                                    *)
FairSpec == Spec /\ \A p \in Procs : WF_vars(Step(p))

-----------------------------------------------------------------------------
TypeOK ==
    /\ clock \in Times
    /\ deleted \subseteq Members
    /\ grants \in [Pairs -> Times \cup {Never}]
    /\ seen \in [Pairs -> Times \cup {Never}]
    /\ intents \in [Pairs -> IntentStates]
    /\ matches \in [Pairs -> MatchStates]
    /\ notified \subseteq Pairs
    /\ blocks \subseteq Pairs
    /\ handler \in [Procs -> Handlers]
    /\ granted \subseteq Pairs
    /\ cut \subseteq Pairs

\* A like for either member of x has been recorded and is not settled yet.
Pending(p, x) ==
    handler[p].at \in {"like.reciprocal", "like.match"} /\ x \in Both(p)

(* Two people who like each other are matched.  Whatever the order in      *)
(* which two like handlers interleave their insert and their reciprocal    *)
(* read, the read of one of them sees the other: if both likes are active  *)
(* and no like of the pair is between insert and match row, and none was   *)
(* cut off there, the pair has a match row.                                *)
MutualLikesMatch ==
    \A x \in Pairs :
        /\ intents[x] = "active" /\ intents[Swap(x)] = "active"
        /\ x \notin cut
        /\ \A p \in Procs : ~Pending(p, x)
        => MatchRow(x)

(* A match is earned: a pair has a match row only if discovery showed each *)
(* to the other and each recorded a like, however requests are replayed,   *)
(* raced, cut off, blocked or unblocked in between.                        *)
MatchIsEarned ==
    \A x \in Pairs : MatchRow(x) =>
        /\ x \in granted /\ Swap(x) \in granted
        /\ intents[x] # "none" /\ intents[Swap(x)] # "none"

(* One pair, one row: match rows are keyed by the sorted pair, so the two  *)
(* orientations never both exist (the unmatch and DM queries rely on it),  *)
(* and both parties of a row are notified unless the like that created it  *)
(* is still to do so or was cut off.                                       *)
OneRowBothNotified ==
    \A x \in Pairs : matches[x] # "none" =>
        /\ matches[Swap(x)] = "none"
        /\ {x, Swap(x)} \subseteq notified
           \/ x \in cut
           \/ \E p \in Procs : At(p, "like.notify") /\ x \in Both(p)

(* A match that was ended stays ended: after an unmatch, a block (even one *)
(* removed again) or a deletion has closed a match row, no step of any     *)
(* handler lets the pair exchange direct messages again.                   *)
ClosedStaysClosed ==
    [][\A x \in Pairs : matches[x] \in ClosedStates =>
          matches'[x] \in ClosedStates /\ DmDecision(x)' # "allowed"]_vars

(* While a grant can still be liked the ledger hides the person from a     *)
(* fresh deck, although grants expire, are re-issued over old rows, and    *)
(* the ledger keeps its first timestamp and is purged by age.              *)
SeenCoversGrant == \A x \in Pairs : Live(x) => seen[x] # Never

(* The abstract specification, with a recorded like for an intent row in   *)
(* any state and a stage for the state of the match row.                   *)
Stage(x) == IF MatchActive(x) THEN "matched" ELSE IF MatchRow(x) THEN "parted" ELSE "apart"
Promise == INSTANCE Courtship WITH
    liked <- {x \in Pairs : intents[x] # "none"},
    stage <- [x \in Pairs |-> Stage(x)]
CourtshipSpec == Promise!Spec

AllIdle == \A p \in Procs : handler[p] = Idle

(* docs/opendating/CLIENT-INTEGRATION.md:289-291: while a block stands and *)
(* nothing is in flight, the pair has no active match.                     *)
BlockEndsTheMatch == AllIdle => \A x \in blocks : ~MatchActive(x)

(* Once nothing is in flight, nothing is open between the two of a block,  *)
(* and nothing of a deleted account: no match, no like, no grant. That is  *)
(* what docs/opendating/CLIENT-INTEGRATION.md says of blocking (289-293)   *)
(* and of deleting (331), and three services have to see to it: whatever   *)
(* was done before, in either direction, is closed, and nothing else opens *)
(* again what they closed.                                                 *)
Severed ==
    AllIdle =>
        /\ \A x \in blocks :
             ~MatchActive(x) /\ \A y \in {x, Swap(x)} : intents[y] # "active" /\ ~Live(y)
        /\ \A m \in deleted : \A x \in Involving(m) :
             /\ matches[x] # "active"
             /\ x[1] = m => intents[x] # "active"
             /\ ~Live(x)

(* An unmatch that runs to its end leaves no active match, whichever of    *)
(* the two is stored as member_a.                                          *)
UnmatchTakesHold ==
    [][\A p \in Procs : \A x \in Pairs :
         UnmatchStep(p) /\ handler'[p] = Idle /\ x = handler[p].pair => ~MatchActive(x)']_vars

(* Two active likes lead to a match row, or one of them is withdrawn, when *)
(* handlers run to their end.                                              *)
MutualLikesLeadToMatch ==
    \A x \in Pairs :
        (intents[x] = "active" /\ intents[Swap(x)] = "active") ~>
            (MatchRow(x) \/ intents[x] = "revoked" \/ intents[Swap(x)] = "revoked")
=============================================================================
