------------------------------ MODULE Delivery ------------------------------
(***************************************************************************)
(* How the events that match one filter reach the subscribers: the regional*)
(* Durable Objects, each with a query cache of its own, the cache of the   *)
(* colo they run in, the reads of D1, and the broadcast of what is new.    *)
(*                                                                         *)
(* Every event saved is a version of the database; a result is the version *)
(* it was read at, and holds the events 1..v.  A bookmark names a version  *)
(* too: a read at a bookmark is answered by a replica at least as new.  A  *)
(* Durable Object runs one piece of code at a time; handlers interleave    *)
(* where they await D1, the cache of the colo or another object (an await  *)
(* of the object's own storage lets nothing else in).                      *)
(***************************************************************************)
EXTENDS Integers, Sequences

CONSTANTS
    DOs,            \* the regional Durable Objects
    Colo,           \* DOs that run in the same colo share a cache
    Sessions,       \* WebSocket sessions
    Home,           \* the Durable Object of a session
    Procs,          \* handlers that can be in flight at once
    Ops,            \* the operations of this instance
    Indexed,        \* whether the filter has kinds, authors or tags
    OneAtATime,     \* whether a client waits for one message to be handled
    Mishaps,        \* what may fail or be lost: queries, puts, saves, broadcasts, isolates, entries
    EdgeTTL,        \* 300000 ms, in ticks
    LocalTTL,       \* QUERY_CACHE_TTL, in ticks
    Lag,            \* ticks a replica may lag
    MaxSpan,        \* ticks a message may take to handle
    MaxClock,       \* bound on the clock
    MaxVersion      \* bound on the versions

ASSUME DeliveryPlaces == Colo \in [DOs -> DOs] /\ Home \in [Sessions -> DOs]
ASSUME DeliveryProcs == "nobody" \notin Procs
ASSUME DeliveryModes ==
    /\ Ops \subseteq {"req", "event", "reply", "close", "reconnect"} /\ {Indexed, OneAtATime} \subseteq BOOLEAN
    /\ Mishaps \subseteq {"query", "put", "save", "broadcast", "isolate", "entry"}
ASSUME DeliveryTimes ==
    /\ EdgeTTL \in Nat /\ LocalTTL \in Nat \ {0} /\ Lag \in Nat /\ MaxSpan \in Nat
    /\ MaxClock \in Nat /\ MaxVersion \in Nat \ {0}

VARIABLES
    clock,      \* in ticks
    savedAt,    \* when each version was saved; the first is there from the start
    edge,       \* per colo and bookmark: the cached result, or None
    cache,      \* queryCache, per Durable Object and bookmark
    active,     \* activeQueries: the handler that runs the query, or Nobody
    bookmark,   \* per session; 0 is 'first-unconstrained'
    open,       \* per session: whether it has a subscription with the filter
    notices,    \* per Durable Object: broadcasts on their way to it
    handler,    \* per process: the message in flight and the statement it is at
    wrote,      \* history: the last version the session itself has saved
    owed        \* history: saved since a subscription, neither sent to it nor lost to a failure

caches == <<edge, cache, active>>
history == <<wrote, owed>>
vars == <<clock, savedAt, caches, bookmark, open, notices, handler, history>>

\* No entry.
None == [v |-> -1, at |-> 0]
Nobody == "nobody"
Times == 0..MaxClock
Versions == 1..MaxVersion
Bookmarks == 0..MaxVersion
\* The version of a result; 0 is the empty result of a failed query.
Results == 0..MaxVersion
Entries == [v : Results, at : Times]
version == Len(savedAt)

ReqSteps == {"join", "edge", "fill", "local", "query", "store", "put", "answer"}
Idle == [at |-> "idle"]
(* of is the handler whose query is waited for; own is history: the last   *)
(* version the session had saved when the message arrived.                 *)
Reqs == [at : ReqSteps, s : Sessions, b : Bookmarks, v : Results, of : Procs, since : Times,
         own : Results]
Writes == [at : {"save", "save.reply"}, s : Sessions, v : {0}, since : Times]
    \cup [at : {"announce", "announce.reply"}, s : Sessions, v : Versions, since : Times]
Handlers == {Idle} \cup Reqs \cup Writes

At(p, step) == handler[p].at = step
Return(p) == handler' = [handler EXCEPT ![p] = Idle]
Goto(p, step) == handler' = [handler EXCEPT ![p].at = step]
\* Goes on to a step with a result.
Keep(p, step, v) == handler' = [handler EXCEPT ![p].at = step, ![p].v = v]
Here(p) == Home[handler[p].s]
Key(p) == handler[p].b
Ready(s) == OneAtATime => \A p \in Procs : handler[p] # Idle => handler[p].s # s

Init ==
    /\ clock = 0
    /\ savedAt = <<0>>
    /\ edge = [c \in DOs |-> [b \in Bookmarks |-> None]]
    /\ cache = [d \in DOs |-> [b \in Bookmarks |-> None]]
    /\ active = [d \in DOs |-> [b \in Bookmarks |-> Nobody]]
    /\ bookmark = [s \in Sessions |-> 0]
    /\ open = [s \in Sessions |-> FALSE]
    /\ notices = [d \in DOs |-> {}]
    /\ handler = [p \in Procs |-> Idle]
    /\ wrote = [s \in Sessions |-> 0]
    /\ owed = [s \in Sessions |-> {}]

-----------------------------------------------------------------------------
(* REQ *)

(* The subscription is stored before the query.  A query for the same      *)
(* filter and bookmark that is in flight is waited for; if D1 has answered *)
(* it already, its result is there.                                        *)
Req(p, s) ==
    /\ "req" \in Ops /\ handler[p] = Idle /\ Ready(s)
    /\ LET b == bookmark[s]
           q == active[Home[s]][b]
           msg == [at |-> "edge", s |-> s, b |-> b, v |-> 0, of |-> p, since |-> clock,
                   own |-> wrote[s]]
       IN  handler' = [handler EXCEPT ![p] =
             IF q = Nobody THEN msg
             ELSE IF At(q, "query") THEN [msg EXCEPT !.at = "join", !.of = q]
             ELSE [msg EXCEPT !.at = "answer", !.v = handler[q].v]]
    /\ open' = [open EXCEPT ![s] = TRUE]
    /\ owed' = [owed EXCEPT ![s] = {}]
    /\ UNCHANGED <<clock, savedAt, caches, bookmark, notices, wrote>>

\* Mutant: the age of the entry is left to the cache to enforce.
EdgeUnaged(p) ==
    /\ At(p, "edge")
    /\ LET e == edge[Colo[Here(p)]][Key(p)] IN
       IF e # None THEN Keep(p, "fill", e.v) ELSE Goto(p, "local")
    /\ UNCHANGED <<clock, savedAt, caches, bookmark, open, notices, history>>

\* The colo's cache comes first; an entry that is too old is deleted.
Edge(p) ==
    /\ At(p, "edge")
    /\ LET e == edge[Colo[Here(p)]][Key(p)] IN
       IF e # None /\ clock - e.at <= EdgeTTL
       THEN Keep(p, "fill", e.v) /\ UNCHANGED edge
       ELSE Goto(p, "local") /\ edge' = [edge EXCEPT ![Colo[Here(p)]][Key(p)] = None]
    /\ UNCHANGED <<clock, savedAt, cache, active, bookmark, open, notices, history>>

\* What the colo had goes into the local cache, with a new timestamp.
Fill(p) ==
    /\ At(p, "fill")
    /\ cache' = [cache EXCEPT ![Here(p)][Key(p)] = [v |-> handler[p].v, at |-> clock]]
    /\ Goto(p, "answer")
    /\ UNCHANGED <<clock, savedAt, edge, active, bookmark, open, notices, history>>

Local(p) ==
    /\ At(p, "local")
    /\ LET c == cache[Here(p)][Key(p)] IN
       IF c # None /\ clock - c.at < LocalTTL
       THEN Keep(p, "answer", c.v) /\ UNCHANGED active
       ELSE Goto(p, "query") /\ active' = [active EXCEPT ![Here(p)][Key(p)] = p]
    /\ UNCHANGED <<clock, savedAt, edge, cache, bookmark, open, notices, history>>

\* The versions a replica at least as new as the bookmark may be at.
Readable(b) ==
    {v \in b..version : v >= 1 /\ \A e \in 1..version : savedAt[e] <= clock - Lag => e <= v}

(* queryEvents.  An error is answered with an empty result, without a      *)
(* bookmark.  Whoever waits for the query is given the same result.        *)
Query(p) ==
    /\ At(p, "query")
    /\ \E v \in Readable(Key(p)) \cup (IF "query" \in Mishaps THEN {0} ELSE {}) :
         handler' = [q \in Procs |->
           IF q = p THEN [handler[p] EXCEPT !.at = "store", !.v = v]
           ELSE IF At(q, "join") /\ handler[q].of = p
           THEN [handler[q] EXCEPT !.at = "answer", !.v = v] ELSE handler[q]]
    /\ UNCHANGED <<clock, savedAt, caches, bookmark, open, notices, history>>

Store(p) ==
    /\ At(p, "store")
    /\ cache' = [cache EXCEPT ![Here(p)][Key(p)] = [v |-> handler[p].v, at |-> clock]]
    /\ Goto(p, "put")
    /\ UNCHANGED <<clock, savedAt, edge, active, bookmark, open, notices, history>>

\* A put that fails is logged.  Whichever query is active, it is forgotten.
Put(p) ==
    /\ At(p, "put")
    /\ \/ edge' = [edge EXCEPT ![Colo[Here(p)]][Key(p)] = [v |-> handler[p].v, at |-> clock]]
       \/ "put" \in Mishaps /\ UNCHANGED edge
    /\ active' = [active EXCEPT ![Here(p)][Key(p)] = Nobody]
    /\ Goto(p, "answer")
    /\ UNCHANGED <<clock, savedAt, cache, bookmark, open, notices, history>>

\* The session takes the bookmark of the result; the events and EOSE are sent.
Answer(p) ==
    /\ At(p, "answer")
    /\ LET s == handler[p].s
           v == handler[p].v
       IN  /\ bookmark' = IF v = 0 THEN bookmark ELSE [bookmark EXCEPT ![s] = v]
           /\ owed' = [owed EXCEPT ![s] = @ \ 1..v]
    /\ Return(p)
    /\ UNCHANGED <<clock, savedAt, caches, open, notices, wrote>>

-----------------------------------------------------------------------------
(* EVENT, stored and announced by the Durable Object, and the reply of a   *)
(* service, stored and announced on behalf of an extension                 *)

Write(p, s, op) ==
    /\ op \in Ops /\ handler[p] = Idle /\ Ready(s) /\ version < MaxVersion
    /\ handler' = [handler EXCEPT ![p] =
         [at |-> IF op = "reply" THEN "save.reply" ELSE "save", s |-> s, v |-> 0, since |-> clock]]
    /\ UNCHANGED <<clock, savedAt, caches, bookmark, open, notices, history>>

Saved ==
    /\ version < MaxVersion
    /\ savedAt' = Append(savedAt, clock)
    /\ owed' = [s \in Sessions |-> IF open[s] THEN owed[s] \cup {version + 1} ELSE owed[s]]

Save(p) ==
    /\ At(p, "save") /\ Saved
    /\ Keep(p, "announce", version + 1)
    /\ UNCHANGED <<clock, caches, bookmark, open, notices, wrote>>

SaveReply(p) ==
    /\ At(p, "save.reply") /\ Saved
    /\ Keep(p, "announce.reply", version + 1)
    /\ UNCHANGED <<clock, caches, bookmark, open, notices, wrote>>

\* Every entry of the filter is found through the index, if it is in it.
Invalidated(d) == IF Indexed THEN [cache EXCEPT ![d] = [b \in Bookmarks |-> None]] ELSE cache

\* broadcastToLocalSessions.
Sent(d, v) == [s \in Sessions |-> IF Home[s] = d THEN owed[s] \ {v} ELSE owed[s]]

\* broadcastEvent: to the sessions here, and to the other Durable Objects.
Broadcast(d, v) ==
    /\ owed' = Sent(d, v)
    /\ notices' = [o \in DOs |-> IF o = d THEN notices[o] ELSE notices[o] \cup {v}]

\* Mutant: the session's bookmark is left as it is.
AnnounceUnmarked(p) ==
    /\ At(p, "announce")
    /\ wrote' = [wrote EXCEPT ![handler[p].s] = handler[p].v]
    /\ cache' = Invalidated(Here(p))
    /\ Broadcast(Here(p), handler[p].v)
    /\ Return(p)
    /\ UNCHANGED <<clock, savedAt, edge, active, bookmark, open>>

\* Mutant: the event is sent to the other regions only.
AnnounceAway(p) ==
    /\ At(p, "announce")
    /\ bookmark' = [bookmark EXCEPT ![handler[p].s] = handler[p].v]
    /\ wrote' = [wrote EXCEPT ![handler[p].s] = handler[p].v]
    /\ cache' = Invalidated(Here(p))
    /\ notices' = [o \in DOs |-> IF o = Here(p) THEN notices[o] ELSE notices[o] \cup {handler[p].v}]
    /\ Return(p)
    /\ UNCHANGED <<clock, savedAt, edge, active, open, owed>>

Announce(p) ==
    /\ At(p, "announce")
    /\ bookmark' = [bookmark EXCEPT ![handler[p].s] = handler[p].v]
    /\ wrote' = [wrote EXCEPT ![handler[p].s] = handler[p].v]
    /\ cache' = Invalidated(Here(p))
    /\ Broadcast(Here(p), handler[p].v)
    /\ Return(p)
    /\ UNCHANGED <<clock, savedAt, edge, active, open>>

\* Neither the bookmark nor the caches here are touched.
AnnounceReply(p) ==
    /\ At(p, "announce.reply")
    /\ Broadcast(Here(p), handler[p].v)
    /\ Return(p)
    /\ UNCHANGED <<clock, savedAt, caches, bookmark, open, wrote>>

\* handleDOBroadcast.
Receive(d, v) ==
    /\ v \in notices[d]
    /\ notices' = [notices EXCEPT ![d] = @ \ {v}]
    /\ cache' = Invalidated(d)
    /\ owed' = Sent(d, v)
    /\ UNCHANGED <<clock, savedAt, edge, active, bookmark, open, handler, wrote>>

-----------------------------------------------------------------------------
\* A broadcast that fails is not tried again.
Lose(d, v) ==
    /\ "broadcast" \in Mishaps /\ v \in notices[d]
    /\ notices' = [notices EXCEPT ![d] = @ \ {v}]
    /\ owed' = Sent(d, v)
    /\ UNCHANGED <<clock, savedAt, caches, bookmark, open, handler, wrote>>

\* D1 fails, before the insert or after it: the event is not announced.
Abort(p) ==
    /\ "save" \in Mishaps /\ handler[p].at \in {"save", "announce", "save.reply", "announce.reply"}
    /\ owed' = [s \in Sessions |-> owed[s] \ {handler[p].v}]
    /\ Return(p)
    /\ UNCHANGED <<clock, savedAt, caches, bookmark, open, notices, wrote>>

(* The isolate of a Durable Object is gone: its handlers, caches and       *)
(* WebSockets with it.  The sessions are those its clients open again.     *)
Crash(d) ==
    /\ "isolate" \in Mishaps
    /\ \E p \in Procs : handler[p] # Idle /\ Here(p) = d
    /\ LET lost == {handler[p].v : p \in {q \in Procs :
                       handler[q].at \in {"announce", "announce.reply"} /\ Here(q) = d}}
       IN  owed' = [s \in Sessions |-> IF Home[s] = d THEN {} ELSE owed[s] \ lost]
    /\ cache' = [cache EXCEPT ![d] = [b \in Bookmarks |-> None]]
    /\ active' = [active EXCEPT ![d] = [b \in Bookmarks |-> Nobody]]
    /\ handler' = [p \in Procs |->
         IF handler[p] # Idle /\ Here(p) = d THEN Idle ELSE handler[p]]
    /\ bookmark' = [s \in Sessions |-> IF Home[s] = d THEN 0 ELSE bookmark[s]]
    /\ open' = [s \in Sessions |-> IF Home[s] = d THEN FALSE ELSE open[s]]
    /\ wrote' = [s \in Sessions |-> IF Home[s] = d THEN 0 ELSE wrote[s]]
    /\ UNCHANGED <<clock, savedAt, edge, notices>>

\* cleanupQueryCache, cleanup, or hibernation of the object, on account of the other filters.
Evict(d, b) ==
    /\ "entry" \in Mishaps /\ cache[d][b] # None
    /\ cache' = [cache EXCEPT ![d][b] = None]
    /\ UNCHANGED <<clock, savedAt, edge, active, bookmark, open, notices, handler, history>>

CloseSubscription(s) ==
    /\ "close" \in Ops /\ open[s] /\ Ready(s)
    /\ open' = [open EXCEPT ![s] = FALSE]
    /\ owed' = [owed EXCEPT ![s] = {}]
    /\ UNCHANGED <<clock, savedAt, caches, bookmark, notices, handler, wrote>>

\* The client closes the WebSocket, with nothing in flight, and opens another.
Reconnect(s) ==
    /\ "reconnect" \in Ops /\ \A p \in Procs : handler[p] # Idle => handler[p].s # s
    /\ bookmark[s] # 0 \/ open[s]
    /\ bookmark' = [bookmark EXCEPT ![s] = 0]
    /\ open' = [open EXCEPT ![s] = FALSE]
    /\ wrote' = [wrote EXCEPT ![s] = 0]
    /\ owed' = [owed EXCEPT ![s] = {}]
    /\ UNCHANGED <<clock, savedAt, caches, notices, handler>>

Tick ==
    /\ clock < MaxClock
    /\ \A p \in Procs : handler[p] # Idle => clock < handler[p].since + MaxSpan
    /\ clock' = clock + 1
    /\ UNCHANGED <<savedAt, caches, bookmark, open, notices, handler, history>>

ReqStep(p) ==
    Edge(p) \/ Fill(p) \/ Local(p) \/ Query(p) \/ Store(p) \/ Put(p) \/ Answer(p)
WriteStep(p) == Save(p) \/ Announce(p) \/ SaveReply(p) \/ AnnounceReply(p) \/ Abort(p)

Next ==
    \/ \E p \in Procs : ReqStep(p) \/ WriteStep(p)
    \/ \E p \in Procs, s \in Sessions : Req(p, s) \/ Write(p, s, "event") \/ Write(p, s, "reply")
    \/ \E s \in Sessions : CloseSubscription(s) \/ Reconnect(s)
    \/ \E d \in DOs : \/ Crash(d)
                      \/ \E v \in Versions : Receive(d, v) \/ Lose(d, v)
                      \/ \E b \in Bookmarks : Evict(d, b)
    \/ Tick

Spec == Init /\ [][Next]_vars

-----------------------------------------------------------------------------
TypeOK ==
    /\ clock \in Times
    /\ savedAt \in Seq(Times) /\ version \in Versions
    /\ edge \in [DOs -> [Bookmarks -> Entries \cup {None}]]
    /\ cache \in [DOs -> [Bookmarks -> Entries \cup {None}]]
    /\ active \in [DOs -> [Bookmarks -> Procs \cup {Nobody}]]
    /\ bookmark \in [Sessions -> Bookmarks]
    /\ open \in [Sessions -> BOOLEAN]
    /\ notices \in [DOs -> SUBSET Versions]
    /\ handler \in [Procs -> Handlers]
    /\ wrote \in [Sessions -> Results]
    /\ owed \in [Sessions -> SUBSET Versions]

(* Read your writes (durable-object.ts:961-964): a REQ a client sends once *)
(* its event was accepted is answered with that event, whichever of the    *)
(* caches, queries of others or lagging replicas the answer comes from,    *)
(* unless the query failed.                                                *)
ReadYourWrites ==
    [][\A p \in Procs : Answer(p) /\ handler[p].v # 0 => handler[p].own <= handler[p].v]_vars

\* The empty result of a query that failed.
Failed(v) == "query" \in Mishaps /\ v = 0

(* The caches bound how old an answer can be: a REQ is answered with every *)
(* event that was saved longer ago than a replica lags and both caches     *)
(* keep a result, one filled from the other, and messages take.            *)
BoundedStaleness ==
    [][\A p \in Procs : Answer(p) /\ ~Failed(handler[p].v) =>
         \A e \in 1..version :
            savedAt[e] + Lag + EdgeTTL + LocalTTL + 2 * MaxSpan <= handler[p].since
               => e <= handler[p].v]_vars

Quiet == \A p \in Procs : handler[p] = Idle
Announced == \A d \in DOs : notices[d] = {}

(* Nothing falls between the stored events and the live ones: what is      *)
(* saved after a subscription was stored has been sent to it once nothing  *)
(* is in flight, as part of the answer or as it was broadcast, from        *)
(* whatever region it was published and whatever the caches held, unless   *)
(* the failure of a save, a broadcast or an isolate lost it.               *)
NoGap == Quiet /\ Announced => \A s \in Sessions : owed[s] = {}
=============================================================================
