--------------------------- MODULE DeliveryProofs ---------------------------
(* Proofs about Delivery, for any number of regions, sessions, handlers    *)
(* and versions, and for any lag and lifetime of the caches.               *)
EXTENDS Delivery, TLAPS

Assumptions == DeliveryPlaces /\ DeliveryProcs /\ DeliveryModes /\ DeliveryTimes

\* Handlers of a REQ that has its turn, with the fields a step may change.
Busy(p) == handler[p] # Idle
Reading(p) == handler[p].at \in ReqSteps

(* Putting a REQ in its place. *)
LEMMA MoveReq ==
    ASSUME handler \in [Procs -> Handlers], NEW p \in Procs, NEW h \in Reqs,
           handler' = [handler EXCEPT ![p] = h]
    PROVE  handler' \in [Procs -> Handlers]
BY DEF Handlers

(* Putting an entry in a cache. *)
LEMMA SetEntry ==
    ASSUME NEW D, NEW B, NEW E, NEW f \in [D -> [B -> E]], NEW d \in D, NEW b \in B, NEW e \in E
    PROVE  [f EXCEPT ![d][b] = e] \in [D -> [B -> E]]
OBVIOUS

(* A handler at a step of a REQ is a REQ. *)
LEMMA ReadingIsReq ==
    ASSUME handler \in [Procs -> Handlers], NEW p \in Procs, Reading(p)
    PROVE  handler[p] \in Reqs
BY DEF Handlers, Idle, Writes, Reading, ReqSteps

(* A handler at a step of an EVENT or a reply is a write. *)
LEMMA WritingIsWrite ==
    ASSUME handler \in [Procs -> Handlers], NEW p \in Procs,
           handler[p].at \in {"save", "announce", "save.reply", "announce.reply"}
    PROVE  handler[p] \in Writes
BY DEF Handlers, Idle, Reqs, ReqSteps

(* The fields a step of a REQ may change keep it a REQ. *)
LEMMA KeepReq ==
    ASSUME NEW h \in Reqs, NEW step \in ReqSteps, NEW v \in Results
    PROVE  /\ [h EXCEPT !.at = step] \in Reqs
           /\ [h EXCEPT !.at = step, !.v = v] \in Reqs
BY DEF Reqs

(* A query that is active is one a handler of that Durable Object runs,    *)
(* for that bookmark, and has not finished.                                *)
ActiveRuns ==
    \A d \in DOs, b \in Bookmarks : active[d][b] # Nobody =>
       LET q == active[d][b] IN
       handler[q].at \in {"query", "store", "put"} /\ Here(q) = d /\ Key(q) = b

(* Every step keeps the types. *)
LEMMA TypeInductive ==
    ASSUME Assumptions, TypeOK, ActiveRuns, [Next]_vars
    PROVE  TypeOK'
<1> USE DEF version
<1>1. /\ MaxVersion \in Nat \ {0} /\ MaxClock \in Nat
      /\ Home \in [Sessions -> DOs] /\ Colo \in [DOs -> DOs]
  BY DEF Assumptions, DeliveryTimes, DeliveryPlaces
<1> DEFINE E == Entries \cup {None}
<1>2. ASSUME NEW e \in E, e # None PROVE e.v \in Results
  BY <1>2 DEF Entries
<1>3. ASSUME NEW v \in Results PROVE [v |-> v, at |-> clock] \in E
  BY <1>3 DEF Entries, TypeOK
<1>4. ASSUME NEW p \in Procs, Reading(p)
      PROVE  /\ handler[p] \in Reqs /\ Here(p) \in DOs /\ Colo[Here(p)] \in DOs
             /\ Key(p) \in Bookmarks /\ handler[p].v \in Results /\ handler[p].s \in Sessions
  BY <1>1, <1>4, ReadingIsReq DEF TypeOK, Reqs, Here, Key
<1>5. ASSUME NEW p \in Procs, handler[p].at \in {"save", "announce", "save.reply", "announce.reply"}
      PROVE  /\ handler[p] \in Writes /\ Here(p) \in DOs
             /\ handler[p].v \in Results /\ handler[p].s \in Sessions
             /\ handler[p].at \in {"announce", "announce.reply"} => handler[p].v \in Versions
  <2>1. handler[p] \in Writes
    BY <1>5, WritingIsWrite DEF TypeOK
  <2>2. /\ handler[p].v \in Results /\ handler[p].s \in Sessions
        /\ handler[p].at \in {"announce", "announce.reply"} => handler[p].v \in Versions
    BY <1>1, <2>1 DEF Writes, Results, Versions
  <2> QED
    BY <1>1, <2>1, <2>2 DEF Here
<1>6. ASSUME NEW p \in Procs, Return(p) PROVE handler' \in [Procs -> Handlers]
  BY <1>6 DEF TypeOK, Return, Handlers
<1>7. ASSUME NEW p \in Procs, Reading(p), NEW step \in ReqSteps, Goto(p, step)
      PROVE  handler' \in [Procs -> Handlers]
  <2> DEFINE h == [handler[p] EXCEPT !.at = step]
  <2>1. h \in Reqs /\ handler' = [handler EXCEPT ![p] = h]
    BY <1>4, <1>7, KeepReq DEF Goto, Bookmarks
  <2> QED
    BY <2>1, MoveReq DEF TypeOK
<1>8. ASSUME NEW p \in Procs, Reading(p), NEW step \in ReqSteps, NEW v \in Results, Keep(p, step, v)
      PROVE  handler' \in [Procs -> Handlers]
  <2> DEFINE h == [handler[p] EXCEPT !.at = step, !.v = v]
  <2>1. h \in Reqs /\ handler' = [handler EXCEPT ![p] = h]
    BY <1>4, <1>8, KeepReq DEF Keep
  <2> QED
    BY <2>1, MoveReq DEF TypeOK
<1>9. ASSUME NEW d \in DOs PROVE Invalidated(d) \in [DOs -> [Bookmarks -> E]]
  BY <1>9 DEF Invalidated, TypeOK
<1>10. ASSUME NEW d \in DOs, NEW v \in Results PROVE Sent(d, v) \in [Sessions -> SUBSET Versions]
  BY <1>10 DEF Sent, TypeOK
<1>11. CASE UNCHANGED vars
  BY <1>11 DEF vars, caches, history, TypeOK
<1>12. ASSUME NEW p \in Procs, NEW s \in Sessions, Req(p, s) PROVE TypeOK'
  <2> DEFINE b == bookmark[s]
             q == active[Home[s]][b]
             msg == [at |-> "edge", s |-> s, b |-> b, v |-> 0, of |-> p, since |-> clock,
                     own |-> wrote[s]]
  <2>1. msg \in Reqs /\ q \in Procs \cup {Nobody}
    BY <1>1 DEF Reqs, ReqSteps, TypeOK, Bookmarks, Results
  <2>2. CASE q = Nobody
    <3>1. handler' = [handler EXCEPT ![p] = msg]
      BY <1>12, <2>2 DEF Req
    <3> QED
      BY <1>12, <2>1, <3>1, MoveReq DEF Req, TypeOK, caches
  <2>3. CASE q # Nobody /\ At(q, "query")
    <3> DEFINE h == [msg EXCEPT !.at = "join", !.of = q]
    <3>1. handler' = [handler EXCEPT ![p] = h] /\ h \in Reqs
      BY <1>12, <2>1, <2>3 DEF Req, Reqs, ReqSteps
    <3> QED
      BY <1>12, <3>1, MoveReq DEF Req, TypeOK, caches
  <2>4. CASE q # Nobody /\ ~At(q, "query")
    <3> DEFINE h == [msg EXCEPT !.at = "answer", !.v = handler[q].v]
    <3>1. handler[q].v \in Results
      BY <1>1, <1>4, <2>1, <2>4 DEF ActiveRuns, TypeOK, Reading, ReqSteps
    <3>2. handler' = [handler EXCEPT ![p] = h] /\ h \in Reqs
      BY <1>12, <2>1, <2>4, <3>1 DEF Req, Reqs, ReqSteps
    <3> QED
      BY <1>12, <3>2, MoveReq DEF Req, TypeOK, caches
  <2> QED
    BY <2>2, <2>3, <2>4
<1>13. ASSUME NEW p \in Procs, Edge(p) PROVE TypeOK'
  <2> DEFINE e == edge[Colo[Here(p)]][Key(p)]
  <2>1. Reading(p) /\ e \in E /\ None \in E
    BY <1>4, <1>13 DEF Edge, At, Reading, ReqSteps, TypeOK
  <2>2. CASE e # None /\ clock - e.at <= EdgeTTL
    <3>1. Keep(p, "fill", e.v) /\ UNCHANGED edge /\ "fill" \in ReqSteps /\ e.v \in Results
      BY <1>2, <1>13, <2>1, <2>2 DEF Edge, ReqSteps
    <3>2. handler' \in [Procs -> Handlers]
      BY <1>8, <2>1, <3>1
    <3> QED
      BY <1>13, <3>1, <3>2 DEF Edge, TypeOK, history
  <2>3. CASE ~(e # None /\ clock - e.at <= EdgeTTL)
    <3>1. Goto(p, "local") /\ "local" \in ReqSteps
      BY <1>13, <2>3 DEF Edge, ReqSteps
    <3>2. edge' = [edge EXCEPT ![Colo[Here(p)]][Key(p)] = None]
      BY <1>13, <2>3 DEF Edge
    <3>3. edge' \in [DOs -> [Bookmarks -> E]]
      BY <1>4, <2>1, <3>2, SetEntry DEF TypeOK
    <3>4. handler' \in [Procs -> Handlers]
      BY <1>7, <2>1, <3>1
    <3> QED
      BY <1>13, <3>3, <3>4 DEF Edge, TypeOK, history
  <2> QED
    BY <2>2, <2>3
<1>14. ASSUME NEW p \in Procs, Fill(p) PROVE TypeOK'
  <2>1. Reading(p) /\ "answer" \in ReqSteps
    BY <1>14 DEF Fill, At, Reading, ReqSteps
  <2>2. cache' \in [DOs -> [Bookmarks -> E]]
    BY <1>3, <1>4, <1>14, <2>1, SetEntry DEF Fill, TypeOK, history
  <2>3. handler' \in [Procs -> Handlers]
    BY <1>7, <1>14, <2>1 DEF Fill
  <2> QED
    BY <1>14, <2>2, <2>3 DEF Fill, TypeOK, history
<1>15. ASSUME NEW p \in Procs, Local(p) PROVE TypeOK'
  <2> DEFINE c == cache[Here(p)][Key(p)]
  <2>1. Reading(p) /\ c \in E /\ {"answer", "query"} \subseteq ReqSteps
    BY <1>4, <1>15 DEF Local, At, Reading, ReqSteps, TypeOK
  <2>2. CASE c # None /\ clock - c.at < LocalTTL
    <3>1. Keep(p, "answer", c.v) /\ UNCHANGED active /\ c.v \in Results
      BY <1>2, <1>15, <2>1, <2>2 DEF Local
    <3>2. handler' \in [Procs -> Handlers]
      BY <1>8, <2>1, <3>1
    <3> QED
      BY <1>15, <3>1, <3>2 DEF Local, TypeOK, history
  <2>3. CASE ~(c # None /\ clock - c.at < LocalTTL)
    <3>1. Goto(p, "query") /\ active' = [active EXCEPT ![Here(p)][Key(p)] = p]
      BY <1>15, <2>3 DEF Local
    <3>2. active' \in [DOs -> [Bookmarks -> Procs \cup {Nobody}]]
      BY <1>4, <2>1, <3>1, SetEntry DEF TypeOK
    <3>3. handler' \in [Procs -> Handlers]
      BY <1>7, <2>1, <3>1
    <3> QED
      BY <1>15, <3>2, <3>3 DEF Local, TypeOK, history
  <2> QED
    BY <2>2, <2>3
<1>16. ASSUME NEW p \in Procs, Query(p) PROVE TypeOK'
  <2>1. PICK v \in Results : handler' = [q \in Procs |->
           IF q = p THEN [handler[p] EXCEPT !.at = "store", !.v = v]
           ELSE IF At(q, "join") /\ handler[q].of = p
           THEN [handler[q] EXCEPT !.at = "answer", !.v = v] ELSE handler[q]]
    <3>1. Reading(p) /\ Readable(Key(p)) \subseteq Results /\ 0 \in Results
      <4>1. Reading(p)
        BY <1>16 DEF Query, At, Reading, ReqSteps
      <4>2. Key(p) \in Nat /\ version \in Nat /\ version <= MaxVersion
        BY <1>1, <1>4, <4>1 DEF Bookmarks, TypeOK, Versions
      <4> QED
        BY <1>1, <4>1, <4>2 DEF Readable, Results
    <3> QED
      BY <1>16, <3>1 DEF Query
  <2>2. ASSUME NEW q \in Procs PROVE handler'[q] \in Handlers
    <3>1. CASE q = p
      <4>1. Reading(p) /\ "store" \in ReqSteps
        BY <1>16 DEF Query, At, Reading, ReqSteps
      <4> QED
        BY <1>4, <2>1, <3>1, <4>1, KeepReq DEF Handlers
    <3>2. CASE q # p /\ At(q, "join") /\ handler[q].of = p
      <4>1. Reading(q) /\ "answer" \in ReqSteps
        BY <3>2 DEF At, Reading, ReqSteps
      <4> QED
        BY <1>4, <2>1, <3>2, <4>1, KeepReq DEF Handlers
    <3>3. CASE q # p /\ ~(At(q, "join") /\ handler[q].of = p)
      BY <2>1, <3>3 DEF TypeOK
    <3> QED
      BY <3>1, <3>2, <3>3
  <2>3. handler' \in [Procs -> Handlers]
    BY <2>1, <2>2
  <2> QED
    BY <1>16, <2>3 DEF Query, TypeOK, caches, history
<1>17. ASSUME NEW p \in Procs, Store(p) PROVE TypeOK'
  <2>1. Reading(p) /\ "put" \in ReqSteps
    BY <1>17 DEF Store, At, Reading, ReqSteps
  <2>2. cache' \in [DOs -> [Bookmarks -> E]]
    BY <1>3, <1>4, <1>17, <2>1, SetEntry DEF Store, TypeOK
  <2>3. handler' \in [Procs -> Handlers]
    BY <1>7, <1>17, <2>1 DEF Store
  <2> QED
    BY <1>17, <2>2, <2>3 DEF Store, TypeOK, history
<1>18. ASSUME NEW p \in Procs, Put(p) PROVE TypeOK'
  <2>1. Reading(p) /\ "answer" \in ReqSteps
    BY <1>18 DEF Put, At, Reading, ReqSteps
  <2>2. edge' \in [DOs -> [Bookmarks -> E]]
    <3>1. CASE UNCHANGED edge
      BY <3>1 DEF TypeOK
    <3>2. CASE edge' = [edge EXCEPT ![Colo[Here(p)]][Key(p)] = [v |-> handler[p].v, at |-> clock]]
      BY <1>3, <1>4, <2>1, <3>2, SetEntry DEF TypeOK
    <3> QED
      BY <1>18, <3>1, <3>2 DEF Put
  <2>3. active' \in [DOs -> [Bookmarks -> Procs \cup {Nobody}]]
    BY <1>4, <1>18, <2>1, SetEntry DEF Put, TypeOK
  <2>4. handler' \in [Procs -> Handlers]
    BY <1>7, <1>18, <2>1 DEF Put
  <2> QED
    BY <1>18, <2>2, <2>3, <2>4 DEF Put, TypeOK, history
<1>19. ASSUME NEW p \in Procs, Answer(p) PROVE TypeOK'
  <2>1. Reading(p) /\ handler' \in [Procs -> Handlers]
    BY <1>6, <1>19 DEF Answer, At, Reading, ReqSteps
  <2>2. bookmark' \in [Sessions -> Bookmarks] /\ owed' \in [Sessions -> SUBSET Versions]
    BY <1>4, <1>19, <2>1 DEF Answer, TypeOK, Results, Bookmarks
  <2> QED
    BY <1>19, <2>1, <2>2 DEF Answer, TypeOK, caches
<1>20. ASSUME NEW p \in Procs, NEW s \in Sessions, NEW op \in {"event", "reply"}, Write(p, s, op)
       PROVE  TypeOK'
  <2> DEFINE h == [at |-> IF op = "reply" THEN "save.reply" ELSE "save", s |-> s, v |-> 0,
                   since |-> clock]
  <2>1. h \in Writes /\ handler' = [handler EXCEPT ![p] = h]
    BY <1>20 DEF Write, Writes, TypeOK
  <2> QED
    BY <1>20, <2>1 DEF Write, Handlers, TypeOK, caches, history
<1>21. ASSUME Saved
       PROVE  /\ savedAt' \in Seq(Times) /\ Len(savedAt') \in Versions
                            /\ version + 1 \in Versions
                            /\ owed' \in [Sessions -> SUBSET Versions]
  <2>1. version + 1 \in Versions
    BY <1>1, <1>21 DEF Saved, TypeOK, Versions
  <2> QED
    BY <1>21, <2>1 DEF Saved, TypeOK
<1>22. ASSUME NEW p \in Procs, Save(p) \/ SaveReply(p) PROVE TypeOK'
  <2>1. At(p, "save") \/ At(p, "save.reply")
    BY <1>22 DEF Save, SaveReply
  <2>2. handler[p] \in Writes
    BY <1>5, <2>1 DEF At
  <2>3. PICK step \in {"announce", "announce.reply"} : Keep(p, step, version + 1)
    BY <1>22 DEF Save, SaveReply
  <2> DEFINE h == [handler[p] EXCEPT !.at = step, !.v = version + 1]
  <2>4. h \in Writes /\ handler' = [handler EXCEPT ![p] = h]
    BY <1>21, <1>22, <2>2, <2>3 DEF Save, SaveReply, Writes, Keep
  <2>5. handler' \in [Procs -> Handlers]
    BY <2>4 DEF Handlers, TypeOK
  <2> QED
    BY <1>21, <1>22, <2>5 DEF Save, SaveReply, TypeOK, caches
<1>23. ASSUME NEW d \in DOs, NEW v \in Versions, Broadcast(d, v)
       PROVE  notices' \in [DOs -> SUBSET Versions] /\ owed' \in [Sessions -> SUBSET Versions]
  BY <1>10, <1>23 DEF Broadcast, TypeOK, Versions, Results
<1>24. ASSUME NEW p \in Procs, Announce(p) PROVE TypeOK'
  <2>1. Here(p) \in DOs /\ handler[p].v \in Versions /\ handler[p].s \in Sessions
    BY <1>5, <1>24 DEF Announce, At
  <2>2. handler' \in [Procs -> Handlers] /\ cache' \in [DOs -> [Bookmarks -> E]]
    BY <1>6, <1>9, <1>24, <2>1 DEF Announce
  <2>3. bookmark' \in [Sessions -> Bookmarks] /\ wrote' \in [Sessions -> Results]
    BY <1>1, <1>24, <2>1 DEF Announce, TypeOK, Bookmarks, Results, Versions
  <2> QED
    BY <1>23, <1>24, <2>1, <2>2, <2>3 DEF Announce, TypeOK
<1>25. ASSUME NEW p \in Procs, AnnounceReply(p) PROVE TypeOK'
  <2>1. Here(p) \in DOs /\ handler[p].v \in Versions
    BY <1>5, <1>25 DEF AnnounceReply, At
  <2>2. handler' \in [Procs -> Handlers]
    BY <1>6, <1>25 DEF AnnounceReply
  <2> QED
    BY <1>23, <1>25, <2>1, <2>2 DEF AnnounceReply, TypeOK, caches
<1>26. ASSUME NEW p \in Procs, Abort(p) PROVE TypeOK'
  BY <1>6, <1>26 DEF Abort, TypeOK, caches, history
<1>27. ASSUME NEW s \in Sessions, CloseSubscription(s) \/ Reconnect(s) PROVE TypeOK'
  <2>1. CASE CloseSubscription(s)
    BY <2>1 DEF CloseSubscription, TypeOK, caches
  <2>2. CASE Reconnect(s)
    <3>1. 0 \in Bookmarks /\ 0 \in Results
      BY <1>1 DEF Bookmarks, Results
    <3> QED
      BY <2>2, <3>1 DEF Reconnect, TypeOK, caches
  <2> QED
    BY <1>27, <2>1, <2>2
<1>28. ASSUME NEW d \in DOs, Crash(d) PROVE TypeOK'
  <2>1. None \in E /\ 0 \in Bookmarks /\ 0 \in Results /\ Idle \in Handlers
    BY <1>1 DEF Bookmarks, Results, Handlers
  <2>2. /\ cache' \in [DOs -> [Bookmarks -> E]]
        /\ active' \in [DOs -> [Bookmarks -> Procs \cup {Nobody}]]
    BY <1>28, <2>1 DEF Crash, TypeOK
  <2>3. handler' \in [Procs -> Handlers]
    BY <1>28, <2>1 DEF Crash, TypeOK
  <2>4. /\ bookmark' \in [Sessions -> Bookmarks] /\ open' \in [Sessions -> BOOLEAN]
        /\ wrote' \in [Sessions -> Results] /\ owed' \in [Sessions -> SUBSET Versions]
    BY <1>28, <2>1 DEF Crash, TypeOK
  <2> QED
    BY <1>28, <2>2, <2>3, <2>4 DEF Crash, TypeOK
<1>29. ASSUME NEW d \in DOs, NEW v \in Versions, Receive(d, v) \/ Lose(d, v) PROVE TypeOK'
  <2>0. v \in Results
    BY <1>1 DEF Versions, Results
  <2>1. notices' \in [DOs -> SUBSET Versions] /\ v \in Results
    BY <1>29, <2>0 DEF Receive, Lose, TypeOK
  <2>2. CASE Receive(d, v)
    BY <1>9, <1>10, <2>1, <2>2 DEF Receive, TypeOK
  <2>3. CASE Lose(d, v)
    BY <1>9, <1>10, <2>1, <2>3 DEF Lose, TypeOK, caches
  <2> QED
    BY <1>29, <2>2, <2>3
<1>30. ASSUME NEW d \in DOs, NEW b \in Bookmarks, Evict(d, b) PROVE TypeOK'
  BY <1>30 DEF Evict, TypeOK, history
<1>31. CASE Tick
  BY <1>1, <1>31 DEF Tick, TypeOK, Times, caches, history
<1> QED
  BY <1>11, <1>12, <1>13, <1>14, <1>15, <1>16, <1>17, <1>18, <1>19, <1>20, <1>22, <1>24, <1>25,
     <1>26, <1>27, <1>28, <1>29, <1>30, <1>31 DEF Next, ReqStep, WriteStep

(* A query goes on being active while its handler goes on with it. *)
LEMMA RunsKept ==
    ASSUME TypeOK, ActiveRuns, UNCHANGED active,
           \A q \in Procs : handler[q].at \in {"query", "store", "put"} =>
              /\ handler'[q].at \in {"query", "store", "put"}
              /\ handler'[q].s = handler[q].s /\ handler'[q].b = handler[q].b
    PROVE  ActiveRuns'
<1> SUFFICES ASSUME NEW d \in DOs, NEW b \in Bookmarks, active[d][b] # Nobody
             PROVE  /\ handler'[active[d][b]].at \in {"query", "store", "put"}
                    /\ Home[handler'[active[d][b]].s] = d /\ handler'[active[d][b]].b = b
  BY DEF ActiveRuns, Here, Key
<1>1. active[d][b] \in Procs
  BY DEF TypeOK
<1> QED
  BY <1>1 DEF ActiveRuns, Here, Key

(* A step of a handler that runs no query leaves those that do. *)
LEMMA RunsElsewhere ==
    ASSUME TypeOK, ActiveRuns, UNCHANGED active, NEW p \in Procs,
           handler[p].at \notin {"query", "store", "put"},
           \A q \in Procs \ {p} : handler'[q] = handler[q]
    PROVE  ActiveRuns'
<1> SUFFICES ASSUME NEW q \in Procs, handler[q].at \in {"query", "store", "put"}
             PROVE  handler'[q] = handler[q]
  BY RunsKept
<1> QED
  OBVIOUS

(* Every step keeps what is known of the queries that are active. *)
LEMMA RunsInductive ==
    ASSUME Assumptions, TypeOK, ActiveRuns, [Next]_vars
    PROVE  ActiveRuns'
<1>1. /\ Home \in [Sessions -> DOs] /\ Nobody \notin Procs
      /\ handler \in [Procs -> Handlers]
      /\ active \in [DOs -> [Bookmarks -> Procs \cup {Nobody}]]
  BY DEF Assumptions, DeliveryPlaces, DeliveryProcs, TypeOK, Nobody
<1>2. CASE UNCHANGED <<handler, active>>
  BY <1>2, RunsKept
<1>3. ASSUME NEW p \in Procs, NEW s \in Sessions, Req(p, s) PROVE ActiveRuns'
  <2>1. handler[p].at \notin {"query", "store", "put"}
    BY <1>3 DEF Req, Idle
  <2>2. UNCHANGED active /\ \A q \in Procs \ {p} : handler'[q] = handler[q]
    BY <1>1, <1>3 DEF Req, caches
  <2> QED
    BY <2>1, <2>2, RunsElsewhere
<1>4. ASSUME NEW p \in Procs, Edge(p) \/ Fill(p) \/ Answer(p) \/ WriteStep(p) PROVE ActiveRuns'
  <2>1. handler[p].at \notin {"query", "store", "put"}
    BY <1>4 DEF Edge, Fill, Answer, WriteStep, Save, SaveReply, Announce, AnnounceReply, Abort, At
  <2>2. UNCHANGED active
    BY <1>4 DEF Edge, Fill, Answer, WriteStep, Save, SaveReply, Announce, AnnounceReply, Abort, caches
  <2>3. \A q \in Procs \ {p} : handler'[q] = handler[q]
    BY <1>1, <1>4 DEF Edge, Fill, Answer, WriteStep, Save, SaveReply, Announce, AnnounceReply,
                      Abort, Goto, Keep, Return
  <2> QED
    BY <2>1, <2>2, <2>3, RunsElsewhere
<1>5. ASSUME NEW p \in Procs, Local(p) PROVE ActiveRuns'
  <2>1. handler[p].at = "local" /\ handler[p] \in Reqs
    BY <1>1, <1>5, ReadingIsReq DEF Local, At, Reading, ReqSteps
  <2>2. CASE UNCHANGED active
    <3>1. \A q \in Procs \ {p} : handler'[q] = handler[q]
      BY <1>1, <1>5 DEF Local, Goto, Keep
    <3> QED
      BY <2>1, <2>2, <3>1, RunsElsewhere
  <2>3. CASE Goto(p, "query") /\ active' = [active EXCEPT ![Here(p)][Key(p)] = p]
    <3>1. handler'[p] = [handler[p] EXCEPT !.at = "query"]
      BY <1>1, <2>3 DEF Goto
    <3>2. \A q \in Procs \ {p} : handler'[q] = handler[q]
      BY <1>1, <2>3 DEF Goto
    <3>3. handler'[p].at = "query" /\ handler'[p].s = handler[p].s /\ handler'[p].b = handler[p].b
      BY <2>1, <3>1 DEF Reqs
    <3>4. ASSUME NEW d \in DOs, NEW b \in Bookmarks, active'[d][b] # Nobody
          PROVE  /\ handler'[active'[d][b]].at \in {"query", "store", "put"}
                 /\ Home[handler'[active'[d][b]].s] = d /\ handler'[active'[d][b]].b = b
      <4>1. CASE d = Here(p) /\ b = Key(p)
        <5>1. active'[d][b] = p
          BY <1>1, <2>3, <4>1
        <5> QED
          BY <3>3, <4>1, <5>1 DEF Here, Key
      <4>2. CASE ~(d = Here(p) /\ b = Key(p))
        <5>1. active'[d][b] = active[d][b]
          BY <1>1, <2>3, <4>2
        <5>2. active[d][b] # p
          BY <1>1, <2>1, <3>4, <5>1 DEF ActiveRuns
        <5> QED
          BY <1>1, <3>2, <3>4, <5>1, <5>2 DEF ActiveRuns, Here, Key
      <4> QED
        BY <4>1, <4>2
    <3> QED
      BY <3>4 DEF ActiveRuns, Here, Key
  <2> QED
    BY <1>5, <2>2, <2>3 DEF Local
<1>6. ASSUME NEW p \in Procs, Query(p) PROVE ActiveRuns'
  <2>1. handler[p] \in Reqs /\ UNCHANGED active
    BY <1>1, <1>6, ReadingIsReq DEF Query, At, Reading, ReqSteps, caches
  <2>2. PICK v : handler' = [q \in Procs |->
           IF q = p THEN [handler[p] EXCEPT !.at = "store", !.v = v]
           ELSE IF At(q, "join") /\ handler[q].of = p
           THEN [handler[q] EXCEPT !.at = "answer", !.v = v] ELSE handler[q]]
    BY <1>6 DEF Query
  <2>3. ASSUME NEW q \in Procs, handler[q].at \in {"query", "store", "put"}
        PROVE  /\ handler'[q].at \in {"query", "store", "put"}
               /\ handler'[q].s = handler[q].s /\ handler'[q].b = handler[q].b
    BY <2>1, <2>2, <2>3 DEF At, Reqs
  <2> QED
    BY <2>1, <2>3, RunsKept
<1>7. ASSUME NEW p \in Procs, Store(p) PROVE ActiveRuns'
  <2>1. handler[p] \in Reqs /\ UNCHANGED active /\ handler' = [handler EXCEPT ![p].at = "put"]
    BY <1>1, <1>7, ReadingIsReq DEF Store, At, Reading, ReqSteps, Goto
  <2>2. handler'[p] = [handler[p] EXCEPT !.at = "put"] /\ \A q \in Procs \ {p} : handler'[q] = handler[q]
    BY <1>1, <2>1
  <2>3. handler'[p].at = "put" /\ handler'[p].s = handler[p].s /\ handler'[p].b = handler[p].b
    BY <2>1, <2>2 DEF Reqs
  <2> QED
    BY <2>1, <2>2, <2>3, RunsKept
<1>8. ASSUME NEW p \in Procs, Put(p) PROVE ActiveRuns'
  <2>1. active' = [active EXCEPT ![Here(p)][Key(p)] = Nobody]
    BY <1>8 DEF Put
  <2>2. \A q \in Procs \ {p} : handler'[q] = handler[q]
    BY <1>1, <1>8 DEF Put, Goto
  <2>3. ASSUME NEW d \in DOs, NEW b \in Bookmarks, active'[d][b] # Nobody
        PROVE  /\ handler'[active'[d][b]].at \in {"query", "store", "put"}
               /\ Home[handler'[active'[d][b]].s] = d /\ handler'[active'[d][b]].b = b
    <3>1. active'[d][b] = active[d][b] /\ ~(d = Here(p) /\ b = Key(p))
      BY <1>1, <2>1, <2>3
    <3>2. active[d][b] # p
      BY <2>3, <3>1 DEF ActiveRuns
    <3> QED
      BY <1>1, <2>2, <2>3, <3>1, <3>2 DEF ActiveRuns, Here, Key
  <2> QED
    BY <2>3 DEF ActiveRuns, Here, Key
<1>9. ASSUME NEW p \in Procs, NEW s \in Sessions, NEW op, Write(p, s, op) PROVE ActiveRuns'
  <2>1. handler[p].at \notin {"query", "store", "put"}
    BY <1>9 DEF Write, Idle
  <2>2. UNCHANGED active /\ \A q \in Procs \ {p} : handler'[q] = handler[q]
    BY <1>1, <1>9 DEF Write, caches
  <2> QED
    BY <2>1, <2>2, RunsElsewhere
<1>10. ASSUME NEW d \in DOs, Crash(d) PROVE ActiveRuns'
  <2>1. active' = [active EXCEPT ![d] = [b \in Bookmarks |-> Nobody]]
    BY <1>10 DEF Crash
  <2>2. \A q \in Procs : Here(q) # d => handler'[q] = handler[q]
    BY <1>10 DEF Crash
  <2>3. ASSUME NEW o \in DOs, NEW b \in Bookmarks, active'[o][b] # Nobody
        PROVE  /\ handler'[active'[o][b]].at \in {"query", "store", "put"}
               /\ Home[handler'[active'[o][b]].s] = o /\ handler'[active'[o][b]].b = b
    <3>1. o # d /\ active'[o][b] = active[o][b]
      BY <1>1, <2>1, <2>3
    <3>2. active[o][b] \in Procs /\ Here(active[o][b]) = o /\ Key(active[o][b]) = b
          /\ handler[active[o][b]].at \in {"query", "store", "put"}
      BY <1>1, <2>3, <3>1 DEF ActiveRuns
    <3>3. handler'[active[o][b]] = handler[active[o][b]]
      BY <2>2, <3>1, <3>2
    <3> QED
      BY <3>1, <3>2, <3>3 DEF Here, Key
  <2> QED
    BY <2>3 DEF ActiveRuns, Here, Key
<1>11. CASE \/ \E s \in Sessions : CloseSubscription(s) \/ Reconnect(s)
            \/ \E d \in DOs : \/ \E v \in Versions : Receive(d, v) \/ Lose(d, v)
                              \/ \E b \in Bookmarks : Evict(d, b)
            \/ Tick \/ UNCHANGED vars
  BY <1>2, <1>11 DEF CloseSubscription, Reconnect, Receive, Lose, Evict, Tick, vars, caches
<1> QED
  BY <1>3, <1>4, <1>5, <1>6, <1>7, <1>8, <1>9, <1>10, <1>11 DEF Next, ReqStep

(* The initial state has the types, and no query is active. *)
LEMMA TypeInitial ==
    ASSUME Assumptions, Init
    PROVE  TypeOK /\ ActiveRuns
<1>1. ActiveRuns
  BY DEF Init, ActiveRuns
<1>2. /\ 0 \in Times /\ 0 \in Bookmarks /\ 0 \in Results /\ 1 \in Versions
  BY DEF Assumptions, DeliveryTimes, Times, Bookmarks, Results, Versions
<1>3. savedAt \in Seq(Times) /\ version \in Versions
  BY <1>2 DEF Init, version
<1> QED
  BY <1>1, <1>2, <1>3 DEF Init, TypeOK, Handlers

(* In every reachable state the variables have their types. *)
THEOREM TypeCorrect == ASSUME Assumptions PROVE Spec => []TypeOK
<1>1. Init => TypeOK /\ ActiveRuns
  BY TypeInitial
<1>2. (TypeOK /\ ActiveRuns) /\ [Next]_vars => (TypeOK /\ ActiveRuns)'
  BY TypeInductive, RunsInductive
<1> QED
  BY <1>1, <1>2, PTL DEF Spec

-----------------------------------------------------------------------------
(* Why an answer is never older than its bookmark, nor the bookmark than   *)
(* what the session has saved, while a client sends one message at a time. *)

\* A result is kept under a bookmark it is at least as new as, or it is empty.
Keyed == \A d \in DOs, b \in Bookmarks : \A e \in {edge[d][b], cache[d][b]} : e.v <= 0 \/ b <= e.v

\* A query is waited for where it runs, with its bookmark, until it is answered.
Joined ==
    \A q \in Procs : At(q, "join") =>
       /\ At(handler[q].of, "query")
       /\ Here(handler[q].of) = Here(q) /\ Key(handler[q].of) = Key(q)

\* The bookmark of a REQ covers what the session has saved, and its result the bookmark.
Current ==
    \A p \in Procs : Reading(p) =>
       /\ handler[p].own <= Key(p) /\ wrote[handler[p].s] <= Key(p)
       /\ handler[p].v = 0 \/ Key(p) <= handler[p].v

Marked == \A s \in Sessions : wrote[s] <= bookmark[s]
Alone == \A p, q \in Procs : p # q /\ Busy(p) /\ Busy(q) => handler[p].s # handler[q].s

Order == TypeOK /\ ActiveRuns /\ Keyed /\ Joined /\ Current /\ Marked /\ Alone

(* The handlers but p stay as they are. *)
Others(p) == \A q \in Procs \ {p} : handler'[q] = handler[q]

(* What a handler at a step of a REQ is known to have. *)
LEMMA ReqFields ==
    ASSUME Assumptions, TypeOK, NEW p \in Procs, Reading(p)
    PROVE  /\ handler[p] \in Reqs /\ handler[p].s \in Sessions /\ handler[p].of \in Procs
           /\ Here(p) \in DOs /\ Colo[Here(p)] \in DOs /\ Key(p) \in Bookmarks
           /\ handler[p].v \in Nat /\ handler[p].own \in Nat /\ Key(p) \in Nat
           /\ wrote[handler[p].s] \in Nat
<1>1. handler[p] \in Reqs
  BY ReadingIsReq DEF TypeOK
<1> QED
  BY <1>1 DEF Assumptions, DeliveryPlaces, DeliveryTimes, Reqs, Here, Key, Results, Bookmarks, TypeOK

(* The caches keep only results as new as the bookmark they are kept under.*)
LEMMA KeyedInductive ==
    ASSUME Assumptions, Order, [Next]_vars
    PROVE  Keyed'
<1> USE DEF Order
<1>1. /\ edge \in [DOs -> [Bookmarks -> Entries \cup {None}]]
      /\ cache \in [DOs -> [Bookmarks -> Entries \cup {None}]]
  BY DEF TypeOK
<1>2. CASE UNCHANGED <<edge, cache>>
  BY <1>2 DEF Keyed
<1>3. ASSUME NEW f \in [DOs -> [Bookmarks -> Entries \cup {None}]], NEW d \in DOs, NEW b \in Bookmarks,
             NEW e, e.v <= 0 \/ b <= e.v,
             \A o \in DOs, k \in Bookmarks : f[o][k].v <= 0 \/ k <= f[o][k].v
      PROVE  \A o \in DOs, k \in Bookmarks :
                LET g == [f EXCEPT ![d][b] = e] IN g[o][k].v <= 0 \/ k <= g[o][k].v
  <2> TAKE o \in DOs, k \in Bookmarks
  <2>1. CASE o = d /\ k = b
    BY <1>3, <2>1
  <2>2. CASE ~(o = d /\ k = b)
    <3>1. [f EXCEPT ![d][b] = e][o][k] = f[o][k]
      BY <2>2
    <3> QED
      BY <1>3, <3>1
  <2> QED
    BY <2>1, <2>2
<1>4. None.v <= 0
  BY DEF None
<1>5. ASSUME NEW p \in Procs, Edge(p) PROVE Keyed'
  <2>1. Reading(p)
    BY <1>5 DEF Edge, At, Reading, ReqSteps
  <2>2. Colo[Here(p)] \in DOs /\ Key(p) \in Bookmarks /\ UNCHANGED cache
    BY <1>5, <2>1, ReqFields DEF Edge
  <2>3. CASE UNCHANGED edge
    BY <1>2, <2>2, <2>3
  <2>4. CASE edge' = [edge EXCEPT ![Colo[Here(p)]][Key(p)] = None]
    BY <1>1, <1>3, <1>4, <2>2, <2>4 DEF Keyed
  <2> QED
    BY <1>5, <2>3, <2>4 DEF Edge
<1>6. ASSUME NEW p \in Procs, Fill(p) \/ Store(p) PROVE Keyed'
  <2>1. Reading(p)
    BY <1>6 DEF Fill, Store, At, Reading, ReqSteps
  <2> DEFINE e == [v |-> handler[p].v, at |-> clock]
  <2>2. Here(p) \in DOs /\ Key(p) \in Bookmarks /\ (e.v <= 0 \/ Key(p) <= e.v)
    BY <2>1, ReqFields DEF Current
  <2>3. cache' = [cache EXCEPT ![Here(p)][Key(p)] = e] /\ UNCHANGED edge
    BY <1>6 DEF Fill, Store
  <2> HIDE DEF e
  <2> QED
    BY <1>1, <1>3, <2>2, <2>3 DEF Keyed
<1>7. ASSUME NEW p \in Procs, Put(p) PROVE Keyed'
  <2>1. Reading(p)
    BY <1>7 DEF Put, At, Reading, ReqSteps
  <2> DEFINE e == [v |-> handler[p].v, at |-> clock]
  <2>2. Colo[Here(p)] \in DOs /\ Key(p) \in Bookmarks /\ (e.v <= 0 \/ Key(p) <= e.v)
    BY <2>1, ReqFields DEF Current
  <2>3. UNCHANGED cache /\ (UNCHANGED edge \/ edge' = [edge EXCEPT ![Colo[Here(p)]][Key(p)] = e])
    BY <1>7 DEF Put
  <2> HIDE DEF e
  <2>4. CASE UNCHANGED edge
    BY <1>2, <2>3, <2>4
  <2>5. CASE edge' = [edge EXCEPT ![Colo[Here(p)]][Key(p)] = e]
    BY <1>1, <1>3, <2>2, <2>3, <2>5 DEF Keyed
  <2> QED
    BY <2>3, <2>4, <2>5
<1>8. ASSUME NEW d \in DOs, cache' = [cache EXCEPT ![d] = [b \in Bookmarks |-> None]], UNCHANGED edge
      PROVE  Keyed'
  <2> SUFFICES ASSUME NEW o \in DOs, NEW b \in Bookmarks
               PROVE  cache'[o][b].v <= 0 \/ b <= cache'[o][b].v
    BY <1>8 DEF Keyed
  <2> QED
    BY <1>1, <1>4, <1>8 DEF Keyed
<1>9. ASSUME NEW d \in DOs, cache' = Invalidated(d), UNCHANGED edge PROVE Keyed'
  BY <1>2, <1>8, <1>9 DEF Invalidated
<1>10. ASSUME NEW p \in Procs, Announce(p) PROVE Keyed'
  <2>1. Here(p) \in DOs
    BY <1>10, WritingIsWrite DEF Announce, At, TypeOK, Writes, Here, Assumptions, DeliveryPlaces
  <2> QED
    BY <1>9, <1>10, <2>1 DEF Announce
<1>11. ASSUME NEW d \in DOs, NEW v \in Versions, Receive(d, v) PROVE Keyed'
  BY <1>9, <1>11 DEF Receive
<1>12. ASSUME NEW d \in DOs, Crash(d) PROVE Keyed'
  BY <1>8, <1>12 DEF Crash
<1>13. ASSUME NEW d \in DOs, NEW b \in Bookmarks, Evict(d, b) PROVE Keyed'
  BY <1>1, <1>3, <1>4, <1>13 DEF Evict, Keyed
<1>14. ASSUME \/ \E p \in Procs : \/ Local(p) \/ Query(p) \/ Answer(p) \/ Save(p) \/ SaveReply(p)
                                 \/ AnnounceReply(p) \/ Abort(p)
              \/ \E p \in Procs, s \in Sessions :
                    Req(p, s) \/ Write(p, s, "event") \/ Write(p, s, "reply")
              \/ \E s \in Sessions : CloseSubscription(s) \/ Reconnect(s)
              \/ \E d \in DOs, v \in Versions : Lose(d, v)
              \/ Tick \/ UNCHANGED vars
       PROVE  Keyed'
  BY <1>2, <1>14 DEF Local, Query, Answer, Save, SaveReply, AnnounceReply, Abort, Req, Write,
     CloseSubscription, Reconnect, Lose, Tick, vars, caches
<1> QED
  BY <1>5, <1>6, <1>7, <1>10, <1>11, <1>12, <1>13, <1>14 DEF Next, ReqStep, WriteStep

(* A step of one handler leaves the others as they are. *)
LEMMA OneMoves ==
    ASSUME TypeOK, NEW p \in Procs,
           \/ Edge(p) \/ Fill(p) \/ Local(p) \/ Store(p) \/ Put(p) \/ Answer(p) \/ WriteStep(p)
           \/ \E s \in Sessions : Req(p, s) \/ Write(p, s, "event") \/ Write(p, s, "reply")
    PROVE  Others(p)
BY DEF TypeOK, Others, Edge, Fill, Local, Store, Put, Answer, WriteStep, Save, SaveReply, Announce,
       AnnounceReply, Abort, Req, Write, Goto, Keep, Return

(* A step of a REQ leaves it for the same session and bookmark. *)
LEMMA SameReq ==
    ASSUME Assumptions, TypeOK, NEW p \in Procs,
           Edge(p) \/ Fill(p) \/ Local(p) \/ Store(p) \/ Put(p)
    PROVE  /\ Reading(p) /\ ~At(p, "join") /\ ~At(p, "query") /\ handler'[p].at \in ReqSteps \ {"join"}
           /\ handler'[p].s = handler[p].s /\ handler'[p].b = handler[p].b
           /\ handler'[p].own = handler[p].own
<1>1. Reading(p) /\ ~At(p, "join") /\ ~At(p, "query")
  BY DEF Edge, Fill, Local, Store, Put, At, Reading, ReqSteps
<1>2. handler[p] \in Reqs
  BY <1>1, ReqFields
<1>3. PICK step \in ReqSteps \ {"join"} : Goto(p, step) \/ \E v : Keep(p, step, v)
  BY DEF Edge, Fill, Local, Store, Put, ReqSteps
<1>4. CASE Goto(p, step)
  <2>1. handler'[p] = [handler[p] EXCEPT !.at = step]
    BY <1>4 DEF Goto, TypeOK
  <2> QED
    BY <1>1, <1>2, <2>1 DEF Reqs
<1>5. ASSUME NEW v, Keep(p, step, v)
      PROVE  /\ handler'[p].at = step /\ handler'[p].s = handler[p].s
             /\ handler'[p].b = handler[p].b /\ handler'[p].own = handler[p].own
  <2>1. handler'[p] = [handler[p] EXCEPT !.at = step, !.v = v]
    BY <1>5 DEF Keep, TypeOK
  <2> QED
    BY <1>2, <2>1 DEF Reqs
<1> QED
  BY <1>1, <1>3, <1>4, <1>5

(* A query that is waited for stays so until it is answered. *)
LEMMA JoinedInductive ==
    ASSUME Assumptions, Order, [Next]_vars
    PROVE  Joined'
<1> USE DEF Order
<1>1. handler \in [Procs -> Handlers]
  BY DEF TypeOK
<1>2. CASE UNCHANGED handler
  BY <1>2 DEF Joined, At, Here, Key
<1>3. ASSUME NEW q \in Procs, At(q, "join")
      PROVE  handler[q].of \in Procs /\ handler[q] \in Reqs
  BY <1>3, ReqFields DEF At, Reading, ReqSteps
<1>4. ASSUME NEW p \in Procs, Others(p), ~At(p, "query"), handler'[p].at # "join"
      PROVE  Joined'
  <2> SUFFICES ASSUME NEW q \in Procs, handler'[q].at = "join"
               PROVE  /\ handler'[handler'[q].of].at = "query"
                      /\ Home[handler'[handler'[q].of].s] = Home[handler'[q].s]
                      /\ handler'[handler'[q].of].b = handler'[q].b
    BY DEF Joined, At, Here, Key
  <2>1. q # p /\ handler'[q] = handler[q] /\ At(q, "join")
    BY <1>4 DEF Others, At
  <2>2. handler[q].of \in Procs /\ handler[q].of # p
    BY <1>3, <1>4, <2>1 DEF Joined
  <2>3. handler'[handler[q].of] = handler[handler[q].of]
    BY <1>4, <2>2 DEF Others
  <2> QED
    BY <2>1, <2>3 DEF Joined, At, Here, Key
<1>5. ASSUME NEW p \in Procs, Edge(p) \/ Fill(p) \/ Local(p) \/ Store(p) \/ Put(p) PROVE Joined'
  BY <1>4, <1>5, OneMoves, SameReq
<1>6. ASSUME NEW p \in Procs, Answer(p) \/ WriteStep(p) PROVE Joined'
  <2>1. ~At(p, "query")
    BY <1>6 DEF Answer, WriteStep, Save, SaveReply, Announce, AnnounceReply, Abort, At
  <2>2. CASE Return(p)
    <3>1. handler'[p] = Idle
      BY <1>1, <2>2 DEF Return
    <3> QED
      BY <1>4, <1>6, <2>1, <3>1, OneMoves DEF Idle
  <2>3. CASE Save(p) \/ SaveReply(p)
    <3>1. handler[p] \in Writes
      BY <2>3, WritingIsWrite DEF Save, SaveReply, At, TypeOK
    <3>2. PICK step, v : step \in {"announce", "announce.reply"} /\ Keep(p, step, v)
      BY <2>3 DEF Save, SaveReply
    <3>3. handler'[p] = [handler[p] EXCEPT !.at = step, !.v = v]
      BY <1>1, <3>2 DEF Keep
    <3>4. handler'[p].at = step
      BY <3>1, <3>3 DEF Writes
    <3> QED
      BY <1>4, <1>6, <2>1, <3>2, <3>4, OneMoves
  <2> QED
    BY <1>6, <2>2, <2>3 DEF Answer, WriteStep, Announce, AnnounceReply, Abort
<1>7. ASSUME NEW p \in Procs, NEW s \in Sessions, Write(p, s, "event") \/ Write(p, s, "reply")
      PROVE  Joined'
  <2>1. ~At(p, "query") /\ handler'[p].at \in {"save", "save.reply"}
    BY <1>1, <1>7 DEF Write, At, Idle
  <2> QED
    BY <1>4, <1>7, <2>1, OneMoves
<1>8. ASSUME NEW p \in Procs, NEW s \in Sessions, Req(p, s) PROVE Joined'
  <2> DEFINE b == bookmark[s]
             r == active[Home[s]][b]
             msg == [at |-> "edge", s |-> s, b |-> b, v |-> 0, of |-> p, since |-> clock,
                     own |-> wrote[s]]
  <2>1. ~At(p, "query") /\ Others(p)
    <3>1. Others(p)
      BY <1>8, OneMoves
    <3> QED
      BY <1>8, <3>1 DEF Req, Idle, At
  <2>2. CASE r # Nobody /\ At(r, "query")
    <3>1. Home[s] \in DOs /\ b \in Bookmarks
      BY DEF TypeOK, Assumptions, DeliveryPlaces
    <3>2. r \in Procs /\ Here(r) = Home[s] /\ Key(r) = b
      BY <2>2, <3>1 DEF TypeOK, ActiveRuns
    <3>3. r # p /\ handler'[r] = handler[r]
      BY <2>1, <2>2, <3>2 DEF Others
    <3>4. handler'[p] = [msg EXCEPT !.at = "join", !.of = r]
      BY <1>1, <1>8, <2>2 DEF Req
    <3>5. handler'[p].of = r /\ handler'[p].s = s /\ handler'[p].b = b
      BY <3>4
    <3>6. ASSUME NEW q \in Procs, handler'[q].at = "join"
          PROVE  /\ handler'[handler'[q].of].at = "query"
                 /\ Home[handler'[handler'[q].of].s] = Home[handler'[q].s]
                 /\ handler'[handler'[q].of].b = handler'[q].b
      <4>1. CASE q = p
        BY <2>2, <3>2, <3>3, <3>5, <4>1 DEF At, Here, Key
      <4>2. CASE q # p
        <5>1. handler'[q] = handler[q] /\ At(q, "join")
          BY <2>1, <3>6, <4>2 DEF Others, At
        <5>2. handler[q].of \in Procs \ {p}
          BY <1>3, <2>1, <5>1 DEF Joined
        <5>3. handler'[handler[q].of] = handler[handler[q].of]
          BY <2>1, <5>2 DEF Others
        <5> QED
          BY <5>1, <5>3 DEF Joined, At, Here, Key
      <4> QED
        BY <4>1, <4>2
    <3> QED
      BY <3>6 DEF Joined, At, Here, Key
  <2>3. CASE ~(r # Nobody /\ At(r, "query"))
    <3>1. PICK h \in {msg, [msg EXCEPT !.at = "answer", !.v = handler[r].v]} : handler'[p] = h
      BY <1>1, <1>8, <2>3 DEF Req
    <3>2. CASE handler'[p] = msg
      <4>1. handler'[p].at # "join"
        BY <3>2
      <4> QED
        BY <1>4, <2>1, <4>1
    <3>3. CASE handler'[p] = [msg EXCEPT !.at = "answer", !.v = handler[r].v]
      <4>1. handler'[p].at # "join"
        BY <3>3
      <4> QED
        BY <1>4, <2>1, <4>1
    <3> QED
      BY <3>1, <3>2, <3>3
  <2> QED
    BY <2>2, <2>3
<1>9. ASSUME NEW p \in Procs, Query(p) PROVE Joined'
  <2>1. PICK v : handler' = [q \in Procs |->
           IF q = p THEN [handler[p] EXCEPT !.at = "store", !.v = v]
           ELSE IF At(q, "join") /\ handler[q].of = p
           THEN [handler[q] EXCEPT !.at = "answer", !.v = v] ELSE handler[q]]
    BY <1>9 DEF Query
  <2>2. handler[p] \in Reqs /\ handler'[p] = [handler[p] EXCEPT !.at = "store", !.v = v]
    BY <1>9, <2>1, ReqFields DEF Query, At, Reading, ReqSteps
  <2>3. handler'[p].at = "store"
    BY <2>2 DEF Reqs
  <2>4. ASSUME NEW q \in Procs, handler'[q].at = "join"
        PROVE  /\ handler'[handler'[q].of].at = "query"
               /\ Home[handler'[handler'[q].of].s] = Home[handler'[q].s]
               /\ handler'[handler'[q].of].b = handler'[q].b
    <3>1. q # p
      BY <2>3, <2>4
    <3>2. ~(At(q, "join") /\ handler[q].of = p)
      <4> SUFFICES ASSUME At(q, "join"), handler[q].of = p PROVE FALSE
        OBVIOUS
      <4>1. handler[q] \in Reqs /\ handler'[q] = [handler[q] EXCEPT !.at = "answer", !.v = v]
        BY <1>3, <2>1, <3>1
      <4>2. handler'[q].at = "answer"
        BY <4>1 DEF Reqs
      <4> QED
        BY <2>4, <4>2
    <3>3. handler'[q] = handler[q] /\ At(q, "join")
      BY <2>1, <2>4, <3>1, <3>2 DEF At
    <3>4. handler[q].of \in Procs /\ handler[q].of # p /\ At(handler[q].of, "query")
      BY <1>3, <3>2, <3>3 DEF Joined
    <3>5. handler'[handler[q].of] = handler[handler[q].of]
      BY <2>1, <3>4 DEF At
    <3> QED
      BY <3>3, <3>5 DEF Joined, At, Here, Key
  <2> QED
    BY <2>4 DEF Joined, At, Here, Key
<1>10. ASSUME NEW d \in DOs, Crash(d) PROVE Joined'
  <2>1. ASSUME NEW q \in Procs, handler'[q].at = "join"
        PROVE  /\ handler'[handler'[q].of].at = "query"
               /\ Home[handler'[handler'[q].of].s] = Home[handler'[q].s]
               /\ handler'[handler'[q].of].b = handler'[q].b
    <3>1. handler'[q] = handler[q] /\ At(q, "join") /\ Here(q) # d
      BY <1>10, <2>1 DEF Crash, At, Idle
    <3>2. handler[q].of \in Procs /\ Here(handler[q].of) # d
      BY <1>3, <3>1 DEF Joined
    <3>3. handler'[handler[q].of] = handler[handler[q].of]
      BY <1>10, <3>2 DEF Crash
    <3> QED
      BY <3>1, <3>3 DEF Joined, At, Here, Key
  <2> QED
    BY <2>1 DEF Joined, At, Here, Key
<1>11. CASE \/ \E s \in Sessions : CloseSubscription(s) \/ Reconnect(s)
            \/ \E d \in DOs : \/ \E v \in Versions : Receive(d, v) \/ Lose(d, v)
                              \/ \E b \in Bookmarks : Evict(d, b)
            \/ Tick \/ UNCHANGED vars
  BY <1>2, <1>11 DEF CloseSubscription, Reconnect, Receive, Lose, Evict, Tick, vars
<1> QED
  BY <1>5, <1>6, <1>7, <1>8, <1>9, <1>10, <1>11 DEF Next, ReqStep

(* What a REQ starts with: the bookmark of its session, and no result or   *)
(* that of a query for the same bookmark.                                  *)
LEMMA NewReq ==
    ASSUME Assumptions, Order, NEW p \in Procs, NEW s \in Sessions, Req(p, s)
    PROVE  /\ handler'[p].s = s /\ handler'[p].b = bookmark[s] /\ handler'[p].own = wrote[s]
           /\ \/ handler'[p].v = 0
              \/ \E q \in Procs : /\ Reading(q) /\ Key(q) = bookmark[s]
                                  /\ handler'[p].v = handler[q].v
<1> DEFINE r == active[Home[s]][bookmark[s]]
           msg == [at |-> "edge", s |-> s, b |-> bookmark[s], v |-> 0, of |-> p, since |-> clock,
                   own |-> wrote[s]]
<1>1. handler \in [Procs -> Handlers] /\ Home[s] \in DOs /\ bookmark[s] \in Bookmarks
  BY DEF Order, TypeOK, Assumptions, DeliveryPlaces
<1>2. CASE r = Nobody
  <2>1. handler'[p] = msg
    BY <1>1, <1>2 DEF Req
  <2> QED
    BY <2>1
<1>3. CASE r # Nobody /\ At(r, "query")
  <2>1. handler'[p] = [msg EXCEPT !.at = "join", !.of = r]
    BY <1>1, <1>3 DEF Req
  <2> QED
    BY <2>1
<1>4. CASE r # Nobody /\ ~At(r, "query")
  <2>1. handler'[p] = [msg EXCEPT !.at = "answer", !.v = handler[r].v]
    BY <1>1, <1>4 DEF Req
  <2>2. r \in Procs /\ Reading(r) /\ Key(r) = bookmark[s]
    BY <1>1, <1>4 DEF Order, TypeOK, ActiveRuns, Reading, ReqSteps
  <2> QED
    BY <2>1, <2>2
<1> QED
  BY <1>2, <1>3, <1>4

(* At most one handler works for a session. *)
LEMMA AloneInductive ==
    ASSUME Assumptions, OneAtATime, Order, [Next]_vars
    PROVE  Alone'
<1> USE DEF Order
<1>1. handler \in [Procs -> Handlers]
  BY DEF TypeOK
<1>2. ASSUME \A q \in Procs : handler'[q] = Idle \/ (Busy(q) /\ handler'[q].s = handler[q].s)
      PROVE  Alone'
  BY <1>2 DEF Alone, Busy
<1>3. ASSUME NEW p \in Procs, NEW s \in Sessions, Others(p), handler'[p].s = s, handler[p] = Idle,
             \A q \in Procs : Busy(q) => handler[q].s # s
      PROVE  Alone'
  BY <1>3 DEF Alone, Busy, Others
<1>4. ASSUME NEW p \in Procs, NEW s \in Sessions,
             Req(p, s) \/ Write(p, s, "event") \/ Write(p, s, "reply")
      PROVE  Alone'
  <2>1. Others(p)
    BY <1>4, OneMoves
  <2>2. handler[p] = Idle /\ \A q \in Procs : Busy(q) => handler[q].s # s
    BY <1>4 DEF Req, Write, Ready, Busy
  <2>3. CASE Req(p, s)
    BY <1>3, <2>1, <2>2, <2>3, NewReq
  <2>4. CASE Write(p, s, "event") \/ Write(p, s, "reply")
    <3>1. handler'[p].s = s
      BY <1>1, <2>4 DEF Write
    <3> QED
      BY <1>3, <2>1, <2>2, <3>1
  <2> QED
    BY <1>4, <2>3, <2>4
<1>5. ASSUME NEW p \in Procs, Edge(p) \/ Fill(p) \/ Local(p) \/ Store(p) \/ Put(p) PROVE Alone'
  <2>1. Others(p) /\ handler'[p].s = handler[p].s /\ Busy(p)
    BY <1>5, OneMoves, SameReq DEF Reading, ReqSteps, Idle, Busy
  <2> QED
    BY <1>2, <2>1 DEF Others, Busy
<1>6. ASSUME NEW p \in Procs, Answer(p) \/ WriteStep(p) PROVE Alone'
  <2>1. Others(p)
    BY <1>6, OneMoves
  <2>2. CASE Return(p)
    BY <1>1, <1>2, <2>1, <2>2 DEF Return, Others, Busy
  <2>3. CASE Save(p) \/ SaveReply(p)
    <3>1. handler[p] \in Writes
      BY <2>3, WritingIsWrite DEF Save, SaveReply, At, TypeOK
    <3>2. PICK step \in {"announce", "announce.reply"} : Keep(p, step, version + 1)
      BY <2>3 DEF Save, SaveReply
    <3>3. handler'[p] = [handler[p] EXCEPT !.at = step, !.v = version + 1]
      BY <1>1, <3>2 DEF Keep
    <3>4. handler'[p].s = handler[p].s /\ Busy(p)
      BY <3>1, <3>3 DEF Writes, Idle, Busy
    <3> QED
      BY <1>2, <2>1, <3>4 DEF Others, Busy
  <2> QED
    BY <1>6, <2>2, <2>3 DEF Answer, WriteStep, Announce, AnnounceReply, Abort
<1>7. ASSUME NEW p \in Procs, Query(p) PROVE Alone'
  <2>1. PICK v : handler' = [q \in Procs |->
           IF q = p THEN [handler[p] EXCEPT !.at = "store", !.v = v]
           ELSE IF At(q, "join") /\ handler[q].of = p
           THEN [handler[q] EXCEPT !.at = "answer", !.v = v] ELSE handler[q]]
    BY <1>7 DEF Query
  <2>2. ASSUME NEW q \in Procs, q = p \/ (At(q, "join") /\ handler[q].of = p)
        PROVE  Busy(q) /\ handler'[q].s = handler[q].s
    <3>0. Reading(q)
      BY <1>7, <2>2 DEF Query, At, Reading, ReqSteps
    <3>1. handler[q] \in Reqs /\ Busy(q)
      BY <3>0, ReqFields DEF Reading, ReqSteps, Busy, Idle
    <3>2. PICK step : handler'[q] = [handler[q] EXCEPT !.at = step, !.v = v]
      BY <2>1, <2>2
    <3> QED
      BY <3>1, <3>2 DEF Reqs
  <2>3. \A q \in Procs : handler'[q] = Idle \/ (Busy(q) /\ handler'[q].s = handler[q].s)
    BY <2>1, <2>2 DEF Busy
  <2> QED
    BY <1>2, <2>3
<1>8. ASSUME NEW d \in DOs, Crash(d) PROVE Alone'
  BY <1>2, <1>8 DEF Crash, Busy
<1>9. CASE \/ \E s \in Sessions : CloseSubscription(s) \/ Reconnect(s)
           \/ \E d \in DOs : \/ \E v \in Versions : Receive(d, v) \/ Lose(d, v)
                             \/ \E b \in Bookmarks : Evict(d, b)
           \/ Tick \/ UNCHANGED vars
  <2>1. UNCHANGED handler
    BY <1>9 DEF CloseSubscription, Reconnect, Receive, Lose, Evict, Tick, vars
  <2> QED
    BY <1>2, <2>1 DEF Busy
<1> QED
  BY <1>4, <1>5, <1>6, <1>7, <1>8, <1>9 DEF Next, ReqStep

(* A result found under a key, or read at it, is as new as the key.        *)
LEMMA ResultIsCurrent ==
    ASSUME Assumptions, Order, NEW p \in Procs,
           Edge(p) \/ Fill(p) \/ Local(p) \/ Store(p) \/ Put(p)
    PROVE  handler'[p].v = 0 \/ Key(p) <= handler'[p].v
<1> USE DEF Order
<1>1. handler[p] \in Reqs /\ (handler[p].v = 0 \/ Key(p) <= handler[p].v)
  BY ReqFields, SameReq DEF Current
<1>2. Here(p) \in DOs /\ Colo[Here(p)] \in DOs /\ Key(p) \in Bookmarks
  BY ReqFields, SameReq
<1>3. CASE \E step : Goto(p, step)
  <2>1. PICK step : handler'[p] = [handler[p] EXCEPT !.at = step]
    BY <1>3 DEF Goto, TypeOK
  <2>2. handler'[p].v = handler[p].v
    BY <1>1, <2>1 DEF Reqs
  <2> QED
    BY <1>1, <2>2
<1>4. ASSUME NEW e \in Entries \cup {None}, e # None, e.v <= 0 \/ Key(p) <= e.v,
             NEW step, Keep(p, step, e.v)
      PROVE  handler'[p].v = 0 \/ Key(p) <= handler'[p].v
  <2>1. handler'[p] = [handler[p] EXCEPT !.at = step, !.v = e.v]
    BY <1>4 DEF Keep, TypeOK
  <2>2. handler'[p].v = e.v
    BY <1>1, <2>1 DEF Reqs
  <2>3. e.v \in Nat
    BY <1>4 DEF Entries, Results
  <2> QED
    BY <1>4, <2>2, <2>3
<1>5. CASE Edge(p) /\ ~\E step : Goto(p, step)
  <2> DEFINE e == edge[Colo[Here(p)]][Key(p)]
  <2>1. e \in Entries \cup {None} /\ (e.v <= 0 \/ Key(p) <= e.v)
    BY <1>2 DEF Keyed, TypeOK
  <2>2. e # None /\ Keep(p, "fill", e.v)
    BY <1>5 DEF Edge
  <2> HIDE DEF e
  <2> QED
    BY <1>4, <2>1, <2>2
<1>6. CASE Local(p) /\ ~\E step : Goto(p, step)
  <2> DEFINE e == cache[Here(p)][Key(p)]
  <2>1. e \in Entries \cup {None} /\ (e.v <= 0 \/ Key(p) <= e.v)
    BY <1>2 DEF Keyed, TypeOK
  <2>2. e # None /\ Keep(p, "answer", e.v)
    BY <1>6 DEF Local
  <2> HIDE DEF e
  <2> QED
    BY <1>4, <2>1, <2>2
<1> QED
  BY <1>3, <1>5, <1>6 DEF Fill, Store, Put

(* A REQ goes on with a bookmark that covers what its session has saved,   *)
(* and a result that covers its bookmark.                                  *)
LEMMA CurrentInductive ==
    ASSUME Assumptions, OneAtATime, Order, [Next]_vars
    PROVE  Current'
<1> USE DEF Order
<1>1. handler \in [Procs -> Handlers] /\ wrote \in [Sessions -> Results]
  BY DEF TypeOK
<1> DEFINE Fine(q) == /\ handler'[q].own <= handler'[q].b /\ wrote'[handler'[q].s] <= handler'[q].b
                      /\ handler'[q].v = 0 \/ handler'[q].b <= handler'[q].v
<1>2. SUFFICES ASSUME NEW q \in Procs, handler'[q].at \in ReqSteps PROVE Fine(q)
  BY DEF Current, Reading, Key
<1>3. ASSUME Reading(q), handler'[q] = handler[q], wrote'[handler[q].s] = wrote[handler[q].s]
      PROVE  Fine(q)
  BY <1>3 DEF Current, Key
<1>4. ASSUME handler'[q] = handler[q], UNCHANGED wrote PROVE Fine(q)
  BY <1>2, <1>3, <1>4 DEF Reading
<1>5. CASE UNCHANGED <<handler, wrote>>
  BY <1>4, <1>5
<1>6. ASSUME NEW p \in Procs, Edge(p) \/ Fill(p) \/ Local(p) \/ Store(p) \/ Put(p) PROVE Fine(q)
  <2>1. Others(p) /\ UNCHANGED wrote
    BY <1>6, OneMoves DEF Edge, Fill, Local, Store, Put, history
  <2>2. CASE q # p
    BY <1>4, <2>1, <2>2 DEF Others
  <2>3. CASE q = p
    <3>1. handler'[p].v = 0 \/ Key(p) <= handler'[p].v
      BY <1>6, ResultIsCurrent
    <3>2. /\ Reading(p) /\ handler'[p].s = handler[p].s /\ handler'[p].b = Key(p)
          /\ handler'[p].own = handler[p].own
      BY <1>6, SameReq DEF Key
    <3> QED
      BY <2>1, <2>3, <3>1, <3>2 DEF Current
  <2> QED
    BY <2>2, <2>3
<1>7. ASSUME NEW p \in Procs, Query(p) PROVE Fine(q)
  <2>1. UNCHANGED wrote /\ Reading(p)
    BY <1>7 DEF Query, history, At, Reading, ReqSteps
  <2>2. PICK v : /\ v \in Readable(Key(p)) \cup (IF "query" \in Mishaps THEN {0} ELSE {})
                 /\ handler' = [o \in Procs |->
                      IF o = p THEN [handler[p] EXCEPT !.at = "store", !.v = v]
                      ELSE IF At(o, "join") /\ handler[o].of = p
                      THEN [handler[o] EXCEPT !.at = "answer", !.v = v] ELSE handler[o]]
    BY <1>7 DEF Query
  <2>3. v = 0 \/ Key(p) <= v
    <3>1. Key(p) \in Nat
      BY <2>1, ReqFields
    <3>2. v = 0 \/ v \in Readable(Key(p))
      BY <2>2
    <3> QED
      BY <3>1, <3>2 DEF Readable
  <2>4. CASE q = p \/ (At(q, "join") /\ handler[q].of = p)
    <3>1. Reading(q) /\ Key(q) = Key(p)
      BY <2>1, <2>4 DEF Joined, At, Reading, ReqSteps
    <3>2. handler[q] \in Reqs
      BY <3>1, ReqFields
    <3>3. PICK step : handler'[q] = [handler[q] EXCEPT !.at = step, !.v = v]
      BY <2>2, <2>4
    <3>4. /\ handler'[q].v = v /\ handler'[q].s = handler[q].s /\ handler'[q].b = Key(q)
          /\ handler'[q].own = handler[q].own
      BY <3>2, <3>3 DEF Reqs, Key
    <3> QED
      BY <2>1, <2>3, <3>1, <3>4 DEF Current
  <2>5. CASE ~(q = p \/ (At(q, "join") /\ handler[q].of = p))
    BY <1>4, <2>1, <2>2, <2>5
  <2> QED
    BY <2>4, <2>5
<1>8. ASSUME NEW p \in Procs, NEW s \in Sessions, Req(p, s) PROVE Fine(q)
  <2>1. Others(p) /\ UNCHANGED wrote
    BY <1>8, OneMoves DEF Req
  <2>2. CASE q # p
    BY <1>4, <2>1, <2>2 DEF Others
  <2>3. CASE q = p
    <3>1. /\ handler'[p].s = s /\ handler'[p].b = bookmark[s] /\ handler'[p].own = wrote[s]
          /\ handler'[p].v = 0 \/ bookmark[s] <= handler'[p].v
      BY <1>8, NewReq, ReqFields DEF Current
    <3> QED
      BY <2>1, <2>3, <3>1 DEF Marked
  <2> QED
    BY <2>2, <2>3
<1>9. ASSUME NEW p \in Procs, \/ Answer(p) \/ Save(p) \/ SaveReply(p) \/ AnnounceReply(p) \/ Abort(p)
                              \/ \E s \in Sessions : Write(p, s, "event") \/ Write(p, s, "reply")
      PROVE  Fine(q)
  <2>1. Others(p)
    BY <1>9, OneMoves DEF WriteStep
  <2>2. UNCHANGED wrote
    BY <1>9 DEF Answer, Save, SaveReply, AnnounceReply, Abort, Write, history
  <2>3. q # p
    <3>1. CASE Answer(p) \/ AnnounceReply(p) \/ Abort(p)
      <4>1. handler'[p] = Idle
        BY <1>1, <3>1 DEF Answer, AnnounceReply, Abort, Return
      <4> QED
        BY <1>2, <4>1 DEF Idle, ReqSteps
    <3>2. CASE Save(p) \/ SaveReply(p)
      <4>1. handler[p] \in Writes
        BY <3>2, WritingIsWrite DEF Save, SaveReply, At, TypeOK
      <4>2. PICK step \in {"announce", "announce.reply"} : Keep(p, step, version + 1)
        BY <3>2 DEF Save, SaveReply
      <4>3. handler'[p] = [handler[p] EXCEPT !.at = step, !.v = version + 1]
        BY <1>1, <4>2 DEF Keep
      <4>4. handler'[p].at = step
        BY <4>1, <4>3 DEF Writes
      <4> QED
        BY <1>2, <4>4 DEF ReqSteps
    <3>3. ASSUME NEW s \in Sessions, Write(p, s, "event") \/ Write(p, s, "reply") PROVE q # p
      <4>1. handler'[p].at \in {"save", "save.reply"}
        BY <1>1, <3>3 DEF Write
      <4> QED
        BY <1>2, <4>1 DEF ReqSteps
    <3> QED
      BY <1>9, <3>1, <3>2, <3>3
  <2> QED
    BY <1>4, <2>1, <2>2, <2>3 DEF Others
<1>10. ASSUME NEW p \in Procs, Announce(p) PROVE Fine(q)
  <2>0. Others(p)
    BY <1>10, OneMoves DEF WriteStep
  <2>1. Others(p) /\ Busy(p) /\ handler'[p] = Idle
    BY <1>1, <1>10, <2>0 DEF Announce, At, Idle, Busy, Return
  <2>2. q # p /\ handler'[q] = handler[q] /\ Reading(q) /\ Busy(q)
    BY <1>2, <2>1 DEF Others, Idle, ReqSteps, Reading, Busy
  <2>3. handler[q].s # handler[p].s
    BY <2>1, <2>2 DEF Alone
  <2>4. wrote'[handler[q].s] = wrote[handler[q].s]
    BY <1>1, <1>10, <2>2, <2>3, ReqFields DEF Announce
  <2> QED
    BY <1>3, <2>2, <2>4
<1>11. ASSUME NEW s \in Sessions, Reconnect(s) PROVE Fine(q)
  <2>1. handler'[q] = handler[q] /\ Reading(q) /\ Busy(q)
    BY <1>2, <1>11 DEF Reconnect, Reading, Busy, Idle, ReqSteps
  <2>2. wrote'[handler[q].s] = wrote[handler[q].s]
    BY <1>1, <1>11, <2>1, ReqFields DEF Reconnect, Busy
  <2> QED
    BY <1>3, <2>1, <2>2
<1>12. ASSUME NEW d \in DOs, Crash(d) PROVE Fine(q)
  <2>1. Here(q) # d /\ handler'[q] = handler[q] /\ Reading(q)
    BY <1>2, <1>12 DEF Crash, Idle, Reading, ReqSteps
  <2>2. wrote'[handler[q].s] = wrote[handler[q].s]
    BY <1>1, <1>12, <2>1, ReqFields DEF Crash, Here
  <2> QED
    BY <1>3, <2>1, <2>2
<1>13. CASE \/ \E s \in Sessions : CloseSubscription(s)
            \/ \E d \in DOs : \/ \E v \in Versions : Receive(d, v) \/ Lose(d, v)
                              \/ \E b \in Bookmarks : Evict(d, b)
            \/ Tick \/ UNCHANGED vars
  BY <1>5, <1>13 DEF CloseSubscription, Receive, Lose, Evict, Tick, vars, history
<1> QED
  BY <1>6, <1>7, <1>8, <1>9, <1>10, <1>11, <1>12, <1>13 DEF Next, ReqStep, WriteStep

(* The bookmark of a session covers what it has saved. *)
LEMMA MarkedInductive ==
    ASSUME Assumptions, Order, [Next]_vars
    PROVE  Marked'
<1> USE DEF Order
<1>1. bookmark \in [Sessions -> Bookmarks] /\ wrote \in [Sessions -> Results]
  BY DEF TypeOK
<1>2. CASE UNCHANGED <<bookmark, wrote>>
  BY <1>2 DEF Marked
<1>3. ASSUME NEW p \in Procs, Answer(p) PROVE Marked'
  <2>1. Reading(p) /\ UNCHANGED wrote
    BY <1>3 DEF Answer, At, Reading, ReqSteps
  <2>2. handler[p].v # 0 => wrote[handler[p].s] <= handler[p].v
    BY <2>1, ReqFields DEF Current
  <2> QED
    BY <1>1, <1>3, <2>1, <2>2 DEF Answer, Marked
<1>4. ASSUME NEW p \in Procs, Announce(p) PROVE Marked'
  <2>1. handler[p].v \in Nat
    BY <1>4, WritingIsWrite DEF Announce, At, TypeOK, Writes, Versions
  <2> QED
    BY <1>1, <1>4, <2>1 DEF Announce, Marked
<1>5. ASSUME NEW s \in Sessions, Reconnect(s) PROVE Marked'
  BY <1>1, <1>5 DEF Reconnect, Marked
<1>6. ASSUME NEW d \in DOs, Crash(d) PROVE Marked'
  BY <1>1, <1>6 DEF Crash, Marked
<1>7. ASSUME \/ \E p \in Procs : \/ Edge(p) \/ Fill(p) \/ Local(p) \/ Query(p) \/ Store(p) \/ Put(p)
                                \/ Save(p) \/ SaveReply(p) \/ AnnounceReply(p) \/ Abort(p)
             \/ \E p \in Procs, s \in Sessions :
                   Req(p, s) \/ Write(p, s, "event") \/ Write(p, s, "reply")
             \/ \E s \in Sessions : CloseSubscription(s)
             \/ \E d \in DOs : \/ \E v \in Versions : Receive(d, v) \/ Lose(d, v)
                               \/ \E b \in Bookmarks : Evict(d, b)
             \/ Tick \/ UNCHANGED vars
      PROVE  Marked'
  BY <1>2, <1>7 DEF Edge, Fill, Local, Query, Store, Put, Save, SaveReply, AnnounceReply, Abort, Req,
     Write, CloseSubscription, Receive, Lose, Evict, Tick, vars, history
<1> QED
  BY <1>3, <1>4, <1>5, <1>6, <1>7 DEF Next, ReqStep, WriteStep

(* ReadYourWrites: whatever the lag of the replicas, the lifetimes of the  *)
(* caches and the failures, a client that sends one message at a time is   *)
(* answered with the events it has had accepted.                           *)
THEOREM OwnWritesAreRead ==
    ASSUME Assumptions, OneAtATime
    PROVE  Spec => ReadYourWrites
<1>1. Init => Order
  <2> SUFFICES ASSUME Init PROVE Order
    OBVIOUS
  <2>1. TypeOK /\ ActiveRuns
    BY TypeInitial
  <2>2. Keyed
    BY DEF Init, Keyed, None
  <2>3. Joined /\ Current /\ Marked /\ Alone
    BY DEF Init, Joined, Current, Marked, Alone, At, Reading, ReqSteps, Busy, Idle
  <2> QED
    BY <2>1, <2>2, <2>3 DEF Order
<1>2. Order /\ [Next]_vars => Order'
  <2> SUFFICES ASSUME Order, [Next]_vars PROVE Order'
    OBVIOUS
  <2>1. TypeOK' /\ ActiveRuns'
    BY TypeInductive, RunsInductive DEF Order
  <2>2. Keyed' /\ Joined' /\ Current' /\ Marked' /\ Alone'
    BY KeyedInductive, JoinedInductive, CurrentInductive, MarkedInductive, AloneInductive
  <2> QED
    BY <2>1, <2>2 DEF Order
<1>3. ASSUME Order, NEW p \in Procs, Answer(p), handler[p].v # 0
      PROVE  handler[p].own <= handler[p].v
  <2>1. Reading(p)
    BY <1>3 DEF Answer, At, Reading, ReqSteps
  <2> QED
    BY <1>3, <2>1, ReqFields DEF Order, Current
<1>4. Order => [\A p \in Procs : Answer(p) /\ handler[p].v # 0 => handler[p].own <= handler[p].v]_vars
  BY <1>3
<1> QED
  BY <1>1, <1>2, <1>4, PTL DEF Spec, ReadYourWrites

-----------------------------------------------------------------------------
(* Why nothing is owed once nothing is on its way. *)

Announces(q, e) == handler[q].at \in {"announce", "announce.reply"} /\ handler[q].v = e

\* What a session is owed is about to be announced, or is announced to its region.
Pending ==
    \A s \in Sessions : \A e \in owed[s] :
        e \in notices[Home[s]] \/ \E q \in Procs : Announces(q, e)

(* The fields a step of a REQ or a write leaves in its handler. *)
LEMMA MovedFields ==
    ASSUME TypeOK, NEW p \in Procs, handler[p] \in Reqs \cup Writes, NEW step, NEW v,
           (Goto(p, step) /\ v = handler[p].v) \/ Keep(p, step, v)
    PROVE  /\ handler'[p].at = step /\ handler'[p].v = v
           /\ handler'[p].s = handler[p].s /\ handler'[p].since = handler[p].since
           /\ Others(p)
<1>1. handler \in [Procs -> Handlers]
  BY DEF TypeOK
<1>2. CASE Goto(p, step) /\ v = handler[p].v
  <2>1. handler'[p] = [handler[p] EXCEPT !.at = step] /\ Others(p)
    BY <1>1, <1>2 DEF Goto, Others
  <2>2. handler[p].s = [handler[p] EXCEPT !.at = step].s
    BY DEF Reqs, Writes
  <2> QED
    BY <1>2, <2>1, <2>2 DEF Reqs, Writes
<1>3. CASE Keep(p, step, v)
  <2>1. handler'[p] = [handler[p] EXCEPT !.at = step, !.v = v] /\ Others(p)
    BY <1>1, <1>3 DEF Keep, Others
  <2> QED
    BY <2>1 DEF Reqs, Writes
<1> QED
  BY <1>2, <1>3

LEMMA PendingKept ==
    ASSUME TypeOK, Pending,
           \A s \in Sessions : owed'[s] \subseteq owed[s],
           \A d \in DOs : notices[d] \subseteq notices'[d],
           \A q \in Procs : \A e : Announces(q, e) => Announces(q, e)',
           Assumptions
    PROVE  Pending'
<1> SUFFICES ASSUME NEW s \in Sessions, NEW e \in owed'[s]
             PROVE  e \in notices'[Home[s]] \/ \E q \in Procs : Announces(q, e)'
  BY DEF Pending
<1>1. e \in notices[Home[s]] \/ \E q \in Procs : Announces(q, e)
  BY DEF Pending
<1>2. Home[s] \in DOs
  BY DEF Assumptions, DeliveryPlaces
<1> QED
  BY <1>1, <1>2

LEMMA PendingInductive ==
    ASSUME Assumptions, TypeOK, Pending, [Next]_vars
    PROVE  Pending'
<1>0. /\ owed \in [Sessions -> SUBSET Versions] /\ notices \in [DOs -> SUBSET Versions]
      /\ handler \in [Procs -> Handlers] /\ Home \in [Sessions -> DOs]
  BY DEF TypeOK, Assumptions, DeliveryPlaces
<1>1. ASSUME NEW p \in Procs, handler[p].at \notin {"announce", "announce.reply"}, Others(p),
             \A s \in Sessions : owed'[s] \subseteq owed[s], UNCHANGED notices
      PROVE  Pending'
  <2>1. \A q \in Procs : \A e : Announces(q, e) => Announces(q, e)'
    BY <1>1 DEF Announces, Others
  <2> QED
    BY <1>1, <2>1, PendingKept
<1>2. ASSUME NEW p \in Procs,
             \/ Edge(p) \/ Fill(p) \/ Local(p) \/ Store(p) \/ Put(p) \/ Answer(p)
             \/ \E s \in Sessions : Req(p, s) \/ Write(p, s, "event") \/ Write(p, s, "reply")
      PROVE  Pending'
  <2>1. handler[p].at \notin {"announce", "announce.reply"}
    <3>1. handler[p] = Idle \/ handler[p].at \in {"edge", "fill", "local", "store", "put", "answer"}
      BY <1>2 DEF Edge, Fill, Local, Store, Put, Answer, Req, Write, At
    <3> QED
      BY <3>1 DEF Idle
  <2>2. Others(p)
    BY <1>2, OneMoves
  <2>3. notices' = notices /\ \A s \in Sessions : owed'[s] \subseteq owed[s]
    BY <1>0, <1>2 DEF Edge, Fill, Local, Store, Put, Answer, Req, Write, history
  <2> QED
    BY <1>1, <2>1, <2>2, <2>3
<1>3. ASSUME NEW p \in Procs, Query(p) PROVE Pending'
  <2>1. notices' = notices /\ owed' = owed
    BY <1>3 DEF Query, history
  <2>2. \A q \in Procs : handler[q].at \in {"announce", "announce.reply"} => handler'[q] = handler[q]
    BY <1>0, <1>3 DEF Query, At
  <2>3. \A q \in Procs : \A e : Announces(q, e) => Announces(q, e)'
    BY <2>2 DEF Announces
  <2> QED
    BY <2>1, <2>3, PendingKept
<1>4. ASSUME NEW p \in Procs, NEW step \in {"announce", "announce.reply"},
             handler[p].at \in {"save", "save.reply"}, Saved, Keep(p, step, version + 1), UNCHANGED notices
      PROVE  Pending'
  <2>1. handler[p] \in Reqs \cup Writes
    BY <1>0, <1>4, WritingIsWrite
  <2>2. handler'[p].at = step /\ handler'[p].v = version + 1 /\ Others(p)
    BY <1>4, <2>1, MovedFields
  <2> SUFFICES ASSUME NEW s \in Sessions, NEW e \in owed'[s]
               PROVE  e \in notices[Home[s]] \/ \E q \in Procs : Announces(q, e)'
    BY <1>4 DEF Pending
  <2>3. e \in owed[s] \/ e = version + 1
    BY <1>4 DEF Saved
  <2>4. CASE e = version + 1
    BY <2>2, <2>4 DEF Announces
  <2>5. CASE e \in owed[s] /\ e \notin notices[Home[s]]
    <3>1. PICK q \in Procs : Announces(q, e)
      BY <2>5 DEF Pending
    <3>2. q # p
      BY <1>4, <3>1 DEF Announces
    <3> QED
      BY <2>2, <3>1, <3>2 DEF Others, Announces
  <2> QED
    BY <2>3, <2>4, <2>5
<1>5. ASSUME NEW p \in Procs, Save(p) \/ SaveReply(p) PROVE Pending'
  BY <1>4, <1>5 DEF Save, SaveReply, At
<1>6. ASSUME NEW p \in Procs, handler[p].at \in {"announce", "announce.reply"},
             Return(p), Broadcast(Here(p), handler[p].v)
      PROVE  Pending'
  <2>1. handler[p] \in Writes
    BY <1>0, <1>6, WritingIsWrite
  <2> PICK d \in DOs : d = Here(p)
    BY <1>0, <2>1 DEF Here, Writes
  <2> PICK v : v = handler[p].v
    OBVIOUS
  <2>2. /\ \A s \in Sessions : owed'[s] = IF Home[s] = d THEN owed[s] \ {v} ELSE owed[s]
        /\ \A o \in DOs : notices'[o] = IF o = d THEN notices[o] ELSE notices[o] \cup {v}
        /\ Others(p)
    BY <1>0, <1>6 DEF Broadcast, Sent, Return, Others
  <2> SUFFICES ASSUME NEW s \in Sessions, NEW e \in owed'[s], e \notin notices'[Home[s]]
               PROVE  \E q \in Procs : Announces(q, e)'
    BY DEF Pending
  <2>3. Home[s] \in DOs /\ e \in owed[s] /\ e \notin notices[Home[s]] /\ e # v
    BY <1>0, <2>2
  <2>4. PICK q \in Procs : Announces(q, e)
    BY <2>3 DEF Pending
  <2>5. q # p
    BY <2>3, <2>4 DEF Announces
  <2> QED
    BY <2>2, <2>4, <2>5 DEF Others, Announces
<1>7. ASSUME NEW p \in Procs, Announce(p) \/ AnnounceReply(p) PROVE Pending'
  BY <1>6, <1>7 DEF Announce, AnnounceReply, At
<1>8. ASSUME NEW p \in Procs, Abort(p) PROVE Pending'
  <2>1. /\ \A s \in Sessions : owed'[s] = owed[s] \ {handler[p].v}
        /\ notices' = notices /\ Others(p)
    BY <1>0, <1>8 DEF Abort, Return, Others
  <2> SUFFICES ASSUME NEW s \in Sessions, NEW e \in owed'[s], e \notin notices'[Home[s]]
               PROVE  \E q \in Procs : Announces(q, e)'
    BY DEF Pending
  <2>2. e \in owed[s] /\ e \notin notices[Home[s]] /\ e # handler[p].v
    BY <2>1
  <2>3. PICK q \in Procs : Announces(q, e)
    BY <2>2 DEF Pending
  <2> QED
    BY <2>1, <2>2, <2>3 DEF Others, Announces
<1>9. ASSUME NEW d \in DOs, NEW v \in Versions, Receive(d, v) \/ Lose(d, v) PROVE Pending'
  <2>1. /\ \A s \in Sessions : owed'[s] = IF Home[s] = d THEN owed[s] \ {v} ELSE owed[s]
        /\ \A o \in DOs : notices'[o] = IF o = d THEN notices[o] \ {v} ELSE notices[o]
        /\ handler' = handler
    BY <1>0, <1>9 DEF Receive, Lose, Sent
  <2> SUFFICES ASSUME NEW s \in Sessions, NEW e \in owed'[s], e \notin notices'[Home[s]]
               PROVE  \E q \in Procs : Announces(q, e)'
    BY DEF Pending
  <2>2. Home[s] \in DOs /\ e \in owed[s] /\ e \notin notices[Home[s]]
    BY <1>0, <2>1
  <2> QED
    BY <2>1, <2>2 DEF Pending, Announces
<1>10. ASSUME NEW d \in DOs, Crash(d) PROVE Pending'
  <2> PICK lost : lost = {handler[p].v : p \in {q \in Procs :
                     handler[q].at \in {"announce", "announce.reply"} /\ Here(q) = d}}
    OBVIOUS
  <2>1. /\ \A s \in Sessions : owed'[s] = IF Home[s] = d THEN {} ELSE owed[s] \ lost
        /\ notices' = notices
        /\ \A q \in Procs : handler'[q] = IF handler[q] # Idle /\ Here(q) = d THEN Idle ELSE handler[q]
    BY <1>10 DEF Crash
  <2> SUFFICES ASSUME NEW s \in Sessions, NEW e \in owed'[s], e \notin notices'[Home[s]]
               PROVE  \E q \in Procs : Announces(q, e)'
    BY DEF Pending
  <2>2. e \in owed[s] /\ e \notin notices[Home[s]] /\ e \notin lost
    BY <2>1
  <2>3. PICK q \in Procs : Announces(q, e)
    BY <2>2 DEF Pending
  <2>4. Here(q) # d
    BY <2>2, <2>3 DEF Announces
  <2> QED
    BY <2>1, <2>3, <2>4 DEF Announces
<1>11. ASSUME \/ \E s \in Sessions : CloseSubscription(s) \/ Reconnect(s)
              \/ \E d \in DOs : \E b \in Bookmarks : Evict(d, b)
              \/ Tick \/ UNCHANGED vars
       PROVE  Pending'
  <2>1. handler' = handler /\ notices' = notices /\ \A s \in Sessions : owed'[s] \subseteq owed[s]
    BY <1>0, <1>11 DEF CloseSubscription, Reconnect, Evict, Tick, vars, history
  <2>2. \A q \in Procs : \A e : Announces(q, e) => Announces(q, e)'
    BY <2>1 DEF Announces
  <2> QED
    BY <2>1, <2>2, PendingKept
<1> QED
  BY <1>2, <1>3, <1>5, <1>7, <1>8, <1>9, <1>10, <1>11 DEF Next, ReqStep, WriteStep

(* NoGap: with any number of regions, sessions and handlers, and whatever  *)
(* fails, no session is owed an event once nothing is in flight.           *)
THEOREM NothingIsOwed == ASSUME Assumptions PROVE Spec => []NoGap
<1>1. Init => TypeOK /\ ActiveRuns /\ Pending
  <2> SUFFICES ASSUME Init PROVE TypeOK /\ ActiveRuns /\ Pending
    OBVIOUS
  <2>1. Pending
    BY DEF Init, Pending
  <2> QED
    BY <2>1, TypeInitial
<1>2. (TypeOK /\ ActiveRuns /\ Pending) /\ [Next]_vars => (TypeOK /\ ActiveRuns /\ Pending)'
  BY TypeInductive, RunsInductive, PendingInductive
<1>3. TypeOK /\ Pending => NoGap
  <2> SUFFICES ASSUME TypeOK, Pending, Quiet, Announced, NEW s \in Sessions, NEW e \in owed[s] PROVE FALSE
    BY DEF NoGap, TypeOK
  <2>1. Home[s] \in DOs
    BY DEF Assumptions, DeliveryPlaces
  <2>2. e \notin notices[Home[s]]
    BY <2>1 DEF Announced
  <2>3. \A q \in Procs : ~Announces(q, e)
    BY DEF Quiet, Announces, Idle
  <2> QED
    BY <2>2, <2>3 DEF Pending
<1> QED
  BY <1>1, <1>2, <1>3, PTL DEF Spec

-----------------------------------------------------------------------------
(* How old an answer can be. *)

\* A result that holds all that was saved before t.
Holds(v, t) == Failed(v) \/ \A e \in 1..version : savedAt[e] < t => e <= v

\* How long before a REQ the result was read from D1 it is put in the colo's
\* cache with, takes from there, or is answered with.
FillAge == EdgeTTL + MaxSpan + Lag
AnswerAge == LocalTTL - 1 + MaxSpan + FillAge

Past ==
    /\ \A e \in 1..version : savedAt[e] <= clock
    /\ \A p \in Procs : Busy(p) => handler[p].since <= clock /\ clock <= handler[p].since + MaxSpan
EdgeAge == \A c \in DOs, b \in Bookmarks : LET e == edge[c][b] IN
    e # None => e.at <= clock /\ Holds(e.v, e.at - MaxSpan - Lag)
LocalAge == \A d \in DOs, b \in Bookmarks : LET e == cache[d][b] IN
    e # None => e.at <= clock /\ Holds(e.v, e.at - MaxSpan - FillAge)
Aged(h) ==
    /\ h.at \in {"store", "put"} => Holds(h.v, h.since - Lag)
    /\ h.at = "fill" => Holds(h.v, h.since - FillAge)
    /\ h.at = "answer" => Holds(h.v, h.since - AnswerAge)
ResultAge == \A p \in Procs : Aged(handler[p])

Ages == Past /\ EdgeAge /\ LocalAge /\ ResultAge

LEMMA AgesTimes ==
    ASSUME Assumptions, TypeOK
    PROVE  /\ EdgeTTL \in Nat /\ LocalTTL \in Nat \ {0} /\ Lag \in Nat /\ MaxSpan \in Nat
           /\ FillAge \in Nat /\ AnswerAge \in Nat /\ FillAge <= AnswerAge
           /\ clock \in Nat /\ version \in Nat
           /\ \A e \in 1..version : savedAt[e] \in Nat
           /\ \A d \in DOs, b \in Bookmarks :
                 /\ edge[d][b] # None => edge[d][b].at \in Nat /\ edge[d][b].v \in Results
                 /\ cache[d][b] # None => cache[d][b].at \in Nat /\ cache[d][b].v \in Results
           /\ \A p \in Procs : handler[p].at \in ReqSteps \cup {"save", "announce", "save.reply", "announce.reply"}
                 => handler[p].since \in Nat
<1>1. EdgeTTL \in Nat /\ LocalTTL \in Nat \ {0} /\ Lag \in Nat /\ MaxSpan \in Nat /\ MaxClock \in Nat
  BY DEF Assumptions, DeliveryTimes
<1>2. FillAge \in Nat /\ AnswerAge \in Nat /\ FillAge <= AnswerAge
  BY <1>1 DEF FillAge, AnswerAge
<1>3. Times \subseteq Nat /\ clock \in Nat
  BY <1>1 DEF Times, TypeOK
<1>4. version \in Nat /\ \A e \in 1..version : savedAt[e] \in Nat
  <2>1. savedAt \in Seq(Times)
    BY DEF TypeOK
  <2>2. Len(savedAt) \in Nat /\ \A e \in 1..Len(savedAt) : savedAt[e] \in Times
    BY <2>1
  <2> QED
    BY <1>3, <2>2 DEF version
<1>5. ASSUME NEW d \in DOs, NEW b \in Bookmarks
      PROVE  /\ edge[d][b] # None => edge[d][b].at \in Nat /\ edge[d][b].v \in Results
             /\ cache[d][b] # None => cache[d][b].at \in Nat /\ cache[d][b].v \in Results
  <2>1. edge[d][b] \in Entries \cup {None} /\ cache[d][b] \in Entries \cup {None}
    BY DEF TypeOK
  <2>2. \A e \in Entries : e.at \in Nat /\ e.v \in Results
    BY <1>3 DEF Entries
  <2> QED
    BY <2>1, <2>2
<1>6. ASSUME NEW p \in Procs, handler[p].at \in ReqSteps \cup {"save", "announce", "save.reply", "announce.reply"}
      PROVE  handler[p].since \in Nat
  <2>1. handler[p] \in Reqs \/ handler[p] \in Writes
    BY <1>6, ReadingIsReq, WritingIsWrite DEF TypeOK, Reading
  <2> QED
    BY <1>3, <2>1 DEF Reqs, Writes
<1> QED
  BY <1>1, <1>2, <1>3, <1>4, <1>5, <1>6

(* A result holds what was saved before an earlier time too. *)
LEMMA HoldsEarlier ==
    ASSUME Assumptions, TypeOK, NEW v, NEW t \in Int, NEW u \in Int, u <= t, Holds(v, t)
    PROVE  Holds(v, u)
BY AgesTimes DEF Holds

(* What is saved later is saved no earlier. *)
LEMMA HoldsOn ==
    ASSUME Assumptions, TypeOK, Past, NEW v, NEW t \in Int, t <= clock, Holds(v, t),
           UNCHANGED savedAt \/ Saved
    PROVE  Holds(v, t)'
<1>1. CASE UNCHANGED savedAt
  BY <1>1 DEF Holds, Failed, version
<1>2. CASE Saved
  <2>1. savedAt' = Append(savedAt, clock) /\ savedAt \in Seq(Times) /\ clock \in Times
    BY <1>2 DEF Saved, TypeOK
  <2>2. version' = version + 1 /\ \A e \in 1..version + 1 : savedAt'[e] = IF e = version + 1 THEN clock ELSE savedAt[e]
    BY <2>1 DEF version
  <2>3. CASE Failed(v)
    BY <2>3 DEF Holds, Failed
  <2>4. CASE \A e \in 1..version : savedAt[e] < t => e <= v
    <3>1. ASSUME NEW e \in 1..version + 1, savedAt'[e] < t PROVE e <= v
      <4>1. e # version + 1
        BY <2>2, <3>1, AgesTimes
      <4>2. e \in 1..version
        BY <4>1, AgesTimes
      <4> QED
        BY <2>2, <2>4, <3>1, <4>1, <4>2
    <3> QED
      BY <2>2, <3>1 DEF Holds
  <2> QED
    BY <2>3, <2>4 DEF Holds
<1> QED
  BY <1>1, <1>2

(* A busy handler is one of a REQ or of a write, with the time it began. *)
LEMMA BusyFields ==
    ASSUME Assumptions, TypeOK, NEW p \in Procs, Busy(p)
    PROVE  /\ handler[p] \in Reqs \cup Writes /\ handler[p].since \in Nat
           /\ handler[p].at \in ReqSteps \cup {"save", "announce", "save.reply", "announce.reply"}
<1>1. handler[p] \in Reqs \cup Writes
  BY DEF TypeOK, Handlers, Busy
<1>2. handler[p].at \in ReqSteps \cup {"save", "announce", "save.reply", "announce.reply"}
  BY <1>1 DEF Reqs, Writes
<1> QED
  BY <1>1, <1>2, AgesTimes

LEMMA NotIdle ==
    ASSUME NEW p \in Procs, handler[p].at # "idle"
    PROVE  Busy(p)
BY DEF Busy, Idle

(* The clock waits for the messages in flight. *)
LEMMA PastInductive ==
    ASSUME Assumptions, TypeOK, Past, [Next]_vars
    PROVE  Past'
<1>0. clock \in Nat /\ MaxSpan \in Nat /\ handler \in [Procs -> Handlers] /\ version \in Nat
  BY AgesTimes DEF TypeOK
<1>1. ASSUME UNCHANGED clock, UNCHANGED savedAt \/ Saved,
             \A p \in Procs : handler'[p] # Idle => handler'[p].since = clock \/ (Busy(p) /\ handler'[p].since = handler[p].since)
      PROVE  Past'
  <2>1. \A e \in 1..version' : savedAt'[e] <= clock
    <3>1. CASE UNCHANGED savedAt
      BY <3>1 DEF Past, version
    <3>2. CASE Saved
      <4>1. savedAt' = Append(savedAt, clock) /\ savedAt \in Seq(Times) /\ clock \in Times
        BY <3>2 DEF Saved, TypeOK
      <4>2. version' = version + 1 /\ \A e \in 1..version + 1 : savedAt'[e] = IF e = version + 1 THEN clock ELSE savedAt[e]
        BY <4>1 DEF version
      <4> QED
        BY <1>0, <4>2 DEF Past
    <3> QED
      BY <1>1, <3>1, <3>2
  <2>2. \A p \in Procs : handler'[p] # Idle => handler'[p].since <= clock /\ clock <= handler'[p].since + MaxSpan
    BY <1>0, <1>1 DEF Past
  <2> QED
    BY <1>1, <2>1, <2>2 DEF Past, Busy
<1>2. ASSUME NEW p \in Procs, UNCHANGED <<clock, savedAt>>, Others(p),
             handler'[p] = Idle \/ handler'[p].since = clock
      PROVE  Past'
  BY <1>1, <1>2 DEF Others, Busy
<1>3. ASSUME NEW p \in Procs, UNCHANGED clock, UNCHANGED savedAt \/ Saved, handler[p].at # "idle",
             NEW step, Goto(p, step) \/ \E v : Keep(p, step, v)
      PROVE  Past'
  <2>1. Busy(p)
    BY <1>3, NotIdle
  <2>2. handler'[p].since = handler[p].since /\ Others(p)
    BY <1>3, <2>1, BusyFields, MovedFields
  <2> QED
    BY <1>1, <1>3, <2>1, <2>2 DEF Others, Busy
<1>4. ASSUME NEW p \in Procs, Edge(p) \/ Fill(p) \/ Local(p) \/ Store(p) \/ Put(p) \/ Save(p) \/ SaveReply(p)
      PROVE  Past'
  <2>1. handler[p].at # "idle" /\ UNCHANGED clock /\ (UNCHANGED savedAt \/ Saved)
    BY <1>4 DEF Edge, Fill, Local, Store, Put, Save, SaveReply, At
  <2>2. \E step : Goto(p, step) \/ \E v : Keep(p, step, v)
    BY <1>4 DEF Edge, Fill, Local, Store, Put, Save, SaveReply
  <2> QED
    BY <1>3, <2>1, <2>2
<1>5. ASSUME NEW p \in Procs, Answer(p) \/ Announce(p) \/ AnnounceReply(p) \/ Abort(p)
      PROVE  Past'
  <2>1. UNCHANGED <<clock, savedAt>> /\ Return(p)
    BY <1>5 DEF Answer, Announce, AnnounceReply, Abort
  <2>2. handler'[p] = Idle /\ Others(p)
    BY <1>0, <2>1 DEF Return, Others
  <2> QED
    BY <1>2, <2>1, <2>2
<1>6. ASSUME NEW p \in Procs, NEW s \in Sessions, Req(p, s) \/ Write(p, s, "event") \/ Write(p, s, "reply")
      PROVE  Past'
  <2>1. UNCHANGED <<clock, savedAt>> /\ Others(p)
    BY <1>6, OneMoves DEF Req, Write
  <2>2. handler'[p].since = clock
    <3>1. CASE Write(p, s, "event") \/ Write(p, s, "reply")
      BY <1>0, <3>1 DEF Write
    <3>2. CASE Req(p, s)
      <4> DEFINE msg == [at |-> "edge", s |-> s, b |-> bookmark[s], v |-> 0, of |-> p, since |-> clock, own |-> wrote[s]]
      <4>1. \A q : msg.since = clock /\ [msg EXCEPT !.at = "join", !.of = q].since = clock
        OBVIOUS
      <4>2. \A v : [msg EXCEPT !.at = "answer", !.v = v].since = clock
        OBVIOUS
      <4> HIDE DEF msg
      <4>3. \/ handler'[p] = msg \/ (\E q : handler'[p] = [msg EXCEPT !.at = "join", !.of = q])
            \/ \E v : handler'[p] = [msg EXCEPT !.at = "answer", !.v = v]
        BY <1>0, <3>2 DEF Req, msg
      <4> QED
        BY <4>1, <4>2, <4>3
    <3> QED
      BY <1>6, <3>1, <3>2
  <2> QED
    BY <1>2, <2>1, <2>2
<1>7. ASSUME NEW p \in Procs, Query(p) PROVE Past'
  <2>1. UNCHANGED <<clock, savedAt>>
    BY <1>7 DEF Query
  <2>2. ASSUME NEW q \in Procs, handler'[q] # Idle
        PROVE  Busy(q) /\ handler'[q].since = handler[q].since
    <3>1. CASE handler'[q] = handler[q]
      BY <2>2, <3>1 DEF Busy
    <3>2. CASE handler'[q] # handler[q]
      <4>1. handler[q].at \in {"query", "join"}
        BY <1>0, <1>7, <3>2 DEF Query, At
      <4>2. handler[q] \in Reqs /\ Busy(q)
        BY <4>1, ReadingIsReq, NotIdle DEF TypeOK, Reading, ReqSteps
      <4>3. \E v : handler'[q] = [handler[q] EXCEPT !.at = "store", !.v = v] \/ handler'[q] = [handler[q] EXCEPT !.at = "answer", !.v = v]
        <5>1. PICK v : handler' = [r \in Procs |->
                IF r = p THEN [handler[p] EXCEPT !.at = "store", !.v = v]
                ELSE IF At(r, "join") /\ handler[r].of = p
                THEN [handler[r] EXCEPT !.at = "answer", !.v = v] ELSE handler[r]]
          BY <1>7 DEF Query
        <5> QED
          BY <5>1, <3>2
      <4>4. \A v : /\ [handler[q] EXCEPT !.at = "store", !.v = v].since = handler[q].since
                   /\ [handler[q] EXCEPT !.at = "answer", !.v = v].since = handler[q].since
        BY <4>2 DEF Reqs
      <4> QED
        BY <4>2, <4>3, <4>4
    <3> QED
      BY <3>1, <3>2
  <2> QED
    BY <1>1, <2>1, <2>2
<1>8. ASSUME NEW d \in DOs, Crash(d) PROVE Past'
  <2>1. UNCHANGED <<clock, savedAt>> /\ \A q \in Procs : handler'[q] = Idle \/ handler'[q] = handler[q]
    BY <1>8 DEF Crash
  <2> QED
    BY <1>1, <2>1 DEF Busy
<1>9. ASSUME Tick PROVE Past'
  <2>1. clock' = clock + 1 /\ savedAt' = savedAt /\ handler' = handler
    BY <1>9 DEF Tick
  <2>2. ASSUME NEW p \in Procs, Busy(p)
        PROVE  handler[p].since <= clock + 1 /\ clock + 1 <= handler[p].since + MaxSpan
    <3>1. handler[p].since \in Nat /\ clock < handler[p].since + MaxSpan /\ handler[p].since <= clock
      BY <1>9, <2>2, BusyFields DEF Tick, Busy, Past
    <3> QED
      BY <1>0, <3>1
  <2>3. \A e \in 1..version : savedAt[e] <= clock + 1
    BY <1>0, AgesTimes DEF Past
  <2> QED
    BY <2>1, <2>2, <2>3 DEF Past, Busy, version
<1>10. ASSUME \/ \E s \in Sessions : CloseSubscription(s) \/ Reconnect(s)
              \/ \E d \in DOs : \/ \E v \in Versions : Receive(d, v) \/ Lose(d, v)
                                \/ \E b \in Bookmarks : Evict(d, b)
              \/ UNCHANGED vars
       PROVE  Past'
  <2>1. UNCHANGED <<clock, savedAt, handler>>
    BY <1>10 DEF CloseSubscription, Reconnect, Receive, Lose, Evict, vars
  <2> QED
    BY <1>1, <2>1 DEF Busy
<1> QED
  BY <1>4, <1>5, <1>6, <1>7, <1>8, <1>9, <1>10 DEF Next, ReqStep, WriteStep

LEMMA EdgeAgeKept ==
    ASSUME Assumptions, TypeOK, Past, EdgeAge, UNCHANGED savedAt \/ Saved, clock' \in {clock, clock + 1},
           \A c \in DOs, b \in Bookmarks :
              \/ edge'[c][b] \in {edge[c][b], None}
              \/ /\ UNCHANGED savedAt
                 /\ \E v : edge'[c][b] = [v |-> v, at |-> clock] /\ Holds(v, clock - MaxSpan - Lag)
    PROVE  EdgeAge'
<1>0. clock \in Nat /\ MaxSpan \in Nat /\ Lag \in Nat /\ clock' \in Nat /\ clock <= clock'
  BY AgesTimes
<1> SUFFICES ASSUME NEW c \in DOs, NEW b \in Bookmarks, NEW e, e = edge'[c][b], e # None
             PROVE  e.at <= clock' /\ Holds(e.v, e.at - MaxSpan - Lag)'
  BY DEF EdgeAge
<1>1. CASE e = edge[c][b]
  <2>1. e.at \in Nat /\ e.at <= clock /\ Holds(e.v, e.at - MaxSpan - Lag)
    BY <1>1, AgesTimes DEF EdgeAge
  <2> PICK t \in Int : t = e.at - MaxSpan - Lag
    BY <1>0, <2>1
  <2> PICK v : v = e.v
    OBVIOUS
  <2>2. Holds(v, t)'
    BY <1>0, <2>1, HoldsOn
  <2> QED
    BY <1>0, <2>1, <2>2
<1>2. ASSUME UNCHANGED savedAt, NEW v, e = [v |-> v, at |-> clock], Holds(v, clock - MaxSpan - Lag)
      PROVE  e.at <= clock' /\ Holds(e.v, e.at - MaxSpan - Lag)'
  <2>1. e.at = clock /\ e.v = v
    BY <1>2
  <2> PICK t : t = clock - MaxSpan - Lag
    OBVIOUS
  <2>2. Holds(v, t)'
    BY <1>2 DEF Holds, version, Failed
  <2> QED
    BY <1>0, <2>1, <2>2
<1> QED
  BY <1>1, <1>2

LEMMA LocalAgeKept ==
    ASSUME Assumptions, TypeOK, Past, LocalAge, UNCHANGED savedAt \/ Saved, clock' \in {clock, clock + 1},
           \A d \in DOs, b \in Bookmarks :
              \/ cache'[d][b] \in {cache[d][b], None}
              \/ /\ UNCHANGED savedAt
                 /\ \E v : cache'[d][b] = [v |-> v, at |-> clock] /\ Holds(v, clock - MaxSpan - FillAge)
    PROVE  LocalAge'
<1>0. clock \in Nat /\ MaxSpan \in Nat /\ FillAge \in Nat /\ clock' \in Nat /\ clock <= clock'
  BY AgesTimes
<1> SUFFICES ASSUME NEW d \in DOs, NEW b \in Bookmarks, NEW e, e = cache'[d][b], e # None
             PROVE  e.at <= clock' /\ Holds(e.v, e.at - MaxSpan - FillAge)'
  BY DEF LocalAge
<1>1. CASE e = cache[d][b]
  <2>1. e.at \in Nat /\ e.at <= clock /\ Holds(e.v, e.at - MaxSpan - FillAge)
    BY <1>1, AgesTimes DEF LocalAge
  <2> PICK t \in Int : t = e.at - MaxSpan - FillAge
    BY <1>0, <2>1
  <2> PICK v : v = e.v
    OBVIOUS
  <2>2. Holds(v, t)'
    BY <1>0, <2>1, HoldsOn
  <2> QED
    BY <1>0, <2>1, <2>2
<1>2. ASSUME UNCHANGED savedAt, NEW v, e = [v |-> v, at |-> clock], Holds(v, clock - MaxSpan - FillAge)
      PROVE  e.at <= clock' /\ Holds(e.v, e.at - MaxSpan - FillAge)'
  <2>1. e.at = clock /\ e.v = v
    BY <1>2
  <2> PICK t : t = clock - MaxSpan - FillAge
    OBVIOUS
  <2>2. Holds(v, t)'
    BY <1>2 DEF Holds, version, Failed
  <2> QED
    BY <1>0, <2>1, <2>2
<1> QED
  BY <1>1, <1>2

LEMMA AgedKept ==
    ASSUME Assumptions, TypeOK, Past, ResultAge, UNCHANGED savedAt \/ Saved,
           \A p \in Procs :
              \/ handler'[p] = handler[p]
              \/ handler'[p].at \notin {"store", "put", "fill", "answer"}
              \/ UNCHANGED savedAt /\ Aged(handler'[p])
    PROVE  ResultAge'
<1>0. Lag \in Nat /\ FillAge \in Nat /\ AnswerAge \in Nat /\ clock \in Nat
  BY AgesTimes
<1> SUFFICES ASSUME NEW p \in Procs, NEW h, h = handler'[p] PROVE Aged(h)'
  BY DEF ResultAge
<1>1. CASE h.at \notin {"store", "put", "fill", "answer"}
  BY <1>1 DEF Aged
<1>2. CASE h = handler[p] /\ h.at \in {"store", "put", "fill", "answer"}
  <2>1. h.since \in Nat /\ h.since <= clock /\ Aged(h)
    BY <1>2, NotIdle, AgesTimes DEF Past, ResultAge, ReqSteps
  <2> PICK t \in Int : t = h.since - Lag
    BY <1>0, <2>1
  <2> PICK u \in Int : u = h.since - FillAge
    BY <1>0, <2>1
  <2> PICK w \in Int : w = h.since - AnswerAge
    BY <1>0, <2>1
  <2> PICK v : v = h.v
    OBVIOUS
  <2>2. t <= clock /\ u <= clock /\ w <= clock
    BY <1>0, <2>1
  <2>3. /\ Holds(v, t) => Holds(v, t)'
        /\ Holds(v, u) => Holds(v, u)'
        /\ Holds(v, w) => Holds(v, w)'
    BY <2>2, HoldsOn
  <2> QED
    BY <2>1, <2>3 DEF Aged
<1>3. CASE UNCHANGED savedAt /\ Aged(h)
  <2>1. \A v, t : Holds(v, t) => Holds(v, t)'
    BY <1>3 DEF Holds, version, Failed
  <2> QED
    BY <1>3, <2>1 DEF Aged
<1> QED
  BY <1>1, <1>2, <1>3

(* An entry that is set is the only one that changes. *)
LEMMA OneEntry ==
    ASSUME NEW D, NEW B, NEW E, NEW f \in [D -> [B -> E]], NEW d \in D, NEW b \in B, NEW e,
           NEW g, g = [f EXCEPT ![d][b] = e]
    PROVE  \A c \in D, k \in B : g[c][k] \in {f[c][k], e}
OBVIOUS

AgesHold == TypeOK /\ ActiveRuns /\ Ages

(* Reads of the two caches, and what they read into. *)
LEMMA CacheAges ==
    ASSUME Assumptions, AgesHold, NEW p \in Procs,
           Edge(p) \/ Fill(p) \/ Local(p) \/ Store(p) \/ Put(p)
    PROVE  EdgeAge' /\ LocalAge' /\ ResultAge'
<1> USE DEF AgesHold, Ages
<1>0. Reading(p) /\ Busy(p)
  BY NotIdle DEF Edge, Fill, Local, Store, Put, At, Reading, ReqSteps
<1>1. /\ handler[p] \in Reqs /\ Here(p) \in DOs /\ Colo[Here(p)] \in DOs /\ Key(p) \in Bookmarks
      /\ handler[p].since \in Nat
  BY <1>0, ReqFields, BusyFields
<1> PICK since \in Nat : since = handler[p].since
  BY <1>1
<1>2. /\ EdgeTTL \in Nat /\ LocalTTL \in Nat \ {0} /\ Lag \in Nat /\ MaxSpan \in Nat
      /\ FillAge \in Nat /\ AnswerAge \in Nat /\ FillAge <= AnswerAge /\ clock \in Nat
      /\ FillAge = EdgeTTL + MaxSpan + Lag /\ AnswerAge = LocalTTL - 1 + MaxSpan + FillAge
  BY AgesTimes DEF FillAge, AnswerAge
<1>3. since <= clock /\ clock <= since + MaxSpan
  BY <1>0 DEF Past
<1>4. UNCHANGED <<savedAt, clock>> /\ Others(p)
  BY OneMoves DEF Edge, Fill, Local, Store, Put
<1>5. ASSUME UNCHANGED edge PROVE EdgeAge'
  BY <1>4, <1>5, EdgeAgeKept
<1>6. ASSUME UNCHANGED cache PROVE LocalAge'
  BY <1>4, <1>6, LocalAgeKept
<1> PICK v : v = handler[p].v
  OBVIOUS
<1>7. ASSUME NEW h, h = handler'[p], h.since = since, Aged(h)
      PROVE  ResultAge'
  <2>1. \A q \in Procs : handler'[q] = handler[q] \/ Aged(handler'[q])
    BY <1>4, <1>7 DEF Others
  <2> QED
    BY <1>4, <2>1, AgedKept
<1>14. ASSUME NEW step, Goto(p, step), step \notin {"store", "put", "fill", "answer"}
      PROVE  ResultAge'
  <2> PICK h : h = handler'[p]
    OBVIOUS
  <2>1. h.at = step /\ h.since = since
    BY <1>1, <1>14, MovedFields
  <2> QED
    BY <1>7, <1>14, <2>1 DEF Aged
<1>15. ASSUME Goto(p, "put"), Holds(v, since - Lag)
       PROVE  ResultAge'
  <2> PICK h : h = handler'[p]
    OBVIOUS
  <2>1. h.at = "put" /\ h.v = v /\ h.since = since
    BY <1>1, <1>15, MovedFields
  <2> QED
    BY <1>7, <1>15, <2>1 DEF Aged
<1>16. ASSUME Goto(p, "answer"), Holds(v, since - AnswerAge)
       PROVE  ResultAge'
  <2> PICK h : h = handler'[p]
    OBVIOUS
  <2>1. h.at = "answer" /\ h.v = v /\ h.since = since
    BY <1>1, <1>16, MovedFields
  <2> QED
    BY <1>7, <1>16, <2>1 DEF Aged
<1>17. ASSUME NEW x,
              \/ (Keep(p, "fill", x) /\ Holds(x, since - FillAge))
              \/ (Keep(p, "answer", x) /\ Holds(x, since - AnswerAge))
       PROVE  ResultAge'
  <2> PICK h : h = handler'[p]
    OBVIOUS
  <2>1. CASE Keep(p, "fill", x) /\ Holds(x, since - FillAge)
    <3>1. h.at = "fill" /\ h.v = x /\ h.since = since
      BY <1>1, <2>1, MovedFields
    <3> QED
      BY <1>7, <2>1, <3>1 DEF Aged
  <2>2. CASE Keep(p, "answer", x) /\ Holds(x, since - AnswerAge)
    <3>1. h.at = "answer" /\ h.v = x /\ h.since = since
      BY <1>1, <2>2, MovedFields
    <3> QED
      BY <1>7, <2>2, <3>1 DEF Aged
  <2> QED
    BY <1>17, <2>1, <2>2
<1>8. CASE Edge(p)
  <2> PICK e : e = edge[Colo[Here(p)]][Key(p)]
    OBVIOUS
  <2>1. CASE e # None /\ clock - e.at <= EdgeTTL
    <3>1. Keep(p, "fill", e.v) /\ UNCHANGED <<edge, cache>>
      BY <1>8, <2>1 DEF Edge
    <3>2. e.at \in Nat /\ Holds(e.v, e.at - MaxSpan - Lag)
      BY <1>1, <2>1, AgesTimes DEF EdgeAge
    <3> PICK t \in Int : t = e.at - MaxSpan - Lag
      BY <1>2, <3>2
    <3> PICK u \in Int : u = since - FillAge
      BY <1>2
    <3>3. u <= t
      BY <1>2, <1>3, <2>1, <3>2
    <3>4. Holds(e.v, u)
      BY <3>2, <3>3, HoldsEarlier
    <3> QED
      BY <1>5, <1>6, <1>17, <3>1, <3>4
  <2>2. CASE ~(e # None /\ clock - e.at <= EdgeTTL)
    <3>1. Goto(p, "local") /\ edge' = [edge EXCEPT ![Colo[Here(p)]][Key(p)] = None] /\ UNCHANGED cache
      BY <1>8, <2>2 DEF Edge
    <3>2. \A c \in DOs, b \in Bookmarks : edge'[c][b] \in {edge[c][b], None}
      BY <1>1, <3>1, OneEntry DEF TypeOK
    <3>3. EdgeAge'
      BY <1>4, <3>2, EdgeAgeKept
    <3>4. ResultAge'
      BY <1>14, <3>1
    <3> QED
      BY <1>6, <3>1, <3>3, <3>4
  <2> QED
    BY <2>1, <2>2
<1>9. CASE Local(p)
  <2> PICK e : e = cache[Here(p)][Key(p)]
    OBVIOUS
  <2>0. UNCHANGED <<edge, cache>>
    BY <1>9 DEF Local
  <2>1. CASE e # None /\ clock - e.at < LocalTTL
    <3>1. Keep(p, "answer", e.v)
      BY <1>9, <2>1 DEF Local
    <3>2. e.at \in Nat /\ Holds(e.v, e.at - MaxSpan - FillAge)
      BY <1>1, <2>1, AgesTimes DEF LocalAge
    <3> PICK t \in Int : t = e.at - MaxSpan - FillAge
      BY <1>2, <3>2
    <3> PICK u \in Int : u = since - AnswerAge
      BY <1>2
    <3>3. u <= t
      BY <1>2, <1>3, <2>1, <3>2
    <3>4. Holds(e.v, u)
      BY <3>2, <3>3, HoldsEarlier
    <3> QED
      BY <1>5, <1>6, <1>17, <2>0, <3>1, <3>4
  <2>2. CASE ~(e # None /\ clock - e.at < LocalTTL)
    <3>1. Goto(p, "query")
      BY <1>9, <2>2 DEF Local
    <3> QED
      BY <1>5, <1>6, <1>14, <2>0, <3>1
  <2> QED
    BY <2>1, <2>2
<1>10. ASSUME NEW age \in Nat, age <= FillAge, Holds(v, since - age),
              cache' = [cache EXCEPT ![Here(p)][Key(p)] = [v |-> handler[p].v, at |-> clock]]
       PROVE  LocalAge'
  <2> PICK t \in Int : t = since - age
    BY <1>10
  <2> PICK u \in Int : u = clock - MaxSpan - FillAge
    BY <1>2
  <2>1. u <= t
    BY <1>2, <1>3, <1>10
  <2>2. Holds(v, u)
    BY <1>10, <2>1, HoldsEarlier
  <2> PICK x : x = [v |-> v, at |-> clock]
    OBVIOUS
  <2>3. \A d \in DOs, b \in Bookmarks : cache'[d][b] \in {cache[d][b], x}
    BY <1>1, <1>10, OneEntry DEF TypeOK
  <2> QED
    BY <1>4, <2>2, <2>3, LocalAgeKept
<1>11. CASE Fill(p)
  <2>1. /\ At(p, "fill") /\ Goto(p, "answer") /\ UNCHANGED edge
        /\ cache' = [cache EXCEPT ![Here(p)][Key(p)] = [v |-> handler[p].v, at |-> clock]]
    BY <1>11 DEF Fill
  <2> PICK t \in Int : t = since - FillAge
    BY <1>2
  <2> PICK u \in Int : u = since - AnswerAge
    BY <1>2
  <2>2. Holds(v, t)
    BY <2>1 DEF ResultAge, Aged, At
  <2>3. Holds(v, u)
    BY <1>2, <2>2, HoldsEarlier
  <2> QED
    BY <1>2, <1>5, <1>16, <1>10, <2>1, <2>2, <2>3
<1>12. CASE Store(p)
  <2>1. /\ At(p, "store") /\ Goto(p, "put") /\ UNCHANGED edge
        /\ cache' = [cache EXCEPT ![Here(p)][Key(p)] = [v |-> handler[p].v, at |-> clock]]
    BY <1>12 DEF Store
  <2>2. Holds(v, since - Lag)
    BY <2>1 DEF ResultAge, Aged, At
  <2>3. Lag <= FillAge
    BY <1>2
  <2> QED
    BY <1>2, <1>5, <1>15, <1>10, <2>1, <2>2, <2>3
<1>13. CASE Put(p)
  <2>1. /\ At(p, "put") /\ Goto(p, "answer") /\ UNCHANGED cache
        /\ \/ edge' = [edge EXCEPT ![Colo[Here(p)]][Key(p)] = [v |-> handler[p].v, at |-> clock]]
           \/ UNCHANGED edge
    BY <1>13 DEF Put
  <2> PICK t \in Int : t = since - Lag
    BY <1>2
  <2> PICK u \in Int : u = since - AnswerAge
    BY <1>2
  <2> PICK w \in Int : w = clock - MaxSpan - Lag
    BY <1>2
  <2>2. Holds(v, t)
    BY <2>1 DEF ResultAge, Aged, At
  <2>3. u <= t /\ w <= t
    BY <1>2, <1>3
  <2>4. Holds(v, u) /\ Holds(v, w)
    BY <2>2, <2>3, HoldsEarlier
  <2>5. EdgeAge'
    <3>1. CASE edge' = [edge EXCEPT ![Colo[Here(p)]][Key(p)] = [v |-> handler[p].v, at |-> clock]]
      <4> PICK x : x = [v |-> v, at |-> clock]
        OBVIOUS
      <4>1. \A c \in DOs, b \in Bookmarks : edge'[c][b] \in {edge[c][b], x}
        BY <1>1, <3>1, OneEntry DEF TypeOK
      <4> QED
        BY <1>4, <2>4, <4>1, EdgeAgeKept
    <3> QED
      BY <1>5, <2>1, <3>1
  <2> QED
    BY <1>6, <1>16, <2>1, <2>4, <2>5
<1> QED
  BY <1>8, <1>9, <1>11, <1>12, <1>13

(* A read of D1, for its own handler and for those that wait for it. *)
LEMMA QueryAges ==
    ASSUME Assumptions, AgesHold, NEW p \in Procs, Query(p)
    PROVE  EdgeAge' /\ LocalAge' /\ ResultAge'
<1> USE DEF AgesHold, Ages
<1>1. /\ Lag \in Nat /\ AnswerAge \in Nat /\ Lag <= AnswerAge /\ clock \in Nat
      /\ \A e \in 1..version : savedAt[e] \in Nat
  BY AgesTimes DEF FillAge, AnswerAge
<1>2. UNCHANGED <<savedAt, clock, edge, cache>>
  BY DEF Query, caches
<1>3. EdgeAge' /\ LocalAge'
  BY <1>2, EdgeAgeKept, LocalAgeKept
<1> DEFINE V == Readable(Key(p)) \cup (IF "query" \in Mishaps THEN {0} ELSE {})
<1>4. PICK v \in V : handler' = [q \in Procs |->
           IF q = p THEN [handler[p] EXCEPT !.at = "store", !.v = v]
           ELSE IF At(q, "join") /\ handler[q].of = p
           THEN [handler[q] EXCEPT !.at = "answer", !.v = v] ELSE handler[q]]
  BY DEF Query
<1>5. ASSUME NEW t \in Int, t <= clock - Lag PROVE Holds(v, t)
  <2>1. CASE v \in Readable(Key(p))
    <3>1. \A e \in 1..version : savedAt[e] <= clock - Lag => e <= v
      BY <2>1 DEF Readable
    <3>2. \A e \in 1..version : savedAt[e] < t => savedAt[e] <= clock - Lag
      BY <1>1, <1>5
    <3> QED
      BY <3>1, <3>2 DEF Holds
  <2>2. CASE "query" \in Mishaps /\ v = 0
    BY <2>2 DEF Holds, Failed
  <2> QED
    BY <2>1, <2>2
<1>6. ASSUME NEW q \in Procs, handler'[q] # handler[q]
      PROVE  Aged(handler'[q])
  <2>1. handler[q].at \in {"query", "join"}
    BY <1>4, <1>6 DEF Query, At
  <2>2. handler[q] \in Reqs /\ Busy(q)
    BY <2>1, ReadingIsReq, NotIdle DEF TypeOK, Reading, ReqSteps
  <2> PICK since \in Nat : since = handler[q].since
    BY <2>2, BusyFields
  <2>3. since <= clock
    BY <2>2 DEF Past
  <2> PICK h : h = handler'[q]
    OBVIOUS
  <2>4. h = [handler[q] EXCEPT !.at = "store", !.v = v] \/ h = [handler[q] EXCEPT !.at = "answer", !.v = v]
    BY <1>4, <1>6
  <2>5. h.since = since /\ h.v = v /\ h.at \in {"store", "answer"}
    BY <2>2, <2>4 DEF Reqs
  <2>6. Holds(v, since - Lag) /\ Holds(v, since - AnswerAge)
    <3> PICK t \in Int : t = since - Lag
      BY <1>1
    <3> PICK u \in Int : u = since - AnswerAge
      BY <1>1
    <3>1. t <= clock - Lag /\ u <= clock - Lag
      BY <1>1, <2>3
    <3> QED
      BY <1>5, <3>1
  <2> QED
    BY <2>5, <2>6 DEF Aged
<1>7. ResultAge'
  BY <1>2, <1>6, AgedKept
<1> QED
  BY <1>3, <1>7

(* A new REQ may be answered with the result a query under way has read. *)
LEMMA ReqAges ==
    ASSUME Assumptions, AgesHold, NEW p \in Procs, NEW s \in Sessions, Req(p, s)
    PROVE  EdgeAge' /\ LocalAge' /\ ResultAge'
<1> USE DEF AgesHold, Ages
<1>1. /\ Lag \in Nat /\ MaxSpan \in Nat /\ AnswerAge \in Nat /\ MaxSpan + Lag <= AnswerAge /\ clock \in Nat
  BY AgesTimes DEF FillAge, AnswerAge
<1>2. UNCHANGED <<savedAt, clock, edge, cache>> /\ Others(p)
  BY OneMoves DEF Req, caches
<1>3. EdgeAge' /\ LocalAge'
  BY <1>2, EdgeAgeKept, LocalAgeKept
<1>4. /\ handler \in [Procs -> Handlers] /\ Home[s] \in DOs /\ bookmark[s] \in Bookmarks
  BY DEF Assumptions, DeliveryPlaces, TypeOK
<1> PICK q : q = active[Home[s]][bookmark[s]]
  OBVIOUS
<1> DEFINE msg == [at |-> "edge", s |-> s, b |-> bookmark[s], v |-> 0, of |-> p, since |-> clock, own |-> wrote[s]]
<1> PICK h : h = handler'[p]
  OBVIOUS
<1>5. h = IF q = Nobody THEN msg
          ELSE IF At(q, "query") THEN [msg EXCEPT !.at = "join", !.of = q]
          ELSE [msg EXCEPT !.at = "answer", !.v = handler[q].v]
  BY <1>4 DEF Req
<1>6. CASE q = Nobody \/ At(q, "query")
  <2>1. h.at \in {"edge", "join"}
    BY <1>5, <1>6
  <2>2. h.at \notin {"store", "put", "fill", "answer"}
    BY <2>1
  <2>3. \A r \in Procs : handler'[r] = handler[r] \/ handler'[r].at \notin {"store", "put", "fill", "answer"}
    BY <1>2, <2>2 DEF Others
  <2> QED
    BY <1>2, <1>3, <2>3, AgedKept
<1>7. CASE ~(q = Nobody \/ At(q, "query"))
  <2>1. h.at = "answer" /\ h.v = handler[q].v /\ h.since = clock
    BY <1>5, <1>7
  <2>2. q \in Procs /\ handler[q].at \in {"store", "put"}
    BY <1>4, <1>7 DEF ActiveRuns, TypeOK, At
  <2>3. Busy(q) /\ Aged(handler[q])
    BY <2>2, NotIdle DEF ResultAge
  <2> PICK since \in Nat : since = handler[q].since
    BY <2>2, <2>3, BusyFields
  <2> PICK v : v = handler[q].v
    OBVIOUS
  <2> PICK t \in Int : t = since - Lag
    BY <1>1
  <2> PICK u \in Int : u = clock - AnswerAge
    BY <1>1
  <2>4. clock <= since + MaxSpan
    BY <2>2, <2>3 DEF Past
  <2>5. u <= t
    BY <1>1, <2>4
  <2>6. Holds(v, t)
    BY <2>2, <2>3 DEF Aged
  <2>7. Holds(v, u)
    BY <2>5, <2>6, HoldsEarlier
  <2>8. Aged(h)
    BY <2>1, <2>7 DEF Aged
  <2>9. \A r \in Procs : handler'[r] = handler[r] \/ Aged(handler'[r])
    BY <1>2, <2>8 DEF Others
  <2> QED
    BY <1>2, <1>3, <2>9, AgedKept
<1> QED
  BY <1>3, <1>6, <1>7

LEMMA AgesInductive ==
    ASSUME Assumptions, AgesHold, [Next]_vars
    PROVE  Ages'
<1> USE DEF AgesHold, Ages
<1>0. Past'
  BY PastInductive
<1>1. ASSUME UNCHANGED savedAt \/ Saved, clock' \in {clock, clock + 1}, UNCHANGED edge,
             \A d \in DOs, b \in Bookmarks : cache'[d][b] \in {cache[d][b], None},
             \A p \in Procs : \/ handler'[p] = handler[p]
                              \/ handler'[p].at \notin {"store", "put", "fill", "answer"}
      PROVE  EdgeAge' /\ LocalAge' /\ ResultAge'
  BY <1>1, EdgeAgeKept, LocalAgeKept, AgedKept
<1>2. ASSUME NEW p \in Procs, Save(p) \/ SaveReply(p) PROVE EdgeAge' /\ LocalAge' /\ ResultAge'
  <2>1. Saved /\ UNCHANGED <<clock, edge, cache>>
    BY <1>2 DEF Save, SaveReply, caches
  <2>2. Busy(p)
    BY <1>2, NotIdle DEF Save, SaveReply, At
  <2>3. Keep(p, "announce", version + 1) \/ Keep(p, "announce.reply", version + 1)
    BY <1>2 DEF Save, SaveReply
  <2>4. handler'[p].at \in {"announce", "announce.reply"} /\ Others(p)
    BY <2>2, <2>3, BusyFields, MovedFields
  <2>5. handler'[p].at \notin {"store", "put", "fill", "answer"}
    BY <2>4
  <2> QED
    BY <1>1, <2>1, <2>4, <2>5 DEF Others
<1>3. ASSUME NEW p \in Procs, UNCHANGED <<savedAt, clock, edge>>, Return(p),
             \A d \in DOs, b \in Bookmarks : cache'[d][b] \in {cache[d][b], None}
      PROVE  EdgeAge' /\ LocalAge' /\ ResultAge'
  <2>1. \A q \in Procs : handler'[q] = handler[q] \/ handler'[q] = Idle
    BY <1>3 DEF Return, TypeOK
  <2>2. Idle.at \notin {"store", "put", "fill", "answer"}
    BY DEF Idle
  <2> QED
    BY <1>1, <1>3, <2>1, <2>2
<1>4. ASSUME NEW d \in DOs PROVE \A c \in DOs, b \in Bookmarks : Invalidated(d)[c][b] \in {cache[c][b], None}
  BY DEF Invalidated, TypeOK
<1>5. ASSUME NEW p \in Procs, Answer(p) \/ Announce(p) \/ AnnounceReply(p) \/ Abort(p)
      PROVE  EdgeAge' /\ LocalAge' /\ ResultAge'
  <2>1. UNCHANGED <<savedAt, clock, edge>> /\ Return(p)
    BY <1>5 DEF Answer, Announce, AnnounceReply, Abort, caches
  <2>2. CASE UNCHANGED cache
    BY <1>3, <2>1, <2>2
  <2>3. CASE Announce(p)
    <3>1. handler[p].s \in Sessions
      BY <2>3, WritingIsWrite DEF Announce, At, TypeOK, Writes
    <3>2. Here(p) \in DOs
      BY <3>1 DEF Here, Assumptions, DeliveryPlaces
    <3> QED
      BY <1>3, <1>4, <2>1, <2>3, <3>2 DEF Announce
  <2> QED
    BY <1>5, <2>2, <2>3 DEF Answer, AnnounceReply, Abort, caches
<1>6. ASSUME NEW p \in Procs, NEW s \in Sessions, Write(p, s, "event") \/ Write(p, s, "reply")
      PROVE  EdgeAge' /\ LocalAge' /\ ResultAge'
  <2>1. UNCHANGED <<savedAt, clock, edge, cache>> /\ Others(p)
    BY <1>6, OneMoves DEF Write, caches
  <2>2. handler'[p].at \in {"save", "save.reply"}
    BY <1>6 DEF Write, TypeOK
  <2>3. handler'[p].at \notin {"store", "put", "fill", "answer"}
    BY <2>2
  <2> QED
    BY <1>1, <2>1, <2>3 DEF Others
<1>7. ASSUME NEW d \in DOs, Crash(d) PROVE EdgeAge' /\ LocalAge' /\ ResultAge'
  <2>1. UNCHANGED <<savedAt, clock, edge>>
    BY <1>7 DEF Crash
  <2>2. \A c \in DOs, b \in Bookmarks : cache'[c][b] \in {cache[c][b], None}
    BY <1>7 DEF Crash, TypeOK
  <2>3. \A p \in Procs : handler'[p] = handler[p] \/ handler'[p] = Idle
    BY <1>7 DEF Crash
  <2>4. Idle.at \notin {"store", "put", "fill", "answer"}
    BY DEF Idle
  <2> QED
    BY <1>1, <2>1, <2>2, <2>3, <2>4
<1>8. ASSUME NEW d \in DOs, \/ \E v \in Versions : Receive(d, v) \/ Lose(d, v)
                            \/ \E b \in Bookmarks : Evict(d, b)
      PROVE  EdgeAge' /\ LocalAge' /\ ResultAge'
  <2>1. UNCHANGED <<savedAt, clock, edge, handler>>
    BY <1>8 DEF Receive, Lose, Evict, caches
  <2>2. \A c \in DOs, k \in Bookmarks : cache'[c][k] \in {cache[c][k], None}
    <3>1. CASE \E v \in Versions : Receive(d, v) \/ Lose(d, v)
      BY <1>4, <3>1 DEF Receive, Lose, caches
    <3>2. CASE \E b \in Bookmarks : Evict(d, b)
      <4> PICK b \in Bookmarks : Evict(d, b)
        BY <3>2
      <4> QED
        BY OneEntry DEF Evict, TypeOK
    <3> QED
      BY <1>8, <3>1, <3>2
  <2> QED
    BY <1>1, <2>1, <2>2
<1>9. ASSUME (\E s \in Sessions : CloseSubscription(s) \/ Reconnect(s)) \/ Tick \/ UNCHANGED vars
      PROVE  EdgeAge' /\ LocalAge' /\ ResultAge'
  <2>1. UNCHANGED <<savedAt, edge, cache, handler>> /\ clock' \in {clock, clock + 1}
    BY <1>9 DEF CloseSubscription, Reconnect, Tick, vars, caches
  <2> QED
    BY <1>1, <2>1
<1>10. EdgeAge' /\ LocalAge' /\ ResultAge'
  BY <1>2, <1>5, <1>6, <1>7, <1>8, <1>9, CacheAges, QueryAges, ReqAges DEF Next, ReqStep, WriteStep
<1> QED
  BY <1>0, <1>10

(* The caches bound how old an answer can be: each takes a result at most  *)
(* its own time after it had it, one is filled from the other, and a       *)
(* message takes no longer than MaxSpan.                                   *)
THEOREM AnswersAreFresh == ASSUME Assumptions PROVE Spec => BoundedStaleness
<1>1. Init => AgesHold
  <2> SUFFICES ASSUME Init PROVE AgesHold
    OBVIOUS
  <2>1. TypeOK /\ ActiveRuns
    BY TypeInitial
  <2>2. EdgeAge /\ LocalAge
    BY DEF Init, EdgeAge, LocalAge, None
  <2>3. Past /\ ResultAge
    BY DEF Init, Past, ResultAge, Aged, Busy, Idle, version
  <2> QED
    BY <2>1, <2>2, <2>3 DEF AgesHold, Ages
<1>2. AgesHold /\ [Next]_vars => AgesHold'
  BY TypeInductive, RunsInductive, AgesInductive DEF AgesHold
<1>3. ASSUME AgesHold, NEW p \in Procs, Answer(p), ~Failed(handler[p].v), NEW e \in 1..version,
             savedAt[e] + Lag + EdgeTTL + LocalTTL + 2 * MaxSpan <= handler[p].since
      PROVE  e <= handler[p].v
  <2>1. Busy(p) /\ Aged(handler[p]) /\ handler[p].at = "answer"
    BY <1>3, NotIdle DEF AgesHold, Ages, ResultAge, Answer, At
  <2>2. Holds(handler[p].v, handler[p].since - AnswerAge)
    BY <2>1 DEF Aged
  <2>3. savedAt[e] < handler[p].since - AnswerAge
    <3>1. handler[p].since \in Nat /\ savedAt[e] \in Nat
      BY <1>3, <2>1, BusyFields, AgesTimes DEF AgesHold
    <3>2. EdgeTTL \in Nat /\ LocalTTL \in Nat \ {0} /\ Lag \in Nat /\ MaxSpan \in Nat
      BY <1>3, AgesTimes DEF AgesHold
    <3> QED
      BY <1>3, <3>1, <3>2 DEF FillAge, AnswerAge
  <2> QED
    BY <1>3, <2>2, <2>3 DEF Holds
<1>4. AgesHold => [\A p \in Procs : Answer(p) /\ ~Failed(handler[p].v) =>
         \A e \in 1..version :
            savedAt[e] + Lag + EdgeTTL + LocalTTL + 2 * MaxSpan <= handler[p].since
               => e <= handler[p].v]_vars
  BY <1>3
<1> QED
  BY <1>1, <1>2, <1>4, PTL DEF Spec, BoundedStaleness
=============================================================================
