-------------------------- MODULE EventStoreProofs --------------------------
(* Proofs about EventStore, for any events, any number of handlers and any *)
(* failures; and about Startup, for any visits, events and tags.           *)
EXTENDS EventStore, Startup, TLAPS

Flight == [at : Steps, event : Events, todo : SUBSET Events]
Working(e, t, s) == [at |-> s, event |-> e, todo |-> t]

\* A step of a handler concerns the handler alone.
Sets(p, h) ==
    /\ handler'[p] = h
    /\ h \in Handlers
    /\ \A q \in Procs : q # p => handler'[q] = handler[q]
    /\ handler' \in [Procs -> Handlers]

LEMMA Idling == Idle \in Handlers /\ Idle.at = "idle" /\ Idle \notin Flight
BY DEF Idle, Handlers, Flight, Steps

LEMMA Reads ==
    /\ \A p, e, t, s : Sets(p, Working(e, t, s)) =>
            handler'[p].at = s /\ handler'[p].event = e /\ handler'[p].todo = t
    /\ \A p : Sets(p, Idle) => handler'[p].at = "idle"
BY DEF Sets, Working, Idle

LEMMA Flying ==
    ASSUME TypeOK, NEW p \in Procs, ~At(p, "idle")
    PROVE  /\ handler[p] \in Flight
           /\ handler[p] = Working(handler[p].event, handler[p].todo, handler[p].at)
           /\ handler[p].event \in Events /\ handler[p].todo \subseteq Events
           /\ handler[p].at \in Steps
BY DEF TypeOK, Handlers, Flight, Idle, At, Working

LEMMA Returning ==
    ASSUME TypeOK, NEW p \in Procs, Return(p)
    PROVE  Sets(p, Idle)
BY Idling DEF Return, Sets, TypeOK

LEMMA GoingWith ==
    ASSUME TypeOK, NEW p \in Procs, ~At(p, "idle"),
           NEW s \in Steps, NEW t \in SUBSET Events, GotoWith(p, s, t)
    PROVE  Sets(p, Working(handler[p].event, t, s))
<1>1. handler[p] = Working(handler[p].event, handler[p].todo, handler[p].at)
  BY Flying
<1>2. handler'[p] = [[handler[p] EXCEPT !.at = s] EXCEPT !.todo = t]
  BY DEF GotoWith, TypeOK
<1>3. handler'[p] = Working(handler[p].event, t, s)
  BY <1>1, <1>2 DEF Working
<1>4. Working(handler[p].event, t, s) \in Handlers
  BY Flying DEF Working, Handlers
<1>5. \A q \in Procs : q # p => handler'[q] = handler[q]
  BY DEF GotoWith, TypeOK
<1>6. handler' \in [Procs -> Handlers]
  BY <1>3, <1>4, <1>5 DEF GotoWith, TypeOK
<1> QED
  BY <1>3, <1>4, <1>5, <1>6 DEF Sets

LEMMA Going ==
    ASSUME TypeOK, NEW p \in Procs, ~At(p, "idle"), NEW s \in Steps, Goto(p, s)
    PROVE  Sets(p, Working(handler[p].event, handler[p].todo, s))
<1>1. handler[p] = Working(handler[p].event, handler[p].todo, handler[p].at)
  BY Flying
<1>2. handler'[p] = [handler[p] EXCEPT !.at = s]
  BY DEF Goto, TypeOK
<1>3. handler'[p] = Working(handler[p].event, handler[p].todo, s)
  BY <1>1, <1>2 DEF Working
<1>4. Working(handler[p].event, handler[p].todo, s) \in Handlers
  BY Flying DEF Working, Handlers
<1>5. \A q \in Procs : q # p => handler'[q] = handler[q]
  BY DEF Goto, TypeOK
<1>6. handler' \in [Procs -> Handlers]
  BY <1>3, <1>4, <1>5 DEF Goto, TypeOK
<1> QED
  BY <1>3, <1>4, <1>5, <1>6 DEF Sets

-----------------------------------------------------------------------------
(* What each action does to the handler, and when. *)

LEMMA SendDoes ==
    ASSUME TypeOK, NEW p \in Procs, NEW e \in Events, Send(p, e)
    PROVE  \E s \in {"owners", "match"} : Sets(p, Working(e, {}, s))
<1> DEFINE s == IF IsDeletion(e) THEN "owners" ELSE "match"
<1>1. s \in {"owners", "match"} /\ Working(e, {}, s) \in Handlers
  BY DEF Working, Handlers, Steps
<1>2. handler' = [handler EXCEPT ![p] = Working(e, {}, s)]
  BY DEF Send, Working
<1>3. Sets(p, Working(e, {}, s))
  BY <1>1, <1>2 DEF Sets, TypeOK
<1> QED
  BY <1>1, <1>3

LEMMA DeletionDoes ==
    ASSUME TypeOK, NEW p \in Procs, Owners(p) \/ Erase(p) \/ SkipErase(p)
    PROVE  /\ handler[p].at \in {"owners", "erase"}
           /\ \E s \in {"match", "erase"}, t \in SUBSET Events :
                /\ Sets(p, Working(handler[p].event, t, s))
                /\ At(p, "owners") =>
                     \A f \in t : Author[f] = Author[handler[p].event]
                /\ At(p, "erase") => t \subseteq handler[p].todo
<1> DEFINE e == handler[p].event
<1>1. handler[p].at \in {"owners", "erase"} /\ ~At(p, "idle")
  BY DEF Owners, Erase, SkipErase, At
<1>2. "match" \in Steps /\ "erase" \in Steps
  BY DEF Steps
<1>3. CASE Owners(p)
  <2> DEFINE own == {t \in Deletes[e] \cap stored : Author[t] = Author[e]}
             s == IF own = {} THEN "match" ELSE "erase"
  <2>1. own \in SUBSET Events /\ s \in {"match", "erase"} /\ s \in Steps
    BY <1>2 DEF TypeOK
  <2>2. GotoWith(p, s, own) /\ At(p, "owners")
    BY <1>3 DEF Owners
  <2> HIDE DEF s
  <2>3. Sets(p, Working(e, own, s))
    BY <1>1, <2>1, <2>2, GoingWith
  <2> QED
    BY <1>1, <2>1, <2>2, <2>3 DEF At
<1>4. CASE Erase(p)
  <2>1. PICK part \in SUBSET handler[p].todo :
          GotoWith(p, IF handler[p].todo \ part = {} THEN "match" ELSE "erase",
                   handler[p].todo \ part)
    BY <1>4 DEF Erase
  <2> DEFINE rest == handler[p].todo \ part
             s == IF rest = {} THEN "match" ELSE "erase"
  <2>2. rest \in SUBSET Events /\ s \in {"match", "erase"} /\ s \in Steps
    BY <1>1, <1>2, Flying
  <2>3. rest \subseteq handler[p].todo /\ GotoWith(p, s, rest)
    BY <2>1
  <2> HIDE DEF s, rest
  <2>4. Sets(p, Working(e, rest, s))
    BY <1>1, <2>2, <2>3, GoingWith
  <2> QED
    BY <1>1, <1>4, <2>2, <2>3, <2>4 DEF At, Erase
<1>5. CASE SkipErase(p)
  <2>1. Sets(p, Working(e, {}, "match"))
    BY <1>1, <1>2, <1>5, GoingWith DEF SkipErase
  <2> QED
    BY <1>1, <2>1
<1> QED
  BY <1>3, <1>4, <1>5

LEMMA MatchDoes ==
    ASSUME TypeOK, NEW p \in Procs, Match(p)
    PROVE  /\ At(p, "match")
           /\ \/ /\ Sets(p, Idle) /\ handler[p].event \in known
                 /\ refused' = refused \cup {handler[p].event}
              \/ /\ Sets(p, Working(handler[p].event, handler[p].todo, "select"))
                 /\ refused' = refused
<1>1. ~At(p, "idle") /\ "select" \in Steps /\ At(p, "match")
  BY DEF Match, At, Steps
<1>2. CASE Goto(p, "select") /\ refused' = refused
  BY <1>1, <1>2, Going
<1>3. CASE handler[p].event \in known /\ Refuse(p)
  BY <1>1, <1>3, Returning DEF Refuse
<1> QED
  BY <1>2, <1>3 DEF Match

LEMMA SelectDoes ==
    ASSUME TypeOK, NEW p \in Procs, Select(p)
    PROVE  /\ At(p, "select")
           /\ \/ /\ Sets(p, Idle) /\ handler[p].event \in stored
                 /\ refused' = refused \cup {handler[p].event}
              \/ /\ \E s \in {"find", "insert"} :
                      /\ Sets(p, Working(handler[p].event, handler[p].todo, s))
                      /\ s = "insert" => Place[handler[p].event] = Nowhere
                 /\ refused' = refused
<1> DEFINE e == handler[p].event
           s == IF Place[e] = Nowhere THEN "insert" ELSE "find"
<1>1. ~At(p, "idle") /\ s \in Steps /\ s \in {"find", "insert"} /\ At(p, "select")
  BY DEF Select, At, Steps
<1>2. s = "insert" => Place[e] = Nowhere
  OBVIOUS
<1>3. CASE e \in stored
  BY <1>1, <1>3, Returning DEF Refuse, Select
<1>4. CASE e \notin stored
  <2>1. Goto(p, s) /\ refused' = refused
    BY <1>4 DEF Select
  <2> HIDE DEF s
  <2>2. Sets(p, Working(e, handler[p].todo, s))
    BY <1>1, <2>1, Going
  <2> QED
    BY <1>1, <1>2, <2>1, <2>2
<1> QED
  BY <1>3, <1>4

LEMMA FindDoes ==
    ASSUME TypeOK, NEW p \in Procs, Find(p)
    PROVE  /\ At(p, "find")
           /\ \/ /\ Sets(p, Idle) /\ refused' = refused \cup {handler[p].event}
                 /\ \E v \in Versions(handler[p].event) : Stamp[handler[p].event] <= Stamp[v]
              \/ /\ Sets(p, Working(handler[p].event, handler[p].todo, "insert"))
                 /\ Versions(handler[p].event) = {}
                 /\ refused' = refused
              \/ /\ \E v \in Versions(handler[p].event) :
                      /\ Sets(p, Working(handler[p].event, {v}, "replace"))
                      /\ ~(Stamp[handler[p].event] <= Stamp[v])
                 /\ refused' = refused
<1> DEFINE e == handler[p].event
<1>1. ~At(p, "idle") /\ "insert" \in Steps /\ "replace" \in Steps /\ At(p, "find")
  BY DEF Find, At, Steps
<1>2. CASE Versions(e) = {} /\ Goto(p, "insert") /\ refused' = refused
  BY <1>1, <1>2, Going
<1>3. ASSUME NEW v \in Versions(e), Stamp[e] <= Stamp[v], Refuse(p)
      PROVE  /\ Sets(p, Idle) /\ refused' = refused \cup {e}
             /\ \E w \in Versions(e) : Stamp[e] <= Stamp[w]
  BY <1>3, Returning DEF Refuse
<1>4. ASSUME NEW v \in Versions(e), ~(Stamp[e] <= Stamp[v]),
             GotoWith(p, "replace", {v}), refused' = refused
      PROVE  /\ \E w \in Versions(e) :
                  Sets(p, Working(e, {w}, "replace")) /\ ~(Stamp[e] <= Stamp[w])
             /\ refused' = refused
  <2>1. {v} \in SUBSET Events
    BY DEF Versions, TypeOK
  <2>2. Sets(p, Working(e, {v}, "replace"))
    BY <1>1, <1>4, <2>1, GoingWith
  <2> QED
    BY <1>4, <2>2
<1>5. \/ Versions(e) = {} /\ Goto(p, "insert") /\ refused' = refused
      \/ \E v \in Versions(e) :
           \/ Stamp[e] <= Stamp[v] /\ Refuse(p)
           \/ ~(Stamp[e] <= Stamp[v]) /\ GotoWith(p, "replace", {v}) /\ refused' = refused
  BY DEF Find
<1> QED
  BY <1>1, <1>2, <1>3, <1>4, <1>5

LEMMA ReplaceDoes ==
    ASSUME TypeOK, NEW p \in Procs, Replace(p)
    PROVE  At(p, "replace") /\ Sets(p, Working(handler[p].event, handler[p].todo, "insert"))
<1>1. ~At(p, "idle") /\ "insert" \in Steps /\ At(p, "replace") /\ Goto(p, "insert")
  BY DEF Replace, At, Steps
<1> QED
  BY <1>1, Going

LEMMA InsertDoes ==
    ASSUME TypeOK, NEW p \in Procs, Insert(p)
    PROVE  /\ At(p, "insert")
           /\ \/ /\ Sets(p, Idle) /\ handler[p].event \in stored
                 /\ refused' = refused \cup {handler[p].event}
                 /\ stored' = stored /\ gone' = gone
              \/ /\ Sets(p, Working(handler[p].event, handler[p].todo, "tags"))
                 /\ handler[p].event \notin stored /\ refused' = refused
                 /\ stored' = stored \cup {handler[p].event}
                 /\ gone' = gone \ {handler[p].event}
<1>1. ~At(p, "idle") /\ "tags" \in Steps /\ At(p, "insert")
  BY DEF Insert, At, Steps
<1>2. CASE handler[p].event \in stored
  BY <1>1, <1>2, Returning DEF Insert, Refuse
<1>3. CASE handler[p].event \notin stored
  BY <1>1, <1>3, Going DEF Insert
<1> QED
  BY <1>2, <1>3

LEMMA TagsDoes ==
    ASSUME TypeOK, NEW p \in Procs, Tags(p)
    PROVE  /\ At(p, "tags")
           /\ \E s \in {"index", "put"} :
                /\ Sets(p, Working(handler[p].event, handler[p].todo, s))
                /\ s = "index" <=> handler[p].event \in Large
<1> DEFINE s == IF handler[p].event \in Large THEN "index" ELSE "put"
<1>1. ~At(p, "idle") /\ s \in Steps /\ s \in {"index", "put"} /\ At(p, "tags")
  BY DEF Tags, At, Steps
<1>2. Goto(p, s) /\ (s = "index" <=> handler[p].event \in Large)
  BY DEF Tags
<1> HIDE DEF s
<1>3. Sets(p, Working(handler[p].event, handler[p].todo, s))
  BY <1>1, <1>2, Going
<1> QED
  BY <1>1, <1>2, <1>3

LEMMA IndexDoes ==
    ASSUME TypeOK, NEW p \in Procs, Index(p)
    PROVE  At(p, "index") /\ Sets(p, Working(handler[p].event, handler[p].todo, "put"))
<1>1. ~At(p, "idle") /\ "put" \in Steps /\ At(p, "index") /\ Goto(p, "put")
  BY DEF Index, At, Steps
<1> QED
  BY <1>1, Going

LEMMA EndDoes ==
    ASSUME TypeOK, NEW p \in Procs, TagsRejected(p) \/ Put(p) \/ Fail(p)
    PROVE  ~At(p, "idle") /\ Sets(p, Idle)
<1>1. ~At(p, "idle") /\ Return(p)
  BY DEF TagsRejected, Put, Fail, At
<1> QED
  BY <1>1, Returning

-----------------------------------------------------------------------------
(* The tables keep their shapes, and rows of tags have their event. *)

HandlerStep(p) ==
    \/ \E e \in Events : Send(p, e)
    \/ Owners(p) \/ Erase(p) \/ SkipErase(p)
    \/ Match(p) \/ Select(p) \/ Find(p) \/ Replace(p) \/ Insert(p)
    \/ Tags(p) \/ TagsRejected(p) \/ Index(p) \/ Put(p) \/ Fail(p)
PrunerStep == PruneSelect \/ PruneErase \/ PruneFail

LEMMA Cases ==
    ASSUME [Next]_vars
    PROVE  (\E p \in Procs : HandlerStep(p)) \/ PrunerStep \/ UNCHANGED vars
BY DEF Next, HandlerStep, PrunerStep

LEMMA HandlersTyped ==
    ASSUME TypeOK, NEW p \in Procs, HandlerStep(p)
    PROVE  /\ handler' \in [Procs -> Handlers]
           /\ \A q \in Procs : q # p => handler'[q] = handler[q]
<1>1. ASSUME NEW e \in Events, Send(p, e)
      PROVE  handler' \in [Procs -> Handlers] /\ \A q \in Procs : q # p => handler'[q] = handler[q]
  BY <1>1, SendDoes DEF Sets
<1>2. CASE Owners(p) \/ Erase(p) \/ SkipErase(p)
  BY <1>2, DeletionDoes DEF Sets
<1>3. CASE Match(p)
  BY <1>3, MatchDoes DEF Sets
<1>4. CASE Select(p)
  BY <1>4, SelectDoes DEF Sets
<1>5. CASE Find(p)
  BY <1>5, FindDoes DEF Sets
<1>6. CASE Replace(p)
  BY <1>6, ReplaceDoes DEF Sets
<1>7. CASE Insert(p)
  BY <1>7, InsertDoes DEF Sets
<1>8. CASE Tags(p)
  BY <1>8, TagsDoes DEF Sets
<1>9. CASE Index(p)
  BY <1>9, IndexDoes DEF Sets
<1>10. CASE TagsRejected(p) \/ Put(p) \/ Fail(p)
  BY <1>10, EndDoes DEF Sets
<1> QED
  BY <1>1, <1>2, <1>3, <1>4, <1>5, <1>6, <1>7, <1>8, <1>9, <1>10 DEF HandlerStep

(* Deleting rows keeps the shapes, and forgets no event. *)
LEMMA RemoveKeeps ==
    ASSUME TypeOK, NEW lost \in SUBSET Events, NEW why, Remove(lost, why)
    PROVE  /\ stored' \subseteq Events /\ tagged' \subseteq stored' /\ indexed' \subseteq Events
           /\ removed' \subseteq Events /\ gone' \subseteq Events /\ torn' \subseteq Events
           /\ stored' \cup removed' = stored \cup removed
BY DEF TypeOK, Remove

LEMMA TypeInductive == TypeOK /\ [Next]_vars => TypeOK'
<1> SUFFICES ASSUME TypeOK, [Next]_vars PROVE TypeOK'
  OBVIOUS
<1>1. ASSUME NEW p \in Procs, HandlerStep(p)
      PROVE  TypeOK'
  <2>1. handler' \in [Procs -> Handlers]
    BY <1>1, HandlersTyped
  <2>2. ASSUME NEW e \in Events, Send(p, e)
        PROVE  TypeOK'
    BY <2>1, <2>2, EventData DEF Send, TypeOK, tables, histories
  <2>3. CASE Owners(p) \/ SkipErase(p) \/ TagsRejected(p)
    BY <2>1, <2>3 DEF Owners, SkipErase, TagsRejected, TypeOK, tables, histories
  <2>4. CASE Erase(p)
    <3>1. PICK part \in SUBSET handler[p].todo :
            Remove(part, {t \in Events : Author[t] = Author[handler[p].event]})
      BY <2>4 DEF Erase
    <3>2. part \in SUBSET Events
      BY <2>4, Flying DEF Erase, At
    <3> QED
      BY <2>1, <2>4, <3>1, <3>2, RemoveKeeps DEF Erase, TypeOK
  <2>5. CASE Replace(p)
    <3>1. handler[p].todo \in SUBSET Events
      BY <2>5, Flying DEF Replace, At
    <3> QED
      BY <2>1, <2>5, <3>1, RemoveKeeps DEF Replace, TypeOK
  <2>6. CASE Match(p) \/ Select(p)
    <3>1. refused' \subseteq Events
      BY <2>6, MatchDoes, SelectDoes, Flying DEF At, TypeOK
    <3> QED
      BY <2>1, <2>6, <3>1 DEF Match, Select, TypeOK, tables
  <2>7. CASE Find(p)
    <3>1. refused' \subseteq Events /\ handler[p].event \in Events
      BY <2>7, FindDoes, Flying DEF At, TypeOK
    <3>2. raced' \subseteq {Place[e] : e \in Events}
      BY <2>7, <3>1 DEF Find, TypeOK
    <3> QED
      BY <2>1, <2>7, <3>1, <3>2 DEF Find, TypeOK, tables
  <2>8. CASE Insert(p)
    <3>1. handler[p].event \in Events
      BY <2>8, Flying DEF Insert, At
    <3>2. /\ refused' \subseteq Events /\ stored' \subseteq Events
          /\ gone' \subseteq Events /\ stored \subseteq stored'
      BY <2>8, <3>1, InsertDoes DEF TypeOK
    <3> QED
      BY <2>1, <2>8, <3>2 DEF Insert, TypeOK
  <2>9. CASE Tags(p) \/ Index(p)
    <3>1. handler[p].event \in Events
      BY <2>9, Flying DEF Tags, Index, At
    <3>2. tagged' \subseteq stored /\ indexed' \subseteq Events /\ stored' = stored
      BY <2>9, <3>1 DEF Tags, Index, TypeOK
    <3> QED
      BY <2>1, <2>9, <3>2 DEF Tags, Index, TypeOK, histories
  <2>10. CASE Put(p)
    <3>1. handler[p].event \in Events
      BY <2>10, Flying DEF Put, At
    <3>2. saved' \in [Events -> 0..2] /\ known' \subseteq Events
      BY <2>10, <3>1 DEF Put, TypeOK
    <3> QED
      BY <2>1, <2>10, <3>2 DEF Put, TypeOK, tables
  <2>11. CASE Fail(p)
    <3>1. handler[p].event \in Events
      BY <2>11, Flying DEF Fail
    <3>2. torn' \subseteq Events /\ gone' \subseteq Events
      BY <2>11, <3>1 DEF Fail, TypeOK
    <3> QED
      BY <2>1, <2>11, <3>2 DEF Fail, TypeOK, tables
  <2> QED
    BY <1>1, <2>2, <2>3, <2>4, <2>5, <2>6, <2>7, <2>8, <2>9, <2>10, <2>11 DEF HandlerStep
<1>2. CASE PruneErase
  BY <1>2, RemoveKeeps DEF PruneErase, TypeOK
<1>3. CASE PruneSelect \/ PruneFail
  BY <1>3 DEF PruneSelect, PruneFail, TypeOK, tables, histories
<1>4. CASE UNCHANGED vars
  BY <1>4 DEF vars, TypeOK, tables, histories
<1> QED
  BY <1>1, <1>2, <1>3, <1>4, Cases DEF PrunerStep

LEMMA InitialType == Init => TypeOK
BY EventData, Idling DEF Init, TypeOK

(* THEOREM: the tables keep their shapes and tags only has rows of events   *)
(* that are stored.                                                         *)
THEOREM TypeCorrect == Spec => []TypeOK
BY InitialType, TypeInductive, PTL DEF Spec

-----------------------------------------------------------------------------
(* What was stored once: it still is, or it has been removed. *)
Ever == stored \cup removed
Past(p) == handler[p].at \in {"tags", "index", "put"}

\* Whatever is past its INSERT, cached, accepted or refused was stored.
EverInv ==
    /\ known \subseteq Ever
    /\ \A p \in Procs : Past(p) => handler[p].event \in Ever
    /\ \A e \in Events : saved[e] > 0 => e \in Ever
    /\ RefusedWasStored

LEMMA EverGrows ==
    ASSUME TypeOK, [Next]_vars
    PROVE  Ever \subseteq Ever'
<1>1. ASSUME NEW p \in Procs, HandlerStep(p)
      PROVE  Ever \subseteq Ever'
  <2>1. CASE Erase(p)
    <3>1. PICK part \in SUBSET handler[p].todo :
            Remove(part, {t \in Events : Author[t] = Author[handler[p].event]})
      BY <2>1 DEF Erase
    <3>2. part \in SUBSET Events
      BY <2>1, Flying DEF Erase, At
    <3> QED
      BY <3>1, <3>2, RemoveKeeps DEF Ever
  <2>2. CASE Replace(p)
    BY <2>2, Flying, RemoveKeeps DEF Replace, At, Ever
  <2>3. CASE Insert(p)
    BY <2>3, InsertDoes DEF Insert, Ever
  <2>4. CASE ~Erase(p) /\ ~Replace(p) /\ ~Insert(p)
    BY <1>1, <2>4 DEF HandlerStep, Send, Owners, SkipErase, Match, Select, Find, Tags,
         TagsRejected, Index, Put, Fail, Ever, tables, histories
  <2> QED
    BY <2>1, <2>2, <2>3, <2>4
<1>2. CASE PruneErase
  BY <1>2, RemoveKeeps DEF PruneErase, TypeOK, Ever
<1>3. CASE PruneSelect \/ PruneFail \/ UNCHANGED vars
  BY <1>3 DEF PruneSelect, PruneFail, vars, Ever, tables, histories
<1> QED
  BY <1>1, <1>2, <1>3, Cases DEF PrunerStep

LEMMA EverInductive ==
    ASSUME TypeOK, EverInv, [Next]_vars
    PROVE  EverInv'
<1>1. Ever \subseteq Ever'
  BY EverGrows
<1>2. ASSUME NEW p \in Procs, HandlerStep(p)
      PROVE  EverInv'
  <2> DEFINE e == handler[p].event
  <2> SUFFICES /\ known' \subseteq known \cup (IF Past(p) THEN {e} ELSE {})
               /\ Past(p)' => handler'[p].event \in Ever'
               /\ \A d \in Events : saved'[d] > 0 => saved[d] > 0 \/ (Past(p) /\ d = e)
               /\ \/ refused' = refused
                  \/ /\ refused' = refused \cup {e}
                     /\ \E n \in Ever : n = e \/ (SamePlace(n, e) /\ Stamp[n] >= Stamp[e])
    <3>1. \A q \in Procs : q # p => handler'[q] = handler[q]
      BY <1>2, HandlersTyped
    <3>2. RefusedWasStored'
      BY <1>1 DEF EverInv, RefusedWasStored, Ever, SamePlace
    <3> QED
      BY <1>1, <3>1, <3>2 DEF EverInv, Past
  <2>1. ASSUME NEW d \in Events, Send(p, d)
        PROVE  known' = known /\ saved' = saved /\ refused' = refused /\ ~Past(p)'
    <3>1. ~Past(p)'
      BY <2>1, SendDoes, Reads DEF Past
    <3> QED
      BY <2>1, <3>1 DEF Send, histories
  <2>2. CASE Owners(p) \/ Erase(p) \/ SkipErase(p)
    <3>1. known' = known /\ saved' = saved /\ refused' = refused
      BY <2>2 DEF Owners, Erase, SkipErase, histories
    <3>2. ~Past(p)'
      BY <2>2, DeletionDoes, Reads DEF Past
    <3> QED
      BY <3>1, <3>2
  <2>3. CASE Match(p)
    <3>1. known' = known /\ saved' = saved
      BY <2>3 DEF Match
    <3>2. ~Past(p)'
      BY <2>3, MatchDoes, Reads DEF Past
    <3>3. refused' = refused \/ (refused' = refused \cup {e} /\ e \in Ever)
      BY <2>3, MatchDoes DEF EverInv
    <3> QED
      BY <3>1, <3>2, <3>3
  <2>4. CASE Select(p)
    <3>1. known' = known /\ saved' = saved
      BY <2>4 DEF Select
    <3>2. ~Past(p)'
      BY <2>4, SelectDoes, Reads DEF Past
    <3>3. refused' = refused \/ (refused' = refused \cup {e} /\ e \in Ever)
      BY <2>4, SelectDoes DEF Ever
    <3> QED
      BY <3>1, <3>2, <3>3
  <2>5. CASE Find(p)
    <3>1. known' = known /\ saved' = saved
      BY <2>5 DEF Find
    <3>2. ~Past(p)'
      <4>1. ASSUME NEW v \in Versions(e), Sets(p, Working(e, {v}, "replace"))
            PROVE  handler'[p].at = "replace"
        BY <4>1, Reads
      <4>2. CASE Sets(p, Idle) \/ Sets(p, Working(e, handler[p].todo, "insert"))
        BY <4>2, Reads DEF Past
      <4>3. CASE \E v \in Versions(e) : Sets(p, Working(e, {v}, "replace"))
        BY <4>1, <4>3 DEF Past
      <4> QED
        BY <2>5, <4>2, <4>3, FindDoes
    <3>3. e \in Events
      BY <2>5, Flying DEF Find, At
    <3>4. \A v \in Versions(e) : /\ v \in Ever /\ SamePlace(v, e)
                                 /\ Stamp[e] <= Stamp[v] => Stamp[v] >= Stamp[e]
      BY <3>3, EventData DEF Versions, Ever, TypeOK
    <3> QED
      BY <2>5, <3>1, <3>2, <3>4, FindDoes
  <2>6. CASE Replace(p)
    BY <2>6, ReplaceDoes, Reads DEF Replace, Past
  <2>7. CASE Insert(p)
    <3>1. known' = known /\ saved' = saved
      BY <2>7 DEF Insert
    <3>2. Past(p)' => handler'[p].event \in Ever'
      BY <2>7, InsertDoes, Reads DEF Past, Ever
    <3>3. refused' = refused \/ (refused' = refused \cup {e} /\ e \in Ever)
      BY <2>7, InsertDoes DEF Ever
    <3> QED
      BY <3>1, <3>2, <3>3
  <2>8. CASE Tags(p) \/ Index(p)
    <3>1. known' = known /\ saved' = saved /\ refused' = refused
      BY <2>8 DEF Tags, Index, histories
    <3>2. Past(p) /\ handler'[p].event = e
      BY <2>8, TagsDoes, IndexDoes, Reads DEF Past, At
    <3> QED
      BY <1>1, <3>1, <3>2 DEF EverInv
  <2>9. CASE TagsRejected(p) \/ Fail(p)
    <3>1. known' = known /\ saved' = saved /\ refused' = refused
      BY <2>9 DEF TagsRejected, Fail, histories
    <3>2. ~Past(p)'
      BY <2>9, EndDoes, Reads DEF Past
    <3> QED
      BY <3>1, <3>2
  <2>10. CASE Put(p)
    <3>1. known' = known \cup {e} /\ refused' = refused /\ Past(p)
      BY <2>10 DEF Put, Past, At
    <3>2. ~Past(p)'
      BY <2>10, EndDoes, Reads DEF Past
    <3>3. \A d \in Events : d # e => saved'[d] = saved[d]
      BY <2>10 DEF Put, TypeOK
    <3> QED
      BY <3>1, <3>2, <3>3
  <2> QED
    BY <1>2, <2>1, <2>2, <2>3, <2>4, <2>5, <2>6, <2>7, <2>8, <2>9, <2>10 DEF HandlerStep
<1>3. CASE PrunerStep \/ UNCHANGED vars
  <2>1. known' = known /\ handler' = handler /\ saved' = saved /\ refused' = refused
    BY <1>3 DEF PrunerStep, PruneSelect, PruneErase, PruneFail, vars, histories
  <2>2. RefusedWasStored'
    BY <1>1, <2>1 DEF EverInv, RefusedWasStored, Ever, SamePlace
  <2> QED
    BY <1>1, <2>1, <2>2 DEF EverInv, Past
<1> QED
  BY <1>2, <1>3, Cases

LEMMA InitialEver == Init => EverInv
BY Idling, EventData DEF Init, EverInv, RefusedWasStored, Past

(* THEOREM: "duplicate" is only said of an event that was stored, or of one *)
(* for which a version as new was.                                          *)
THEOREM Refused == Spec => []RefusedWasStored
<1>1. TypeOK /\ EverInv /\ [Next]_vars => TypeOK' /\ EverInv'
  BY TypeInductive, EverInductive
<1>2. EverInv => RefusedWasStored
  BY DEF EverInv
<1> QED
  BY <1>1, <1>2, InitialType, InitialEver, PTL DEF Spec

-----------------------------------------------------------------------------
(* One acceptance for every time an event is inserted. *)
OnceInv ==
    /\ \A p \in Procs : Past(p) /\ handler[p].event \notin removed =>
         /\ saved[handler[p].event] = 0
         /\ \A q \in Procs : Past(q) /\ handler[q].event = handler[p].event => q = p
    /\ SavedOnce

(* Who passes the INSERT, who is past it, and who is done. *)
LEMMA PastDoes ==
    ASSUME TypeOK, NEW p \in Procs, HandlerStep(p)
    PROVE  \/ ~Past(p)' /\ saved' = saved
           \/ Past(p) /\ ~Past(p)' /\ Put(p)
           \/ /\ Past(p) /\ saved' = saved
              /\ handler'[p].event = handler[p].event
           \/ /\ handler'[p].event = handler[p].event
              /\ handler[p].event \in Events \ stored
              /\ saved' = saved /\ removed' = removed
<1>1. ASSUME NEW d \in Events, Send(p, d)
      PROVE  ~Past(p)' /\ saved' = saved
  <2>1. ~Past(p)'
    BY <1>1, SendDoes, Reads DEF Past
  <2> QED
    BY <1>1, <2>1 DEF Send, histories
<1>2. CASE Owners(p) \/ Erase(p) \/ SkipErase(p)
  <2>1. ~Past(p)'
    BY <1>2, DeletionDoes, Reads DEF Past
  <2> QED
    BY <1>2, <2>1 DEF Owners, Erase, SkipErase, histories
<1>3. CASE Match(p) \/ Select(p) \/ Replace(p)
  <2>1. ~Past(p)'
    BY <1>3, MatchDoes, SelectDoes, ReplaceDoes, Reads DEF Past
  <2> QED
    BY <1>3, <2>1 DEF Match, Select, Replace
<1>4. CASE Find(p)
  <2>1. ASSUME NEW v \in Versions(handler[p].event),
               Sets(p, Working(handler[p].event, {v}, "replace"))
        PROVE  handler'[p].at = "replace"
    BY <2>1, Reads
  <2>2. CASE Sets(p, Idle) \/ Sets(p, Working(handler[p].event, handler[p].todo, "insert"))
    BY <1>4, <2>2, Reads DEF Past, Find
  <2>3. CASE \E v \in Versions(handler[p].event) :
               Sets(p, Working(handler[p].event, {v}, "replace"))
    BY <1>4, <2>1, <2>3 DEF Past, Find
  <2> QED
    BY <1>4, <2>2, <2>3, FindDoes
<1>5. CASE Insert(p)
  <2>1. saved' = saved /\ removed' = removed /\ handler[p].event \in Events
    BY <1>5, Flying DEF Insert, At
  <2> QED
    BY <1>5, <2>1, InsertDoes, Reads DEF Past
<1>6. CASE Tags(p) \/ Index(p)
  <2>1. Past(p) /\ handler'[p].event = handler[p].event
    BY <1>6, TagsDoes, IndexDoes, Reads DEF Past, At
  <2> QED
    BY <1>6, <2>1 DEF Tags, Index, histories
<1>7. CASE TagsRejected(p) \/ Fail(p)
  <2>1. ~Past(p)'
    BY <1>7, EndDoes, Reads DEF Past
  <2> QED
    BY <1>7, <2>1 DEF TagsRejected, Fail, histories
<1>8. CASE Put(p)
  BY <1>8, EndDoes, Reads DEF Past, Put, At
<1> QED
  BY <1>1, <1>2, <1>3, <1>4, <1>5, <1>6, <1>7, <1>8 DEF HandlerStep

LEMMA RemovedGrows == [Next]_vars => removed \subseteq removed'
BY DEF Next, vars, Send, Owners, Erase, SkipErase, Match, Select, Find, Replace, Insert, Tags,
   TagsRejected, Index, Put, Fail, PruneSelect, PruneErase, PruneFail, Remove, histories

LEMMA OnceInductive ==
    ASSUME TypeOK, EverInv, OnceInv, [Next]_vars
    PROVE  OnceInv'
<1>1. removed \subseteq removed'
  BY RemovedGrows
<1>2. ASSUME NEW p \in Procs, HandlerStep(p)
      PROVE  OnceInv'
  <2> DEFINE e == handler[p].event
  <2>1. \A q \in Procs : q # p => handler'[q] = handler[q]
    BY <1>2, HandlersTyped
  <2>2. CASE ~Past(p)' /\ saved' = saved
    BY <1>1, <2>1, <2>2 DEF OnceInv, SavedOnce, Past
  <2>3. CASE Past(p) /\ ~Past(p)' /\ Put(p)
    <3>1. saved' = [saved EXCEPT ![e] = IF @ = 2 THEN 2 ELSE @ + 1] /\ e \in Events
      BY <2>3, Flying DEF Put, At
    <3>2. \A d \in Events : d # e => saved'[d] = saved[d]
      BY <3>1 DEF TypeOK
    <3>3. e \notin removed => saved'[e] = 1 /\ \A q \in Procs : Past(q) /\ handler[q].event = e => q = p
      BY <2>3, <3>1 DEF TypeOK, OnceInv
    <3>4. SavedOnce'
      BY <1>1, <3>2, <3>3 DEF OnceInv, SavedOnce
    <3>5. ASSUME NEW q \in Procs, Past(q)', handler'[q].event \notin removed'
          PROVE  /\ q # p /\ handler[q].event # e /\ handler'[q] = handler[q] /\ Past(q)
                 /\ handler[q].event \in Events
      <4>1. q # p /\ handler'[q] = handler[q] /\ Past(q)
        BY <2>1, <2>3, <3>5 DEF Past
      <4>2. handler[q].event \in Events
        BY <4>1, Flying DEF Past, At
      <4> QED
        BY <1>1, <3>3, <3>5, <4>1, <4>2
    <3> QED
      BY <1>1, <2>1, <2>3, <3>2, <3>4, <3>5 DEF OnceInv
  <2>4. CASE Past(p) /\ saved' = saved /\ handler'[p].event = e
    BY <1>1, <2>1, <2>4 DEF OnceInv, SavedOnce, Past
  <2>5. CASE handler'[p].event = e /\ e \in Events \ stored /\ saved' = saved /\ removed' = removed
    <3>1. e \notin removed => saved[e] = 0 /\ \A q \in Procs : Past(q) => handler[q].event # e
      BY <2>5 DEF EverInv, Ever, TypeOK
    <3> QED
      BY <2>1, <2>5, <3>1 DEF OnceInv, SavedOnce, Past
  <2> QED
    BY <1>2, <2>2, <2>3, <2>4, <2>5, PastDoes
<1>3. CASE PrunerStep \/ UNCHANGED vars
  <2>1. handler' = handler /\ saved' = saved
    BY <1>3 DEF PrunerStep, PruneSelect, PruneErase, PruneFail, vars, histories
  <2> QED
    BY <1>1, <2>1 DEF OnceInv, SavedOnce, Past
<1> QED
  BY <1>2, <1>3, Cases

(* THEOREM: an event that is not removed is accepted once, whoever sends it *)
(* and however often.                                                       *)
THEOREM Once == Spec => []SavedOnce
<1>1. Init => OnceInv
  BY Idling, EventData DEF Init, OnceInv, SavedOnce, Past
<1>2. TypeOK /\ EverInv /\ OnceInv /\ [Next]_vars => TypeOK' /\ EverInv' /\ OnceInv'
  BY TypeInductive, EverInductive, OnceInductive
<1>3. OnceInv => SavedOnce
  BY DEF OnceInv
<1> QED
  BY <1>1, <1>2, <1>3, InitialType, InitialEver, PTL DEF Spec

-----------------------------------------------------------------------------
(* What handlers and the pruner are about to remove is theirs to remove. *)
Supersedes(e, t) == \E v \in Events : t = {v} /\ SamePlace(v, e) /\ Stamp[v] < Stamp[e]
OwnInv ==
    /\ \A p \in Procs :
         /\ At(p, "erase") => \A f \in handler[p].todo : Author[f] = Author[handler[p].event]
         /\ At(p, "replace") => Supersedes(handler[p].event, handler[p].todo)
    /\ victims \cap Protected = {}

LEMMA OwnInductive ==
    ASSUME TypeOK, OwnInv, [Next]_vars
    PROVE  OwnInv'
<1>1. ASSUME NEW p \in Procs, HandlerStep(p)
      PROVE  OwnInv'
  <2> DEFINE e == handler[p].event
  <2>1. \A q \in Procs : q # p => handler'[q] = handler[q]
    BY <1>1, HandlersTyped
  <2>2. victims' = victims
    BY <1>1 DEF HandlerStep, Send, Owners, Erase, SkipErase, Match, Select, Find, Replace, Insert,
       Tags, TagsRejected, Index, Put, Fail
  <2> SUFFICES /\ At(p, "erase")' => \A f \in handler'[p].todo : Author[f] = Author[handler'[p].event]
               /\ At(p, "replace")' => Supersedes(handler'[p].event, handler'[p].todo)
    BY <2>1, <2>2 DEF OwnInv, At, Supersedes, SamePlace
  <2>3. CASE Owners(p) \/ Erase(p) \/ SkipErase(p)
    <3>1. PICK s \in {"match", "erase"}, t \in SUBSET Events :
            /\ Sets(p, Working(e, t, s))
            /\ At(p, "owners") => \A f \in t : Author[f] = Author[e]
            /\ At(p, "erase") => t \subseteq handler[p].todo
      BY <2>3, DeletionDoes
    <3>2. handler'[p].at = s /\ handler'[p].event = e /\ handler'[p].todo = t
      BY <3>1, Reads
    <3>3. At(p, "owners") \/ At(p, "erase")
      BY <2>3, DeletionDoes DEF At
    <3> QED
      BY <3>1, <3>2, <3>3 DEF OwnInv, At
  <2>4. CASE Find(p)
    <3>1. CASE Sets(p, Idle) \/ Sets(p, Working(e, handler[p].todo, "insert"))
      BY <3>1, Reads DEF At
    <3>2. ASSUME NEW v \in Versions(e), Sets(p, Working(e, {v}, "replace")), ~(Stamp[e] <= Stamp[v])
          PROVE  /\ handler'[p].at = "replace"
                 /\ Supersedes(handler'[p].event, handler'[p].todo)
      <4>1. v \in Events /\ e \in Events /\ SamePlace(v, e)
        BY <2>4, Flying DEF Versions, TypeOK, Find, At
      <4>2. Stamp[v] < Stamp[e]
        BY <3>2, <4>1, EventData
      <4>3. handler'[p].event = e /\ handler'[p].todo = {v} /\ handler'[p].at = "replace"
        BY <3>2, Reads
      <4> QED
        BY <4>1, <4>2, <4>3 DEF Supersedes
    <3> QED
      BY <2>4, <3>1, <3>2, FindDoes DEF At
  <2>5. CASE ~Find(p) /\ ~(Owners(p) \/ Erase(p) \/ SkipErase(p))
    <3>1. handler'[p].at \notin {"erase", "replace"}
      <4>1. ASSUME NEW d \in Events, Send(p, d)
            PROVE  handler'[p].at \notin {"erase", "replace"}
        BY <4>1, SendDoes, Reads
      <4>2. CASE Match(p) \/ Select(p) \/ Replace(p)
        BY <4>2, MatchDoes, SelectDoes, ReplaceDoes, Reads
      <4>3. CASE Insert(p) \/ Tags(p) \/ Index(p)
        BY <4>3, InsertDoes, TagsDoes, IndexDoes, Reads
      <4>4. CASE TagsRejected(p) \/ Put(p) \/ Fail(p)
        BY <4>4, EndDoes, Reads
      <4> QED
        BY <1>1, <2>5, <4>1, <4>2, <4>3, <4>4 DEF HandlerStep
    <3> QED
      BY <3>1 DEF At
  <2> QED
    BY <2>3, <2>4, <2>5
<1>2. CASE PruneSelect
  <2>1. handler' = handler /\ victims' \subseteq stored \ Protected
    BY <1>2 DEF PruneSelect
  <2> QED
    BY <2>1 DEF OwnInv, At, Supersedes, SamePlace
<1>3. CASE PruneErase \/ PruneFail \/ UNCHANGED vars
  <2>1. handler' = handler /\ victims' \subseteq victims
    BY <1>3 DEF PruneErase, PruneFail, vars
  <2> QED
    BY <2>1 DEF OwnInv, At, Supersedes, SamePlace
<1> QED
  BY <1>1, <1>2, <1>3, Cases DEF PrunerStep

(* Whatever was stored is there, gone for a reason, or has an heir. *)
Kept(e) == e \in stored \cup gone \/ \E n \in Events : Heir(n, e)
KeptInv == \A e \in Ever : Kept(e)
\* A handler is about to insert the version that takes over.
Succeeding(p, n) == At(p, "insert") /\ handler[p].event = n /\ handler[p].todo # {}

(* What is enough to keep everything kept: nobody's heir is lost. *)
LEMMA KeptEnough ==
    ASSUME TypeOK, KeptInv,
           Ever' \subseteq Ever \cup stored',
           \A e \in stored \cup gone : e \in stored' \cup gone' \/ \E n \in Events : Heir(n, e)',
           \A p \in Procs, n \in Events : Succeeding(p, n) =>
               n \in stored' \cup gone' \/ \E q \in Procs : Succeeding(q, n)'
    PROVE  KeptInv'
<1> SUFFICES ASSUME NEW e \in Ever PROVE Kept(e)'
  BY DEF KeptInv, Kept
<1>1. CASE e \in stored \cup gone
  BY <1>1 DEF Kept
<1>2. ASSUME NEW n \in Events, Heir(n, e)
      PROVE  Kept(e)'
  <2>1. SamePlace(n, e) /\ Stamp[n] > Stamp[e] /\ e \in Events
    BY <1>2 DEF Heir, Ever, TypeOK
  <2>2. n \in stored \cup gone \/ \E p \in Procs : Succeeding(p, n)
    BY <1>2 DEF Heir, Succeeding
  <2>3. CASE n \in stored' \cup gone' \/ \E q \in Procs : Succeeding(q, n)'
    <3>1. Heir(n, e)'
      BY <2>1, <2>3 DEF Heir, Succeeding, SamePlace
    <3> QED
      BY <3>1 DEF Kept
  <2>4. ASSUME NEW m \in Events, Heir(m, n)'
        PROVE  Kept(e)'
    <3>1. SamePlace(m, e) /\ Stamp[m] > Stamp[e]
      BY <2>1, <2>4, EventData DEF Heir, SamePlace
    <3>2. Heir(m, e)'
      BY <2>4, <3>1 DEF Heir, SamePlace
    <3> QED
      BY <3>2 DEF Kept
  <2> QED
    BY <2>2, <2>3, <2>4
<1> QED
  BY <1>1, <1>2 DEF KeptInv, Kept

LEMMA KeptInductive ==
    ASSUME TypeOK, OwnInv, KeptInv, [Next]_vars
    PROVE  KeptInv'
<1>1. ASSUME NEW p \in Procs, HandlerStep(p)
      PROVE  KeptInv'
  <2> DEFINE e == handler[p].event
  <2>1. \A q \in Procs : q # p => handler'[q] = handler[q]
    BY <1>1, HandlersTyped
  <2>2. \A q \in Procs, n \in Events : q # p /\ Succeeding(q, n) => Succeeding(q, n)'
    BY <2>1 DEF Succeeding, At
  <2>3. CASE Erase(p)
    <3>1. PICK part \in SUBSET handler[p].todo :
            Remove(part, {t \in Events : Author[t] = Author[e]})
      BY <2>3 DEF Erase
    <3>2. part \in SUBSET Events
      BY <2>3, Flying DEF Erase, At
    <3>3. stored \cup gone \subseteq stored' \cup gone'
      BY <2>3, <3>1, <3>2 DEF Erase, OwnInv, Remove
    <3>4. Ever' = Ever
      BY <3>1, <3>2, RemoveKeeps DEF Ever
    <3>5. \A n : ~Succeeding(p, n)
      BY <2>3 DEF Erase, Succeeding, At
    <3> QED
      BY <2>2, <3>3, <3>4, <3>5, KeptEnough
  <2>4. CASE Replace(p)
    <3>1. PICK v \in Events : handler[p].todo = {v} /\ SamePlace(v, e) /\ Stamp[v] < Stamp[e]
      BY <2>4 DEF Replace, OwnInv, Supersedes
    <3>2. e \in Events /\ {v} \in SUBSET Events
      BY <2>4, <3>1, Flying DEF Replace, At
    <3>0. PICK m \in Events : m = e
      BY <3>2
    <3>3. Succeeding(p, m)'
      BY <2>4, <3>0, <3>1, ReplaceDoes, Reads DEF Succeeding, At
    <3>4. Heir(m, v)'
      BY <3>0, <3>1, <3>3, EventData DEF Heir, Succeeding, SamePlace
    <3>5. Ever' = Ever /\ gone \subseteq gone' /\ stored \subseteq stored' \cup {v}
      <4>1. Remove({v}, {})
        BY <2>4, <3>1 DEF Replace
      <4> QED
        BY <3>2, <4>1, RemoveKeeps DEF Ever, Remove
    <3>6. \A n : ~Succeeding(p, n)
      BY <2>4 DEF Replace, Succeeding, At
    <3> QED
      BY <2>2, <3>2, <3>4, <3>5, <3>6, KeptEnough
  <2>5. CASE Insert(p)
    <3>1. Ever' \subseteq Ever \cup stored' /\ stored \cup gone \subseteq stored' \cup gone'
      BY <2>5, InsertDoes DEF Insert, Ever
    <3>2. \A n \in Events : Succeeding(p, n) => n \in stored'
      BY <2>5, InsertDoes DEF Succeeding
    <3> QED
      BY <2>2, <3>1, <3>2, KeptEnough
  <2>6. CASE Fail(p)
    <3>1. Ever' = Ever /\ stored' = stored /\ gone \subseteq gone'
      BY <2>6 DEF Fail, Ever, tables
    <3>2. \A n \in Events : Succeeding(p, n) => n \in stored' \cup gone'
      BY <2>6, <3>1 DEF Fail, Succeeding
    <3> QED
      BY <2>2, <3>1, <3>2, KeptEnough
  <2>7. CASE ~Erase(p) /\ ~Replace(p) /\ ~Insert(p) /\ ~Fail(p)
    <3>1. Ever' = Ever /\ stored' = stored /\ gone' = gone
      BY <1>1, <2>7 DEF HandlerStep, Send, Owners, SkipErase, Match, Select, Find, Tags,
         TagsRejected, Index, Put, Ever, tables, histories
    <3>2. \A n : ~Succeeding(p, n)
      BY <1>1, <2>7 DEF HandlerStep, Send, Owners, SkipErase, Match, Select, Find, Tags,
         TagsRejected, Index, Put, Succeeding, At
    <3> QED
      BY <2>2, <3>1, <3>2, KeptEnough
  <2> QED
    BY <2>3, <2>4, <2>5, <2>6, <2>7
<1>2. CASE PruneErase
  <2>1. Remove(victims, Events \ Protected) /\ handler' = handler /\ victims \in SUBSET Events
    BY <1>2 DEF PruneErase, TypeOK
  <2>2. stored \cup gone \subseteq stored' \cup gone'
    BY <2>1 DEF OwnInv, Remove
  <2>3. Ever' = Ever
    BY <2>1, RemoveKeeps DEF Ever
  <2> QED
    BY <2>1, <2>2, <2>3, KeptEnough DEF Succeeding, At
<1>3. CASE PruneSelect \/ PruneFail \/ UNCHANGED vars
  <2>1. handler' = handler /\ stored' = stored /\ gone' = gone /\ Ever' = Ever
    BY <1>3 DEF PruneSelect, PruneFail, vars, tables, histories, Ever
  <2> QED
    BY <2>1, KeptEnough DEF Succeeding, At
<1> QED
  BY <1>1, <1>2, <1>3, Cases DEF PrunerStep

(* THEOREM: what was answered "saved" is only removed for its author, by    *)
(* the pruner if it may, or for a newer version.                            *)
THEOREM Saved == Spec => []SavedIsKept
<1>1. Init => OwnInv /\ KeptInv
  BY Idling DEF Init, OwnInv, KeptInv, Ever, At
<1>2. TypeOK /\ EverInv /\ OwnInv /\ KeptInv /\ [Next]_vars
        => TypeOK' /\ EverInv' /\ OwnInv' /\ KeptInv'
  BY TypeInductive, EverInductive, OwnInductive, KeptInductive
<1>3. EverInv /\ KeptInv => SavedIsKept
  BY DEF EverInv, KeptInv, Kept, SavedIsKept
<1> QED
  BY <1>1, <1>2, <1>3, InitialType, InitialEver, PTL DEF Spec

-----------------------------------------------------------------------------
(* The rows of an event: all of them, or a handler that will write them. *)
Writing(p, step, e) == At(p, step) /\ handler[p].event = e
Covered(e) ==
    \/ e \in tagged \cap indexed
    \/ \E p \in Procs : Writing(p, "tags", e)
    \/ e \in tagged /\ \E p \in Procs : Writing(p, "index", e)
NoGhostRows == indexed \ stored \subseteq Large
RowsInv ==
    /\ \A e \in stored \ torn : Covered(e)
    /\ \A p \in Procs : At(p, "index") => handler[p].event \in Large
    /\ NoGhostRows

(* The rows of an event that a step neither removes nor writes. *)
LEMMA CoveredStays ==
    ASSUME NEW p \in Procs, NEW d, Covered(d),
           \A q \in Procs : q # p => handler'[q] = handler[q],
           d \in tagged => d \in tagged', d \in indexed => d \in indexed',
           ~Writing(p, "tags", d), ~Writing(p, "index", d)
    PROVE  Covered(d)'
<1>1. CASE d \in tagged \cap indexed
  BY <1>1 DEF Covered
<1>2. ASSUME NEW q \in Procs, Writing(q, "tags", d)
      PROVE  Writing(q, "tags", d)'
  BY <1>2 DEF Writing, At
<1>3. ASSUME NEW q \in Procs, Writing(q, "index", d)
      PROVE  Writing(q, "index", d)'
  BY <1>3 DEF Writing, At
<1> QED
  BY <1>1, <1>2, <1>3 DEF Covered

LEMMA RowsInductive ==
    ASSUME TypeOK, RowsInv, [Next]_vars
    PROVE  RowsInv'
<1>1. ASSUME NEW p \in Procs, HandlerStep(p)
      PROVE  RowsInv'
  <2> DEFINE e == handler[p].event
  <2>1. \A q \in Procs : q # p => handler'[q] = handler[q]
    BY <1>1, HandlersTyped
  <2>3. ASSUME NEW lost \in SUBSET Events, NEW why, Remove(lost, why),
               \A d : ~Writing(p, "tags", d) /\ ~Writing(p, "index", d),
               handler'[p].at \notin {"index"}
        PROVE  RowsInv'
    <3>1. \A d \in stored' \ torn' : d \in stored \ torn /\ d \notin lost
      BY <2>3 DEF Remove
    <3>2. NoGhostRows'
      BY <2>3 DEF RowsInv, NoGhostRows, Remove
    <3>3. \A d \in stored' \ torn' : Covered(d)'
      <4> TAKE d \in stored' \ torn'
      <4>1. Covered(d)
        BY <3>1 DEF RowsInv
      <4>2. (d \in tagged => d \in tagged') /\ (d \in indexed => d \in indexed')
        BY <2>3, <3>1 DEF Remove
      <4> QED
        BY <2>1, <2>3, <4>1, <4>2, CoveredStays
    <3> QED
      BY <2>1, <2>3, <3>2, <3>3 DEF RowsInv, At
  <2>4. CASE Erase(p)
    <3>1. PICK part \in SUBSET handler[p].todo :
            Remove(part, {t \in Events : Author[t] = Author[e]})
      BY <2>4 DEF Erase
    <3>2. part \in SUBSET Events /\ \A d : ~Writing(p, "tags", d) /\ ~Writing(p, "index", d)
      BY <2>4, Flying DEF Erase, At, Writing
    <3>3. handler'[p].at # "index"
      BY <2>4, DeletionDoes, Reads
    <3> QED
      BY <2>3, <3>1, <3>2, <3>3
  <2>5. CASE Replace(p)
    <3>1. handler[p].todo \in SUBSET Events /\ Remove(handler[p].todo, {})
          /\ \A d : ~Writing(p, "tags", d) /\ ~Writing(p, "index", d)
      BY <2>5, Flying DEF Replace, At, Writing
    <3>2. handler'[p].at # "index"
      BY <2>5, ReplaceDoes, Reads
    <3> QED
      BY <2>3, <3>1, <3>2
  <2>6. CASE Insert(p)
    <3>1. tagged' = tagged /\ indexed' = indexed /\ torn' = torn
      BY <2>6 DEF Insert
    <3>2. \/ stored' = stored
          \/ stored' = stored \cup {e} /\ handler'[p].at = "tags" /\ handler'[p].event = e
      BY <2>6, InsertDoes, Reads
    <3>3. handler'[p].at # "index" /\ \A d : ~Writing(p, "tags", d) /\ ~Writing(p, "index", d)
      BY <2>6, InsertDoes, Reads DEF Writing, At
    <3>4. NoGhostRows'
      BY <3>1, <3>2 DEF RowsInv, NoGhostRows
    <3>5. ASSUME NEW d \in stored' \ torn'
          PROVE  Covered(d)'
      <4>1. CASE d \in stored
        BY <2>1, <3>1, <3>3, <3>5, <4>1, CoveredStays DEF RowsInv
      <4>2. CASE d \notin stored
        BY <3>2, <3>5, <4>2 DEF Covered, Writing, At
      <4> QED
        BY <4>1, <4>2
    <3> QED
      BY <2>1, <3>3, <3>4, <3>5 DEF RowsInv, At
  <2>7. CASE Tags(p)
    <3>1. /\ e \in stored /\ stored' = stored /\ torn' = torn /\ tagged' = tagged \cup {e}
          /\ indexed' = IF e \in Large THEN indexed ELSE indexed \cup {e}
      BY <2>7 DEF Tags, histories
    <3>2. /\ \A d : d # e => ~Writing(p, "tags", d) /\ ~Writing(p, "index", d)
          /\ e \in Large => handler'[p].at = "index"
          /\ handler'[p].event = e
          /\ handler'[p].at = "index" => handler'[p].event \in Large
      BY <2>7, TagsDoes, Reads DEF Writing, At
    <3>3. NoGhostRows'
      BY <3>1 DEF RowsInv, NoGhostRows
    <3>4. ASSUME NEW d \in stored' \ torn'
          PROVE  Covered(d)'
      <4>1. CASE d = e
        BY <3>1, <3>2, <4>1 DEF Covered, Writing, At
      <4>2. CASE d # e
        BY <2>1, <3>1, <3>2, <3>4, <4>2, CoveredStays DEF RowsInv
      <4> QED
        BY <4>1, <4>2
    <3> QED
      BY <2>1, <3>2, <3>3, <3>4 DEF RowsInv, At
  <2>8. CASE Index(p)
    <3>1. /\ stored' = stored /\ torn' = torn /\ tagged' = tagged
          /\ indexed' = indexed \cup {e} /\ e \in Large
      BY <2>8 DEF Index, histories, RowsInv
    <3>2. /\ handler'[p].at # "index"
          /\ \A d : ~Writing(p, "tags", d) /\ (d # e => ~Writing(p, "index", d))
      BY <2>8, IndexDoes, Reads DEF Writing, At
    <3>3. NoGhostRows'
      BY <3>1 DEF RowsInv, NoGhostRows
    <3>4. ASSUME NEW d \in stored' \ torn'
          PROVE  Covered(d)'
      <4>1. Covered(d)
        BY <3>1, <3>4 DEF RowsInv
      <4>2. CASE d = e
        <5>1. CASE d \in tagged
          BY <3>1, <4>2, <5>1 DEF Covered
        <5>2. ASSUME d \notin tagged, NEW q \in Procs, Writing(q, "tags", d)
              PROVE  Writing(q, "tags", d)'
          BY <2>1, <3>2, <5>2 DEF Writing, At
        <5> QED
          BY <4>1, <5>1, <5>2 DEF Covered
      <4>3. CASE d # e
        BY <2>1, <3>1, <3>2, <4>1, <4>3, CoveredStays
      <4> QED
        BY <4>2, <4>3
    <3> QED
      BY <2>1, <3>2, <3>3, <3>4 DEF RowsInv, At
  <2>9. CASE Fail(p)
    <3>1. /\ stored' = stored /\ tagged' = tagged /\ indexed' = indexed
          /\ torn' = IF At(p, "tags") \/ At(p, "index") THEN torn \cup ({e} \cap stored) ELSE torn
      BY <2>9 DEF Fail, tables
    <3>2. handler'[p].at # "index"
      BY <2>9, EndDoes, Reads
    <3>3. \A d \in stored' \ torn' : /\ d \in stored \ torn
                                     /\ ~Writing(p, "tags", d) /\ ~Writing(p, "index", d)
      BY <3>1 DEF Writing
    <3>4. NoGhostRows'
      BY <3>1 DEF RowsInv, NoGhostRows
    <3>5. ASSUME NEW d \in stored' \ torn'
          PROVE  Covered(d)'
      <4>1. Covered(d) /\ ~Writing(p, "tags", d) /\ ~Writing(p, "index", d)
        BY <3>1, <3>3, <3>5 DEF RowsInv
      <4> QED
        BY <2>1, <3>1, <4>1, CoveredStays
    <3> QED
      BY <2>1, <3>2, <3>4, <3>5 DEF RowsInv, At
  <2>10. CASE TagsRejected(p)
    <3>1. /\ stored' = stored /\ tagged' = tagged /\ indexed' = indexed /\ torn' = torn
          /\ At(p, "tags") /\ e \notin stored
      BY <2>10 DEF TagsRejected, tables, histories
    <3>2. handler'[p].at # "index"
      BY <2>10, EndDoes, Reads
    <3>3. \A d \in stored : ~Writing(p, "tags", d) /\ ~Writing(p, "index", d)
      BY <3>1 DEF Writing, At
    <3>4. NoGhostRows'
      BY <3>1 DEF RowsInv, NoGhostRows
    <3>5. ASSUME NEW d \in stored' \ torn'
          PROVE  Covered(d)'
      <4>1. Covered(d) /\ ~Writing(p, "tags", d) /\ ~Writing(p, "index", d)
        BY <3>1, <3>3, <3>5 DEF RowsInv
      <4> QED
        BY <2>1, <3>1, <4>1, CoveredStays
    <3> QED
      BY <2>1, <3>2, <3>4, <3>5 DEF RowsInv, At
  <2>11. CASE ~(Erase(p) \/ Replace(p) \/ Insert(p) \/ Tags(p) \/ Index(p) \/ Fail(p) \/ TagsRejected(p))
    <3>1. stored' = stored /\ tagged' = tagged /\ indexed' = indexed /\ torn' = torn
      BY <1>1, <2>11 DEF HandlerStep, Send, Owners, SkipErase, Match, Select, Find, Put,
         tables, histories
    <3>2. \A d : ~Writing(p, "tags", d) /\ ~Writing(p, "index", d)
      BY <1>1, <2>11 DEF HandlerStep, Send, Owners, SkipErase, Match, Select, Find, Put, Writing, At
    <3>3. handler'[p].at # "index"
      <4>1. CASE Find(p)
        <5>2. CASE Sets(p, Idle) \/ Sets(p, Working(e, handler[p].todo, "insert"))
          BY <5>2, Reads
        <5>3. ASSUME NEW v \in Versions(e), Sets(p, Working(e, {v}, "replace"))
              PROVE  handler'[p].at # "index"
          BY <5>3, Reads
        <5> QED
          BY <4>1, <5>2, <5>3, FindDoes
      <4>2. ASSUME NEW d \in Events, Send(p, d)
            PROVE  handler'[p].at # "index"
        BY <4>2, SendDoes, Reads
      <4>3. CASE Owners(p) \/ SkipErase(p)
        BY <4>3, DeletionDoes, Reads
      <4>4. CASE Match(p) \/ Select(p) \/ Put(p)
        BY <4>4, MatchDoes, SelectDoes, EndDoes, Reads
      <4> QED
        BY <1>1, <2>11, <4>1, <4>2, <4>3, <4>4 DEF HandlerStep
    <3>4. NoGhostRows'
      BY <3>1 DEF RowsInv, NoGhostRows
    <3>5. ASSUME NEW d \in stored' \ torn'
          PROVE  Covered(d)'
      <4>1. Covered(d) /\ ~Writing(p, "tags", d) /\ ~Writing(p, "index", d)
        BY <3>1, <3>2, <3>5 DEF RowsInv
      <4> QED
        BY <2>1, <3>1, <4>1, CoveredStays
    <3> QED
      BY <2>1, <3>3, <3>4, <3>5 DEF RowsInv, At
  <2> QED
    BY <2>4, <2>5, <2>6, <2>7, <2>8, <2>9, <2>10, <2>11
<1>2. CASE PruneErase
  <2>1. Remove(victims, Events \ Protected) /\ handler' = handler
    BY <1>2 DEF PruneErase
  <2>2. \A d \in stored' \ torn' : d \in stored \ torn /\ d \notin victims
    BY <2>1 DEF Remove
  <2>3. NoGhostRows'
    BY <2>1 DEF RowsInv, NoGhostRows, Remove
  <2> QED
    BY <2>1, <2>2, <2>3 DEF RowsInv, Covered, Remove, Writing, At
<1>3. CASE PruneSelect \/ PruneFail \/ UNCHANGED vars
  <2>1. UNCHANGED <<handler, stored, tagged, indexed, torn>>
    BY <1>3 DEF PruneSelect, PruneFail, vars, tables, histories
  <2> QED
    BY <2>1 DEF RowsInv, Covered, NoGhostRows, Writing, At
<1> QED
  BY <1>1, <1>2, <1>3, Cases DEF PrunerStep

(* THEOREM: a stored event has all its rows, unless its save goes on or was *)
(* cut off, and no row of the index is left of a removed one, unless the    *)
(* rows needed several batches.                                             *)
THEOREM Rows == Spec => []RowsAgree
<1>1. Init => RowsInv
  BY Idling DEF Init, RowsInv, NoGhostRows, At
<1>2. TypeOK /\ RowsInv /\ [Next]_vars => TypeOK' /\ RowsInv'
  BY TypeInductive, RowsInductive
<1>3. RowsInv => RowsAgree
  BY DEF RowsInv, Covered, RowsAgree, NoGhostRows, Writing
<1> QED
  BY <1>1, <1>2, <1>3, InitialType, PTL DEF Spec

-----------------------------------------------------------------------------
(* Between the SELECT and the INSERT of a save there is nothing in its      *)
(* place but what it will remove, unless another is there too.              *)
Replacing(p) == At(p, "replace") \/ At(p, "insert")
Free(p) ==
    /\ At(p, "insert") => Versions(handler[p].event) = {}
    /\ At(p, "replace") => Versions(handler[p].event) \subseteq handler[p].todo
PlaceInv ==
    /\ \A p, q \in Procs :
         /\ p # q /\ Replacing(p) /\ Replacing(q)
         /\ SamePlace(handler[p].event, handler[q].event)
         => Place[handler[p].event] \in raced
    /\ \A p \in Procs : Place[handler[p].event] \notin raced => Free(p)
    /\ LatestOnly

\* A step after which the handler is not replacing, and nothing is inserted.
LEMMA PlaceKept ==
    ASSUME PlaceInv, NEW p \in Procs, ~Replacing(p)', stored' \subseteq stored, raced \subseteq raced',
           \A q \in Procs : q # p => handler'[q] = handler[q]
    PROVE  PlaceInv'
<1>1. \A q \in Procs : Replacing(q)' => q # p /\ handler'[q] = handler[q] /\ Replacing(q)
  BY DEF Replacing, At
<1>2. \A d : Versions(d)' \subseteq Versions(d)
  BY DEF Versions, SamePlace
<1>3. ASSUME NEW q \in Procs, Place[handler'[q].event] \notin raced'
      PROVE  Free(q)'
  <2>1. CASE Replacing(q)'
    <3>1. handler'[q] = handler[q] /\ Free(q)
      BY <1>1, <1>3, <2>1 DEF PlaceInv
    <3>2. PICK d : d = handler[q].event
      OBVIOUS
    <3>3. Versions(handler[q].event)' = Versions(d)'
      BY <1>1, <2>1, <3>2
    <3> QED
      BY <1>2, <3>1, <3>2, <3>3 DEF Free, At
  <2>2. CASE ~Replacing(q)'
    BY <2>2 DEF Free, Replacing
  <2> QED
    BY <2>1, <2>2
<1>4. LatestOnly'
  BY DEF PlaceInv, LatestOnly, SamePlace
<1>5. ASSUME NEW q \in Procs, NEW r \in Procs, q # r, Replacing(q)', Replacing(r)',
             SamePlace(handler'[q].event, handler'[r].event)
      PROVE  Place[handler'[q].event] \in raced'
  BY <1>1, <1>5 DEF PlaceInv
<1> QED
  BY <1>3, <1>4, <1>5 DEF PlaceInv, SamePlace

LEMMA PlaceInductive ==
    ASSUME TypeOK, PlaceInv, [Next]_vars
    PROVE  PlaceInv'
<1>1. ASSUME NEW p \in Procs, HandlerStep(p)
      PROVE  PlaceInv'
  <2>1. \A q \in Procs : q # p => handler'[q] = handler[q]
    BY <1>1, HandlersTyped
  <2>2. PICK e : e = handler[p].event
    OBVIOUS
  <2>3. CASE Find(p)
    <3>1. stored' = stored /\ raced' = IF IsRace(p) THEN raced \cup {Place[e]} ELSE raced
      BY <2>2, <2>3 DEF Find, tables
    <3>2. CASE ~Replacing(p)'
      BY <2>1, <3>1, <3>2, PlaceKept
    <3>3. CASE Replacing(p)'
      <4>1. /\ handler'[p].event = e
            /\ Place[e] \notin raced => Free(p)'
        <5>1. CASE Sets(p, Idle)
          BY <3>3, <5>1, Reads DEF Replacing, At
        <5>2. CASE Sets(p, Working(e, handler[p].todo, "insert")) /\ Versions(e) = {}
          <6>1. handler'[p].at = "insert" /\ handler'[p].event = e
            BY <5>2, Reads
          <6>2. Versions(e)' = {}
            BY <3>1, <5>2 DEF Versions, SamePlace
          <6> QED
            BY <6>1, <6>2 DEF Free, At
        <5>3. ASSUME NEW v \in Versions(e), Sets(p, Working(e, {v}, "replace"))
              PROVE  handler'[p].event = e /\ (Place[e] \notin raced => Free(p)')
          <6>1. handler'[p].at = "replace" /\ handler'[p].event = e /\ handler'[p].todo = {v}
            BY <5>3, Reads
          <6>2. Place[e] \notin raced => Versions(e) \subseteq {v}
            BY <5>3 DEF PlaceInv, LatestOnly, Versions, SamePlace
          <6>3. Versions(e)' = Versions(e)
            BY <3>1 DEF Versions, SamePlace
          <6> QED
            BY <6>1, <6>2, <6>3 DEF Free, At
        <5> QED
          BY <2>2, <2>3, <5>1, <5>2, <5>3, FindDoes
      <4>2. ASSUME NEW q \in Procs, q # p, Replacing(q), SamePlace(handler[q].event, e)
            PROVE  Place[e] \in raced'
        BY <2>2, <3>1, <4>2 DEF IsRace, Replacing
      <4>3. ASSUME NEW q \in Procs, NEW r \in Procs, q # r, Replacing(q)', Replacing(r)',
                   SamePlace(handler'[q].event, handler'[r].event)
            PROVE  Place[handler'[q].event] \in raced'
        <5>1. \A s \in Procs : s # p /\ Replacing(s)' => handler'[s] = handler[s] /\ Replacing(s)
          BY <2>1 DEF Replacing, At
        <5>2. CASE q # p /\ r # p
          BY <3>1, <4>3, <5>1, <5>2 DEF PlaceInv
        <5>3. CASE q = p
          BY <4>1, <4>2, <4>3, <5>1, <5>3 DEF SamePlace
        <5>4. CASE r = p
          BY <4>1, <4>2, <4>3, <5>1, <5>4 DEF SamePlace
        <5> QED
          BY <5>2, <5>3, <5>4
      <4>4. ASSUME NEW q \in Procs, Place[handler'[q].event] \notin raced'
            PROVE  Free(q)'
        <5>1. CASE q = p
          BY <3>1, <4>1, <4>4, <5>1
        <5>2. CASE q # p
          <6>1. handler'[q] = handler[q] /\ Free(q)
            BY <2>1, <3>1, <4>4, <5>2 DEF PlaceInv
          <6>2. Versions(handler[q].event)' = Versions(handler[q].event)
            BY <3>1, <6>1 DEF Versions, SamePlace
          <6> QED
            BY <6>1, <6>2 DEF Free, At
        <5> QED
          BY <5>1, <5>2
      <4>5. LatestOnly'
        BY <3>1 DEF PlaceInv, LatestOnly, SamePlace
      <4> QED
        BY <4>3, <4>4, <4>5 DEF PlaceInv, SamePlace
    <3> QED
      BY <3>2, <3>3
  <2>4. CASE Select(p)
    <3>1. stored' = stored /\ raced' = raced
      BY <2>4 DEF Select, tables
    <3>2. CASE ~Replacing(p)'
      BY <2>1, <3>1, <3>2, PlaceKept
    <3>3. CASE Replacing(p)'
      <4>1. handler'[p].event = e /\ handler'[p].at = "insert" /\ Place[e] = Nowhere
        BY <2>2, <2>4, <3>3, SelectDoes, Reads DEF Replacing, At
      <4>2. Free(p)'
        <5>1. Versions(e)' = {}
          BY <4>1 DEF Versions, SamePlace
        <5> QED
          BY <4>1, <5>1 DEF Free, At
      <4>3. \A q \in Procs : ~SamePlace(handler[q].event, e) /\ ~SamePlace(e, handler[q].event)
        BY <4>1 DEF SamePlace
      <4>4. ASSUME NEW q \in Procs, NEW r \in Procs, q # r, Replacing(q)', Replacing(r)',
                   SamePlace(handler'[q].event, handler'[r].event)
            PROVE  Place[handler'[q].event] \in raced'
        <5>1. q # p /\ r # p
          BY <2>1, <4>1, <4>3, <4>4
        <5> QED
          BY <2>1, <3>1, <4>4, <5>1 DEF PlaceInv, Replacing, At
      <4>5. ASSUME NEW q \in Procs, q # p, Place[handler'[q].event] \notin raced'
            PROVE  Free(q)'
        <5>1. handler'[q] = handler[q] /\ Free(q)
          BY <2>1, <3>1, <4>5 DEF PlaceInv
        <5>2. Versions(handler[q].event)' = Versions(handler[q].event)
          BY <3>1, <5>1 DEF Versions, SamePlace
        <5> QED
          BY <5>1, <5>2 DEF Free, At
      <4>6. LatestOnly'
        BY <3>1 DEF PlaceInv, LatestOnly, SamePlace
      <4> QED
        BY <4>2, <4>4, <4>5, <4>6 DEF PlaceInv, SamePlace
    <3> QED
      BY <3>2, <3>3
  <2>5. CASE Replace(p)
    <3> DEFINE lost == handler[p].todo
    <3>1. stored' = stored \ lost /\ raced' = raced /\ At(p, "replace")
      BY <2>5 DEF Replace, Remove
    <3>2. handler'[p].at = "insert" /\ handler'[p].event = e
      BY <2>2, <2>5, ReplaceDoes, Reads
    <3>3. \A q \in Procs : Replacing(q)' => Replacing(q) /\ handler'[q].event = handler[q].event
      BY <2>1, <2>2, <3>1, <3>2 DEF Replacing, At
    <3>4. \A d : Versions(d)' \subseteq Versions(d) \ lost
      BY <3>1 DEF Versions, SamePlace
    <3>5. ASSUME NEW q \in Procs, Place[handler'[q].event] \notin raced'
          PROVE  Free(q)'
      <4>1. CASE q = p
        <5>1. Versions(e) \subseteq lost
          BY <2>2, <3>1, <3>2, <3>5, <4>1 DEF PlaceInv, Free
        <5>2. Versions(handler[p].event)' = Versions(e)'
          BY <3>2
        <5> QED
          BY <3>2, <3>4, <4>1, <5>1, <5>2 DEF Free, At
      <4>2. CASE q # p
        <5>1. handler'[q] = handler[q] /\ Free(q)
          BY <2>1, <3>1, <3>5, <4>2 DEF PlaceInv
        <5>2. PICK d : d = handler[q].event
          OBVIOUS
        <5>3. Versions(handler[q].event)' = Versions(d)'
          BY <5>1, <5>2
        <5> QED
          BY <3>4, <5>1, <5>2, <5>3 DEF Free, At
      <4> QED
        BY <4>1, <4>2
    <3>6. LatestOnly'
      BY <3>1 DEF PlaceInv, LatestOnly, SamePlace
    <3>7. ASSUME NEW q \in Procs, NEW r \in Procs, q # r, Replacing(q)', Replacing(r)',
                 SamePlace(handler'[q].event, handler'[r].event)
          PROVE  Place[handler'[q].event] \in raced'
      BY <3>1, <3>3, <3>7 DEF PlaceInv
    <3> QED
      BY <3>5, <3>6, <3>7 DEF PlaceInv, SamePlace
  <2>6. CASE Insert(p)
    <3>1. ~Replacing(p)' /\ raced' = raced /\ At(p, "insert")
      BY <2>6, InsertDoes, Reads DEF Replacing, At, Insert
    <3>2. CASE stored' = stored
      BY <2>1, <3>1, <3>2, PlaceKept
    <3>3. CASE stored' = stored \cup {e}
      <4>1. ASSUME NEW q \in Procs, Replacing(q)'
            PROVE  q # p /\ handler'[q] = handler[q] /\ Replacing(q)
        BY <2>1, <3>1, <4>1 DEF Replacing, At
      <4>2. ASSUME NEW q \in Procs, Place[handler'[q].event] \notin raced'
            PROVE  Free(q)'
        <5>1. CASE Replacing(q)'
          <6>1. PICK d : d = handler[q].event
            OBVIOUS
          <6>2. q # p /\ handler'[q] = handler[q] /\ Free(q) /\ Replacing(q)
            BY <3>1, <4>1, <4>2, <5>1 DEF PlaceInv
          <6>3. ~SamePlace(e, d)
            BY <2>2, <3>1, <4>2, <6>1, <6>2 DEF PlaceInv, Replacing, SamePlace
          <6>4. Versions(d)' = Versions(d)
            BY <3>3, <6>3 DEF Versions, SamePlace
          <6>5. Versions(handler[q].event)' = Versions(d)'
            BY <6>1, <6>2
          <6> QED
            BY <6>1, <6>2, <6>4, <6>5 DEF Free, At
        <5>2. CASE ~Replacing(q)'
          BY <5>2 DEF Free, Replacing
        <5> QED
          BY <5>1, <5>2
      <4>3. LatestOnly'
        <5>1. ASSUME NEW c \in stored' \ Undefined, NEW d \in stored' \ Undefined,
                     SamePlace(c, d), c # d
              PROVE  Place[c] \in raced'
          <6>1. CASE c # e /\ d # e
            BY <3>1, <3>3, <5>1, <6>1 DEF PlaceInv, LatestOnly
          <6>2. CASE c = e \/ d = e
            <7>1. Versions(e) # {}
              BY <3>3, <5>1, <6>2 DEF Versions, SamePlace
            <7>2. Place[e] \in raced
              BY <2>2, <3>1, <7>1 DEF PlaceInv, Free
            <7> QED
              BY <3>1, <5>1, <6>2, <7>2 DEF SamePlace
          <6> QED
            BY <6>1, <6>2
        <5> QED
          BY <5>1 DEF LatestOnly, SamePlace
      <4>4. ASSUME NEW q \in Procs, NEW r \in Procs, q # r, Replacing(q)', Replacing(r)',
                   SamePlace(handler'[q].event, handler'[r].event)
            PROVE  Place[handler'[q].event] \in raced'
        BY <3>1, <4>1, <4>4 DEF PlaceInv
      <4> QED
        BY <4>2, <4>3, <4>4 DEF PlaceInv, SamePlace
    <3> QED
      BY <2>2, <2>6, <3>2, <3>3, InsertDoes
  <2>7. CASE ~(Find(p) \/ Select(p) \/ Replace(p) \/ Insert(p))
    <3>1. stored' \subseteq stored
      <4>1. CASE Erase(p)
        BY <4>1 DEF Erase, Remove
      <4>2. CASE ~Erase(p)
        BY <1>1, <2>7, <4>2 DEF HandlerStep, Send, Owners, SkipErase, Match, Tags, TagsRejected,
           Index, Put, Fail, tables
      <4> QED
        BY <4>1, <4>2
    <3>2. raced' = raced
      BY <1>1, <2>7 DEF HandlerStep, Send, Owners, Erase, SkipErase, Match, Tags, TagsRejected,
         Index, Put, Fail, histories
    <3>3. handler'[p].at \notin {"replace", "insert"}
      <4>1. ASSUME NEW d \in Events, Send(p, d)
            PROVE  handler'[p].at \notin {"replace", "insert"}
        BY <4>1, SendDoes, Reads
      <4>2. CASE Owners(p) \/ Erase(p) \/ SkipErase(p)
        BY <4>2, DeletionDoes, Reads
      <4>3. CASE Match(p) \/ Tags(p) \/ Index(p)
        BY <4>3, MatchDoes, TagsDoes, IndexDoes, Reads
      <4>4. CASE TagsRejected(p) \/ Put(p) \/ Fail(p)
        BY <4>4, EndDoes, Reads
      <4> QED
        BY <1>1, <2>7, <4>1, <4>2, <4>3, <4>4 DEF HandlerStep
    <3>4. ~Replacing(p)'
      BY <3>3 DEF Replacing, At
    <3> QED
      BY <2>1, <3>1, <3>2, <3>4, PlaceKept
  <2> QED
    BY <2>3, <2>4, <2>5, <2>6, <2>7
<1>2. CASE PrunerStep \/ UNCHANGED vars
  <2>1. handler' = handler /\ raced' = raced /\ stored' \subseteq stored
    BY <1>2 DEF PrunerStep, PruneSelect, PruneErase, PruneFail, Remove, vars, tables, histories
  <2>2. \A d : Versions(d)' \subseteq Versions(d)
    BY <2>1 DEF Versions, SamePlace
  <2>3. ASSUME NEW q \in Procs, Place[handler'[q].event] \notin raced'
        PROVE  Free(q)'
    <3>1. PICK d : d = handler[q].event
      OBVIOUS
    <3>2. Versions(handler[q].event)' = Versions(d)'
      BY <2>1, <3>1
    <3> QED
      BY <2>1, <2>2, <2>3, <3>1, <3>2 DEF PlaceInv, Free, At
  <2>4. LatestOnly'
    BY <2>1 DEF PlaceInv, LatestOnly, SamePlace
  <2> QED
    BY <2>1, <2>3, <2>4 DEF PlaceInv, SamePlace, Replacing, At
<1> QED
  BY <1>1, <1>2, Cases

(* THEOREM: one version of a replaceable event is stored per place, unless  *)
(* two saves were at that place at once, or the event has no d tag.         *)
THEOREM Latest == Spec => []LatestOnly
<1>1. Init => PlaceInv
  BY Idling DEF Init, PlaceInv, LatestOnly, Free, Replacing, At
<1>2. TypeOK /\ PlaceInv /\ [Next]_vars => TypeOK' /\ PlaceInv'
  BY TypeInductive, PlaceInductive
<1>3. PlaceInv => LatestOnly
  BY DEF PlaceInv
<1> QED
  BY <1>1, <1>2, <1>3, InitialType, PTL DEF Spec

-----------------------------------------------------------------------------
(* Startup *)

(* No column and no row is of a tag the event does not have, and an older   *)
(* release wrote all rows.                                                  *)
OwnTags ==
    /\ \A e \in SavedEvents :
         /\ filled[e] \subseteq TagsOf[e] /\ tagRows[e] \subseteq TagsOf[e] /\ cacheRows[e] \subseteq TagsOf[e]
         /\ writing[e] \subseteq {"tags", "cache"} \X TagsOf[e]
    /\ \A e \in OldEvents \cap present : tagRows[e] = TagsOf[e]

FilledIn(names) == \A e \in present \ halved : filled[e] \cap names = TagsOf[e] \cap names
HasFive == 5 \in columns /\ FilledIn(EarlyNames)
HasSix == 6 \in columns /\ FilledIn(LateNames)
Cached == \A e \in OldEvents \cap present : cacheRows[e] = TagsOf[e]

(* What is known of the database where a visit is, and by its version.      *)
Knows(v) ==
    /\ visit[v] \in {"tags", "cache"} => "events" \in made
    /\ visit[v] = "cache" => "tags" \in made
    /\ visit[v] \in {"flag", "version"} \cup Filling => made = TableNames
    /\ visit[v] = "fill 5" => 5 \in columns
    /\ visit[v] = "fill 6" => 6 \in columns
    /\ visit[v] \in {"add 6", "fill 6", "stamp", "fill cache"} => HasFive
    /\ visit[v] \in {"stamp", "fill cache"} => HasSix
VersionTells ==
    /\ version \in {5, 6, 12} => HasFive
    /\ version \in {6, 12} => HasSix /\ made = TableNames
    /\ version \in {6, 12} => unfilled \/ Cached \/ \E v \in Visits : Does(v, "fill cache")

StartupInv == StartupTypeOK /\ OwnTags /\ VersionTells /\ \A v \in Visits : Knows(v)

(* A migrated database is not undone: by a step that leaves rows and        *)
(* columns as they are, by a save, by either UPDATE.                        *)
Lasts ==
    /\ made \subseteq made'
    /\ columns \subseteq columns'
    /\ HasFive => HasFive'
    /\ HasSix => HasSix'
    /\ Cached => Cached'

LEMMA Standing ==
    ASSUME made \subseteq made', columns \subseteq columns', present' = present, filled' = filled,
           halved \subseteq halved', Cached => Cached'
    PROVE  Lasts
BY DEF Lasts, HasFive, HasSix, FilledIn

LEMMA RowsStand == ASSUME UNCHANGED contents PROVE Cached => Cached'
BY DEF contents, Cached

LEMMA Updating ==
    ASSUME StartupTypeOK, OwnTags, NEW names \in SUBSET Names, NEW touched \in SUBSET present,
           FillFrom(touched, names), \A e \in present \ touched : tagRows[e] \cap names = {}
    PROVE  Lasts /\ OwnTags' /\ filled' \in [SavedEvents -> SUBSET Names] /\ halved' \subseteq SavedEvents
           /\ FilledIn(names)'
<1>1. present' = present /\ tagRows' = tagRows /\ cacheRows' = cacheRows /\ writing' = writing
      /\ columns' = columns /\ made' = made /\ halved \subseteq halved'
  BY DEF FillFrom, schema
<1>2. ASSUME NEW e \in SavedEvents
      PROVE  /\ e \in touched => filled'[e] = (filled[e] \ names) \cup (tagRows[e] \cap names)
             /\ e \notin touched => filled'[e] = filled[e]
  BY DEF FillFrom
<1>3. \A e \in SavedEvents : filled'[e] \subseteq TagsOf[e]
  BY <1>2 DEF OwnTags
<1>4. filled' \in [SavedEvents -> SUBSET Names]
  BY DEF FillFrom, StartupTypeOK
<1>5. \A e \in present \ halved' : e \in SavedEvents /\ e \notin halved /\ tagRows[e] = TagsOf[e]
  BY DEF FillFrom, StartupTypeOK
<1>6. ASSUME NEW N, FilledIn(N)
      PROVE  FilledIn(N)'
  <2>1. SUFFICES ASSUME NEW e \in present \ halved'
                 PROVE  filled'[e] \cap N = TagsOf[e] \cap N
    BY <1>1 DEF FilledIn
  <2>2. filled[e] \cap N = TagsOf[e] \cap N
    BY <1>5, <1>6 DEF FilledIn
  <2> QED
    BY <1>2, <1>5, <2>2
<1>7. FilledIn(names)'
  <2>1. SUFFICES ASSUME NEW e \in present \ halved'
                 PROVE  filled'[e] \cap names = TagsOf[e] \cap names
    BY <1>1 DEF FilledIn
  <2>2. filled[e] \subseteq TagsOf[e]
    BY <1>5 DEF OwnTags
  <2> QED
    BY <1>2, <1>5, <2>2
<1>8. Cached => Cached'
  BY <1>1 DEF Cached
<1> QED
  BY <1>1, <1>3, <1>4, <1>6, <1>7, <1>8 DEF Lasts, HasFive, HasSix, OwnTags, FillFrom, StartupTypeOK

(* What the other visits know lasts.                                        *)
LEMMA OthersKnow ==
    ASSUME StartupTypeOK, Lasts, NEW v \in Visits, Knows(v), visit'[v] = visit[v],
           (made \subseteq TableNames)'
    PROVE  Knows(v)'
BY DEF Knows, Lasts, HasFive, HasSix, Filling

LEMMA Stepping ==
    ASSUME StartupTypeOK, NEW v \in Visits, NEW s \in VisitSteps, Proceed(v, s)
    PROVE  /\ visit' \in [Visits -> VisitSteps]
           /\ visit'[v] = s
           /\ \A w \in Visits \ {v} : visit'[w] = visit[w]
BY DEF Proceed, StartupTypeOK

LEMMA Setting ==
    ASSUME StartupTypeOK, NEW v \in Visits, NEW s \in VisitSteps,
           visit' = [visit EXCEPT ![v] = s]
    PROVE  /\ visit' \in [Visits -> VisitSteps]
           /\ visit'[v] = s
           /\ \A w \in Visits \ {v} : visit'[w] = visit[w]
BY DEF StartupTypeOK

(* The invariant from what one visit does: what it then knows, and that     *)
(* nobody takes the last statement away while the cache is to be filled.    *)
LEMMA OneVisit ==
    ASSUME StartupInv, Lasts, StartupTypeOK', OwnTags', NEW v \in Visits, Knows(v)', VersionTells',
           \A w \in Visits \ {v} : visit'[w] = visit[w]
    PROVE  StartupInv'
<1>1. ASSUME NEW w \in Visits \ {v}
      PROVE  Knows(w)'
  BY OthersKnow DEF StartupInv, StartupTypeOK
<1> QED
  BY <1>1 DEF StartupInv

LEMMA VersionStays ==
    ASSUME StartupInv, Lasts, version' = version, (made \subseteq TableNames)',
           unfilled => unfilled',
           (\E w \in Visits : Does(w, "fill cache")) => unfilled' \/ Cached' \/ \E w \in Visits : Does(w, "fill cache")'
    PROVE  VersionTells'
BY DEF StartupInv, VersionTells, Lasts

LEMMA SameVersion ==
    ASSUME StartupInv, Lasts, version' = version, StartupTypeOK', unfilled => unfilled',
           NEW v \in Visits, visit[v] # "fill cache" \/ unfilled' \/ Cached',
           \A w \in Visits \ {v} : visit'[w] = visit[w]
    PROVE  VersionTells'
<1>1. ASSUME NEW w \in Visits, Does(w, "fill cache"), ~unfilled', ~Cached'
      PROVE  Does(w, "fill cache")'
  BY <1>1 DEF Does
<1> QED
  BY <1>1, VersionStays DEF StartupTypeOK

LEMMA StartupInductive == StartupInv /\ [StartupNext]_startupVars => StartupInv'
<1> SUFFICES ASSUME StartupInv, [StartupNext]_startupVars
             PROVE  StartupInv'
  OBVIOUS
<1> USE DEF VisitSteps, Filling, TableNames
<1>0. StartupTypeOK /\ OwnTags /\ VersionTells /\ (\A v \in Visits : Knows(v))
  BY DEF StartupInv
<1>1. ASSUME NEW v \in Visits, Visit(v)
      PROVE  StartupInv'
  <2>1. PICK s \in {"check", "tidy"} : visit' = [visit EXCEPT ![v] = s]
    BY <1>1 DEF Visit, Proceed
  <2>2. Lasts /\ StartupTypeOK' /\ OwnTags' /\ version' = version /\ (unfilled => unfilled')
    BY <1>0, <1>1, <2>1, Setting, Standing, RowsStand DEF Visit, schema, contents, StartupTypeOK, OwnTags
  <2>3. Knows(v)' /\ \A w \in Visits \ {v} : visit'[w] = visit[w]
    BY <1>0, <2>1, Setting DEF Knows
  <2>4. VersionTells'
    BY <1>1, <2>2, <2>3, SameVersion DEF Visit, Does, TableNames
  <2> QED
    BY <2>2, <2>3, <2>4, OneVisit
<1>2. ASSUME NEW v \in Visits, Tidy(v)
      PROVE  StartupInv'
  <2>1. Lasts /\ StartupTypeOK' /\ OwnTags' /\ version' = version /\ (unfilled => unfilled')
    BY <1>0, <1>2, Stepping, Standing, RowsStand DEF Tidy, contents, StartupTypeOK, OwnTags
  <2>2. Knows(v)' /\ \A w \in Visits \ {v} : visit'[w] = visit[w]
    <3>1. visit'[v] = "check" /\ \A w \in Visits \ {v} : visit'[w] = visit[w]
      BY <1>0, <1>2, Stepping DEF Tidy
    <3> QED
      BY <3>1 DEF Knows
  <2>3. VersionTells'
    BY <1>2, <2>1, <2>2, SameVersion DEF Tidy, Does, TableNames
  <2> QED
    BY <2>1, <2>2, <2>3, OneVisit
<1>3. ASSUME NEW v \in Visits, Check(v)
      PROVE  StartupInv'
  <2>1. PICK s \in {"away", "events"} :
            visit' = [visit EXCEPT ![v] = s] \/ Proceed(v, s)
    BY <1>3 DEF Check
  <2>2. /\ visit' \in [Visits -> VisitSteps]
        /\ visit'[v] = s
        /\ \A w \in Visits \ {v} : visit'[w] = visit[w]
    BY <1>0, <2>1, Setting, Stepping
  <2>3. Lasts /\ StartupTypeOK' /\ OwnTags' /\ version' = version /\ (unfilled => unfilled')
    BY <1>0, <1>3, <2>2, Standing, RowsStand DEF Check, schema, contents, StartupTypeOK, OwnTags
  <2>4. Knows(v)'
    BY <2>2 DEF Knows
  <2>5. VersionTells'
    BY <1>3, <2>2, <2>3, SameVersion DEF Check, Does, TableNames
  <2> QED
    BY <2>2, <2>3, <2>4, <2>5, OneVisit
<1>4. ASSUME NEW v \in Visits, Create(v)
      PROVE  StartupInv'
  <2>1. PICK s \in {"tags", "cache", "flag"} :
          /\ Proceed(v, s)
          /\ visit[v] = "events" => s = "tags"
          /\ visit[v] = "tags" => s = "cache"
          /\ visit[v] = "cache" => s = "flag"
    BY <1>4 DEF Create, NextTable
  <2>2. made' = made \cup {visit[v]} /\ columns \subseteq columns' /\ columns' \subseteq {5, 6}
    BY <1>0, <1>4 DEF Create, StartupTypeOK
  <2>3. Lasts /\ StartupTypeOK' /\ OwnTags' /\ version' = version /\ (unfilled => unfilled')
    BY <1>0, <1>4, <2>1, <2>2, Stepping, Standing, RowsStand DEF Create, contents, StartupTypeOK, OwnTags
  <2>4. /\ visit'[v] = s
        /\ \A w \in Visits \ {v} : visit'[w] = visit[w]
    BY <1>0, <2>1, Stepping
  <2>5. Knows(v)'
    <3>1. /\ s = "tags" => "events" \in made'
          /\ s = "cache" => {"events", "tags"} \subseteq made'
          /\ s = "flag" => made' = TableNames
      <4>1. visit[v] \in TableNames
        BY <1>4 DEF Create
      <4>2. /\ s = "tags" => visit[v] = "events"
            /\ s = "cache" => visit[v] = "tags"
            /\ s = "flag" => visit[v] = "cache"
        BY <2>1, <4>1
      <4>3. /\ visit[v] = "tags" => "events" \in made
            /\ visit[v] = "cache" => {"events", "tags"} \subseteq made
            /\ made \subseteq TableNames
        BY <1>0 DEF Knows, StartupTypeOK
      <4>4. made' = made \cup {visit[v]}
        BY <2>2
      <4> QED
        BY <4>2, <4>3, <4>4
    <3> QED
      BY <2>4, <3>1 DEF Knows
  <2>6. VersionTells'
    BY <1>4, <2>3, <2>4, SameVersion DEF Create, Does, TableNames
  <2> QED
    BY <2>3, <2>4, <2>5, <2>6, OneVisit
<1>5. ASSUME NEW v \in Visits, Flag(v)
      PROVE  StartupInv'
  <2>1. Lasts /\ StartupTypeOK' /\ OwnTags' /\ version' = version /\ (unfilled => unfilled') /\ made' = made
    BY <1>0, <1>5, Stepping, Standing, RowsStand DEF Flag, contents, StartupTypeOK, OwnTags
  <2>2. visit'[v] = "version" /\ \A w \in Visits \ {v} : visit'[w] = visit[w]
    BY <1>0, <1>5, Stepping DEF Flag
  <2>3. Knows(v)'
    BY <1>0, <1>5, <2>1, <2>2 DEF Knows, Flag, Does
  <2>4. VersionTells'
    BY <1>5, <2>1, <2>2, SameVersion DEF Flag, Does, TableNames
  <2> QED
    BY <2>1, <2>2, <2>3, <2>4, OneVisit
<1>6. ASSUME NEW v \in Visits, ReadVersion(v)
      PROVE  StartupInv'
  <2>1. visit' = [visit EXCEPT ![v] = After(version)]
    BY <1>6 DEF ReadVersion, Proceed
  <2>2. version \in {0, 4, 5, 6, 12} /\ UNCHANGED <<schema, contents, halved, unfilled>>
    BY <1>0, <1>6 DEF ReadVersion, StartupTypeOK
  <2>3. /\ visit' \in [Visits -> VisitSteps]
        /\ visit'[v] = After(version)
        /\ \A w \in Visits \ {v} : visit'[w] = visit[w]
    <3>1. After(version) \in VisitSteps
      BY DEF After
    <3> QED
      BY <1>0, <2>1, <2>2, <3>1, Setting
  <2>4. Lasts /\ StartupTypeOK' /\ OwnTags' /\ version' = version /\ (unfilled => unfilled') /\ made' = made
    BY <1>0, <2>2, <2>3, Standing, RowsStand DEF schema, contents, StartupTypeOK, OwnTags
  <2>5. After(version) \in {"add 6", "stamp"} => version \in {5, 6, 12}
    BY <2>2 DEF After
  <2>6. After(version) = "stamp" => version \in {6, 12}
    BY <2>2 DEF After
  <2>7. Knows(v)'
    <3>1. After(version) \in {"add 5", "add 6", "stamp"}
      BY DEF After
    <3> QED
      BY <1>0, <1>6, <2>3, <2>4, <2>5, <2>6, <3>1 DEF Knows, ReadVersion, Does, VersionTells, Lasts
  <2>8. VersionTells'
    BY <1>6, <2>3, <2>4, SameVersion DEF ReadVersion, Does, TableNames
  <2> QED
    BY <2>3, <2>4, <2>7, <2>8, OneVisit
<1>7. ASSUME NEW v \in Visits, AddColumns(v)
      PROVE  StartupInv'
  <2>1. PICK s \in {"fill 5", "fill 6"} :
          /\ Proceed(v, s)
          /\ s = "fill 5" => visit[v] = "add 5" /\ 5 \in columns'
          /\ s = "fill 6" => visit[v] = "add 6" /\ 6 \in columns'
    BY <1>7 DEF AddColumns, Does
  <2>2. columns \subseteq columns' /\ columns' \subseteq {5, 6} /\ made' = made
    BY <1>0, <1>7 DEF AddColumns, StartupTypeOK
  <2>3. Lasts /\ StartupTypeOK' /\ OwnTags' /\ version' = version /\ (unfilled => unfilled')
    BY <1>0, <1>7, <2>1, <2>2, Stepping, Standing, RowsStand DEF AddColumns, contents, StartupTypeOK, OwnTags
  <2>4. visit'[v] = s /\ \A w \in Visits \ {v} : visit'[w] = visit[w]
    BY <1>0, <2>1, Stepping
  <2>5. Knows(v)'
    BY <1>0, <1>7, <2>1, <2>2, <2>3, <2>4 DEF Knows, AddColumns, Lasts
  <2>6. VersionTells'
    BY <1>7, <2>3, <2>4, SameVersion DEF AddColumns, Does, TableNames
  <2> QED
    BY <2>3, <2>4, <2>5, <2>6, OneVisit
<1>8. ASSUME NEW v \in Visits, FillEarly(v)
      PROVE  StartupInv'
  <2>1. Lasts /\ OwnTags' /\ FilledIn(EarlyNames)' /\ filled' \in [SavedEvents -> SUBSET Names]
        /\ halved' \subseteq SavedEvents
    BY <1>0, <1>8, Updating DEF FillEarly, Names, StartupTypeOK
  <2>2. visit'[v] = "add 6" /\ \A w \in Visits \ {v} : visit'[w] = visit[w]
    BY <1>0, <1>8, Stepping DEF FillEarly
  <2>3. StartupTypeOK' /\ version' = version /\ (unfilled => unfilled') /\ made' = made
    BY <1>0, <1>8, <2>1, Stepping DEF FillEarly, FillFrom, schema, StartupTypeOK
  <2>4. Knows(v)'
    BY <1>0, <1>8, <2>1, <2>2, <2>3 DEF Knows, FillEarly, Does, HasFive, Lasts
  <2>5. VersionTells'
    BY <1>8, <2>1, <2>2, <2>3, SameVersion DEF FillEarly, Does, TableNames
  <2> QED
    BY <2>1, <2>2, <2>3, <2>4, <2>5, OneVisit
<1>9. ASSUME NEW v \in Visits, FillLate(v)
      PROVE  StartupInv'
  <2>1. Lasts /\ OwnTags' /\ FilledIn(LateNames)' /\ filled' \in [SavedEvents -> SUBSET Names]
        /\ halved' \subseteq SavedEvents
    BY <1>0, <1>9, Updating DEF FillLate, Names, StartupTypeOK
  <2>2. visit'[v] = "stamp" /\ \A w \in Visits \ {v} : visit'[w] = visit[w]
    BY <1>0, <1>9, Stepping DEF FillLate
  <2>3. StartupTypeOK' /\ version' = version /\ (unfilled => unfilled') /\ made' = made
    BY <1>0, <1>9, <2>1, Stepping DEF FillLate, FillFrom, schema, StartupTypeOK
  <2>4. Knows(v)'
    BY <1>0, <1>9, <2>1, <2>2, <2>3 DEF Knows, FillLate, Does, HasSix, Lasts
  <2>5. VersionTells'
    BY <1>9, <2>1, <2>2, <2>3, SameVersion DEF FillLate, Does, TableNames
  <2> QED
    BY <2>1, <2>2, <2>3, <2>4, <2>5, OneVisit
<1>10. ASSUME NEW v \in Visits, Stamp6(v)
       PROVE  StartupInv'
  <2>1. Lasts /\ StartupTypeOK' /\ OwnTags' /\ unfilled' = unfilled /\ made' = made
    BY <1>0, <1>10, Stepping, Standing, RowsStand DEF Stamp6, contents, StartupTypeOK, OwnTags
  <2>2. visit'[v] = "fill cache" /\ \A w \in Visits \ {v} : visit'[w] = visit[w]
    BY <1>0, <1>10, Stepping DEF Stamp6
  <2>3. made = TableNames /\ HasFive /\ HasSix
    BY <1>0, <1>10 DEF Knows, Stamp6, Does
  <2>4. Knows(v)' /\ VersionTells'
    BY <2>1, <2>2, <2>3 DEF Knows, VersionTells, Lasts, Does
  <2> QED
    BY <2>1, <2>2, <2>4, OneVisit
<1>11. ASSUME NEW v \in Visits, FillCache(v)
       PROVE  StartupInv'
  <2>1. \A e \in SavedEvents :
            cacheRows'[e] = IF e \in present THEN cacheRows[e] \cup tagRows[e] ELSE cacheRows[e]
    BY <1>11 DEF FillCache
  <2>2. Cached'
    <3>1. SUFFICES ASSUME NEW e \in OldEvents \cap present
                   PROVE  cacheRows'[e] = TagsOf[e]
      BY <1>11 DEF Cached, FillCache
    <3>2. e \in SavedEvents /\ cacheRows[e] \subseteq TagsOf[e] /\ tagRows[e] = TagsOf[e]
      BY <1>0 DEF OwnTags, SavedEvents
    <3> QED
      BY <2>1, <3>2
  <2>3. Lasts
    BY <1>11, <2>2, Standing DEF FillCache, schema
  <2>4. visit' = [visit EXCEPT ![v] = "away"]
    BY <1>11 DEF FillCache, Proceed
  <2>5. StartupTypeOK' /\ version' = version /\ (unfilled => unfilled')
    BY <1>0, <1>11, <2>4, Setting DEF FillCache, schema, StartupTypeOK
  <2>6. OwnTags'
    BY <1>0, <1>11, <2>1 DEF FillCache, OwnTags
  <2>7. Knows(v)' /\ \A w \in Visits \ {v} : visit'[w] = visit[w]
    BY <1>0, <2>4, Setting DEF Knows
  <2>8. VersionTells'
    BY <2>2, <2>3, <2>5, <2>7, SameVersion
  <2> QED
    BY <2>3, <2>5, <2>6, <2>7, <2>8, OneVisit
<1>12. ASSUME NEW v \in Visits, VisitEnds(v)
       PROVE  StartupInv'
  <2>1. visit' = [visit EXCEPT ![v] = "away"]
    BY <1>12 DEF VisitEnds, Proceed
  <2>a. unfilled' \in BOOLEAN /\ (unfilled => unfilled')
    BY <1>12 DEF VisitEnds
  <2>b. UNCHANGED <<schema, contents, halved>>
    BY <1>12 DEF VisitEnds
  <2>2. Lasts /\ StartupTypeOK' /\ OwnTags' /\ version' = version /\ (unfilled => unfilled')
    BY <1>0, <2>1, <2>a, <2>b, Setting, Standing, RowsStand DEF schema, contents, StartupTypeOK, OwnTags
  <2>3. Knows(v)' /\ \A w \in Visits \ {v} : visit'[w] = visit[w]
    BY <1>0, <2>1, Setting DEF Knows
  <2>4. VersionTells'
    BY <1>12, <2>2, <2>3, SameVersion DEF VisitEnds, Does
  <2> QED
    BY <2>2, <2>3, <2>4, OneVisit
<1>13. ASSUME NEW e \in SavedEvents, InsertRow(e)
       PROVE  StartupInv'
  <2>1. e \in NewEvents /\ e \notin OldEvents /\ present' = present \cup {e}
    BY <1>13, StartupData DEF InsertRow
  <2>2. /\ filled'[e] = TagsOf[e] /\ writing'[e] = {"tags", "cache"} \X TagsOf[e]
        /\ \A d \in SavedEvents : d # e => filled'[d] = filled[d] /\ writing'[d] = writing[d]
    BY <1>0, <1>13 DEF InsertRow, StartupTypeOK
  <2>3. TagsOf[e] \subseteq Names
    BY StartupData
  <2>4. UNCHANGED <<schema, visit, tagRows, cacheRows, halved, unfilled>>
    BY <1>13 DEF InsertRow
  <2>5. StartupTypeOK'
    BY <1>0, <1>13, <2>1, <2>3, <2>4 DEF InsertRow, StartupTypeOK, schema, Statements
  <2>6. OwnTags'
    BY <1>0, <2>1, <2>2, <2>4 DEF OwnTags
  <2>7. \A N : FilledIn(N) => FilledIn(N)'
    BY <1>0, <2>1, <2>2, <2>4 DEF FilledIn, StartupTypeOK
  <2>8. Cached => Cached'
    BY <2>1, <2>4 DEF Cached
  <2>9. Lasts
    BY <2>4, <2>7, <2>8 DEF Lasts, HasFive, HasSix, schema
  <2>10. VersionTells'
    BY <2>4, <2>5, <2>9, VersionStays DEF schema, StartupTypeOK, Does
  <2> QED
    BY <1>0, <2>4, <2>5, <2>6, <2>9, <2>10, OthersKnow DEF StartupInv, StartupTypeOK
<1>14. ASSUME NEW e \in SavedEvents, InsertTagRows(e)
       PROVE  StartupInv'
  <2>1. PICK batch \in SUBSET writing[e] :
          /\ tagRows' = [tagRows EXCEPT ![e] = @ \cup {n \in Names : <<"tags", n>> \in batch}]
          /\ cacheRows' = [cacheRows EXCEPT ![e] = @ \cup {n \in Names : <<"cache", n>> \in batch}]
          /\ writing' = [writing EXCEPT ![e] = @ \ batch]
    BY <1>14 DEF InsertTagRows
  <2> DEFINE tags == {n \in Names : <<"tags", n>> \in batch}
             cache == {n \in Names : <<"cache", n>> \in batch}
  <2>2. tags \subseteq TagsOf[e] /\ cache \subseteq TagsOf[e]
    BY <1>0, <2>1 DEF OwnTags
  <2>3. UNCHANGED <<schema, visit, present, filled, halved, unfilled>>
    BY <1>14 DEF InsertTagRows
  <2>4. StartupTypeOK'
    BY <1>0, <2>1, <2>3 DEF StartupTypeOK, schema
  <2>5. /\ tagRows'[e] = tagRows[e] \cup tags /\ cacheRows'[e] = cacheRows[e] \cup cache
        /\ writing'[e] \subseteq writing[e]
        /\ \A d \in SavedEvents : d # e => /\ tagRows'[d] = tagRows[d] /\ cacheRows'[d] = cacheRows[d]
                                           /\ writing'[d] = writing[d]
    BY <1>0, <2>1 DEF StartupTypeOK
  <2>6. OwnTags'
    <3>1. ASSUME NEW d \in SavedEvents
          PROVE  /\ filled'[d] \subseteq TagsOf[d] /\ tagRows'[d] \subseteq TagsOf[d]
                 /\ cacheRows'[d] \subseteq TagsOf[d]
                 /\ writing'[d] \subseteq {"tags", "cache"} \X TagsOf[d]
      BY <1>0, <2>2, <2>3, <2>5 DEF OwnTags
    <3>2. ASSUME NEW d \in OldEvents \cap present
          PROVE  tagRows'[d] = TagsOf[d]
      BY <1>0, <2>2, <2>3, <2>5 DEF OwnTags, SavedEvents
    <3> QED
      BY <2>3, <3>1, <3>2 DEF OwnTags
  <2>7. Cached => Cached'
    BY <1>0, <2>2, <2>3, <2>5 DEF Cached, SavedEvents
  <2>8. Lasts
    BY <2>3, <2>7, Standing DEF schema
  <2>9. VersionTells'
    BY <2>3, <2>4, <2>8, VersionStays DEF schema, StartupTypeOK, Does
  <2> QED
    BY <1>0, <2>3, <2>4, <2>6, <2>8, <2>9, OthersKnow DEF StartupInv, StartupTypeOK
<1>15. ASSUME NEW e \in SavedEvents, SaveEnds(e)
       PROVE  StartupInv'
  <2>1. UNCHANGED <<schema, visit, present, filled, tagRows, cacheRows, halved, unfilled>>
    BY <1>15 DEF SaveEnds
  <2>2. StartupTypeOK' /\ OwnTags'
    BY <1>0, <1>15, <2>1 DEF SaveEnds, StartupTypeOK, OwnTags, schema
  <2>3. Lasts
    BY <2>1, Standing DEF schema, Cached
  <2>4. VersionTells'
    BY <2>1, <2>2, <2>3, VersionStays DEF schema, StartupTypeOK, Does
  <2> QED
    BY <1>0, <2>1, <2>2, <2>3, <2>4, OthersKnow DEF StartupInv, StartupTypeOK
<1>16. CASE UNCHANGED startupVars
  BY <1>0, <1>16 DEF startupVars, schema, contents, StartupInv, StartupTypeOK, OwnTags, VersionTells, Knows,
     HasFive, HasSix, FilledIn, Cached, Does
<1> QED
  BY <1>1, <1>2, <1>3, <1>4, <1>5, <1>6, <1>7, <1>8, <1>9, <1>10, <1>11, <1>12, <1>13, <1>14, <1>15, <1>16
  DEF StartupNext

LEMMA StartupInitial == StartupInit => StartupInv
<1> SUFFICES ASSUME StartupInit
             PROVE  StartupInv
  OBVIOUS
<1> USE DEF VisitSteps, Filling, TableNames
<1>1. \A e \in SavedEvents : TagsOf[e] \subseteq Names
  BY StartupData
<1>2. \A v \in Visits : visit[v] = "away"
  BY DEF StartupInit
<1>3. OldEvents \subseteq SavedEvents /\ (\A n : TagsIn(n) \in [SavedEvents -> SUBSET Names])
      /\ NoTags \in [SavedEvents -> SUBSET Names]
  BY <1>1 DEF TagsIn, NoTags, SavedEvents
<1>4. StartupTypeOK
  <2>1. visit \in [Visits -> VisitSteps]
    BY DEF StartupInit
  <2>2. writing \in [SavedEvents -> SUBSET Statements]
    BY DEF StartupInit, NoTags
  <2>3. halved = {} /\ unfilled = FALSE /\ tidied = FALSE
    BY DEF StartupInit
  <2>4. filled \in [SavedEvents -> SUBSET Names] /\ tagRows \in [SavedEvents -> SUBSET Names]
        /\ cacheRows \in [SavedEvents -> SUBSET Names] /\ present \subseteq SavedEvents
    BY <1>3 DEF StartupInit
  <2>5. made \subseteq TableNames /\ columns \subseteq {5, 6} /\ version \in {0, 4, 5, 6, 12} /\ ready \in BOOLEAN
    BY DEF StartupInit
  <2> QED
    BY <2>1, <2>2, <2>3, <2>4, <2>5 DEF StartupTypeOK
<1>5. /\ \A e \in SavedEvents : NoTags[e] = {}
      /\ \A n, e : e \in SavedEvents => TagsIn(n)[e] = IF e \in OldEvents THEN TagsOf[e] \cap n ELSE {}
  BY DEF NoTags, TagsIn
<1>6. OwnTags
  <2>1. ASSUME NEW e \in SavedEvents
        PROVE  /\ filled[e] \subseteq TagsOf[e] /\ tagRows[e] \subseteq TagsOf[e] /\ cacheRows[e] \subseteq TagsOf[e]
               /\ writing[e] = {}
    <3>1. writing = NoTags /\ {filled, tagRows, cacheRows} \subseteq {NoTags, TagsIn(EarlyNames), TagsIn(Names)}
      BY DEF StartupInit
    <3>2. \A f \in {NoTags, TagsIn(EarlyNames), TagsIn(Names)} : f[e] \subseteq TagsOf[e]
      <4>1. NoTags[e] = {}
        BY <1>5
      <4>2. \A n : TagsIn(n)[e] \subseteq TagsOf[e]
        BY <1>5
      <4> QED
        BY <4>1, <4>2
    <3>3. writing[e] = {}
      BY <1>5, <3>1
    <3> QED
      BY <3>1, <3>2, <3>3
  <2>2. ASSUME NEW e \in OldEvents \cap present
        PROVE  tagRows[e] = TagsOf[e]
    <3>1. tagRows = TagsIn(Names)
      BY DEF StartupInit
    <3>2. e \in SavedEvents /\ e \in OldEvents
      BY <1>3
    <3>3. TagsOf[e] \cap Names = TagsOf[e]
      BY <1>1, <3>2
    <3> QED
      BY <1>5, <3>1, <3>2, <3>3
  <2> QED
    BY <2>1, <2>2 DEF OwnTags
<1>7. VersionTells
  <2>1. CASE version = 0
    BY <2>1 DEF VersionTells
  <2>2. CASE version \in {4, 5}
    <3>1. present = OldEvents /\ columns = {5} \cap {version}
          /\ (version = 5 => filled = TagsIn(EarlyNames))
      BY <2>2 DEF StartupInit
    <3>2. \A e \in present : TagsIn(EarlyNames)[e] \cap EarlyNames = TagsOf[e] \cap EarlyNames
      BY <1>3, <1>5, <3>1
    <3>3. version = 5 => HasFive
      BY <3>1, <3>2 DEF HasFive, FilledIn
    <3>4. version \notin {6, 12} /\ version \notin {12}
      BY <2>2
    <3>5. version \in {5, 6, 12} => version = 5
      BY <2>2
    <3> QED
      BY <3>3, <3>4, <3>5 DEF VersionTells
  <2>3. CASE version = 12
    <3>1. present = OldEvents /\ columns = {5, 6} /\ made = TableNames
          /\ filled = TagsIn(Names) /\ cacheRows = TagsIn(Names)
      BY <2>3 DEF StartupInit
    <3>2. ASSUME NEW e \in present
          PROVE  TagsIn(Names)[e] = TagsOf[e]
      <4>1. e \in SavedEvents /\ e \in OldEvents /\ TagsOf[e] \cap Names = TagsOf[e]
        BY <1>1, <1>3, <3>1
      <4> QED
        BY <1>5, <4>1
    <3>3. HasFive /\ HasSix /\ Cached
      BY <3>1, <3>2 DEF HasFive, HasSix, FilledIn, Cached
    <3> QED
      BY <3>1, <3>3 DEF VersionTells
  <2> QED
    BY <2>1, <2>2, <2>3 DEF StartupInit
<1> QED
  BY <1>2, <1>4, <1>6, <1>7 DEF StartupInv, Knows

(* THEOREM: types, for any visits, events and tags.                         *)
THEOREM StartupTypeCorrect == StartupSpec => []StartupTypeOK
<1>1. StartupInv => StartupTypeOK
  BY DEF StartupInv
<1> QED
  BY <1>1, StartupInitial, StartupInductive, PTL DEF StartupSpec

(* THEOREM: a database of version 6 has its columns, and they are filled,   *)
(* whoever visits and whatever is saved while it is made or migrated.       *)
THEOREM SixComplete == StartupSpec => []SixIsComplete
<1>1. StartupInv => SixIsComplete
  <2> SUFFICES ASSUME StartupInv, version = 6
               PROVE  SixIsComplete
    BY DEF SixIsComplete
  <2>1. HasFive /\ HasSix /\ made = TableNames
    BY DEF StartupInv, VersionTells
  <2>2. columns = {5, 6}
    BY <2>1 DEF StartupInv, StartupTypeOK, HasFive, HasSix
  <2>3. ASSUME NEW e \in present \ halved
        PROVE  filled[e] = TagsOf[e]
    <3>1. filled[e] \cap EarlyNames = TagsOf[e] \cap EarlyNames /\ filled[e] \cap LateNames = TagsOf[e] \cap LateNames
      BY <2>1 DEF HasFive, HasSix, FilledIn
    <3>2. e \in SavedEvents /\ filled[e] \subseteq Names /\ TagsOf[e] \subseteq Names
      BY StartupData DEF StartupInv, StartupTypeOK
    <3> QED
      BY <3>1, <3>2 DEF Names
  <2>4. unfilled \/ Cached \/ \E v \in Visits : Does(v, "fill cache")
    BY DEF StartupInv, VersionTells
  <2> QED
    BY <2>1, <2>2, <2>3, <2>4 DEF SixIsComplete, Cached
<1> QED
  BY <1>1, StartupInitial, StartupInductive, PTL DEF StartupSpec
=============================================================================
