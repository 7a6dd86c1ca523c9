----------------------------- MODULE EventStore -----------------------------
(***************************************************************************)
(* How the relay keeps events (relay-worker.ts: processEvent,              *)
(* saveEventToDatabase, processDeletionEvent, pruneOldEvents): the save of *)
(* an event with its tag rows, replaceable and addressable events of which *)
(* the latest is kept, deletion requests and the pruning of old events.    *)
(*                                                                         *)
(* One statement or batch of D1, and each use of the worker cache, is one  *)
(* action.  All sessions read the primary ('first-primary').  An event is  *)
(* abstracted to its author, its time, the place it is a version of and    *)
(* what it deletes.  Ephemeral events, deletion requests that name nothing *)
(* and the duplicate-content check (switched off) store nothing.           *)
(***************************************************************************)
EXTENDS Integers, FiniteSets

CONSTANTS
    Events,       \* the events clients send; each may be sent again and again
    Procs,        \* handlers that can be at work at once
    Author,       \* event -> pubkey
    Stamp,        \* event -> created_at
    Place,        \* event -> (kind, pubkey[, d]) it is a version of, or Nowhere
    Nowhere,
    Undefined,    \* addressable events without a d tag
    Deletes,      \* event -> the events a deletion request (kind 5) names
    Large,        \* events whose tag rows do not fit in one batch
    Protected,    \* events whose kind is never pruned
    Chunk,        \* events a deletion erases in one batch (25), or the pruner (1000)
    MayFail,      \* whether statements fail and handlers are cut off
    MaxRequests   \* bound: requests in a behaviour

ASSUME EventData ==
    /\ Stamp \in [Events -> Nat]
    /\ Undefined \subseteq Events /\ Large \subseteq Events /\ Protected \subseteq Events
    /\ Deletes \in [Events -> SUBSET Events]
    /\ Chunk \in Nat \ {0} /\ MayFail \in BOOLEAN /\ MaxRequests \in Nat

VARIABLES
    stored,       \* the table events
    tagged,       \* events with their rows in tags
    indexed,      \* events with their rows in event_tags_cache_multi
    known,        \* ids in the worker cache
    handler,      \* per process: the event, the next step, the events it will remove
    victims,      \* what the pruner has selected
    removed,      \* history: events that have been removed at some time
    gone,         \* history: events that are absent for a reason
    torn,         \* history: events whose save was cut off before all rows were written
    raced,        \* history: places two saves have been at together
    refused,      \* history: events answered "duplicate"
    saved,        \* history: how often an event was answered "saved", up to 2
    requests      \* history: how many were sent

tables == <<stored, tagged, indexed>>
histories == <<removed, gone, torn, raced, refused, saved>>
vars == <<tables, known, handler, victims, histories, requests>>

Idle == [at |-> "idle"]
Steps == {"owners", "erase", "match", "select", "find", "replace", "insert", "tags", "index", "put"}
Handlers == {Idle} \cup [at : Steps, event : Events, todo : SUBSET Events]

At(p, step) == handler[p].at = step
Goto(p, step) == handler' = [handler EXCEPT ![p].at = step]
GotoWith(p, step, todo) == handler' = [handler EXCEPT ![p].at = step, ![p].todo = todo]
Return(p) == handler' = [handler EXCEPT ![p] = Idle]

SamePlace(d, e) == Place[d] # Nowhere /\ Place[d] = Place[e]
\* The rows the SELECT for an older version can find: without a d tag the
\* column tag_d is NULL, which is not = ''.
Versions(e) == {v \in stored \ Undefined : SamePlace(v, e)}
IsDeletion(e) == Deletes[e] # {}

\* A batch that deletes the rows of `lost`; `why` is what may be removed.
Remove(lost, why) ==
    /\ stored' = stored \ lost
    /\ tagged' = tagged \ lost
    /\ indexed' = indexed \ lost
    /\ removed' = removed \cup (lost \cap stored)
    /\ gone' = gone \cup (lost \cap stored \cap why)
    /\ torn' = torn \ lost
\* A statement per event and chunks of a fixed size.
IsChunk(part, whole) ==
    /\ part \subseteq whole /\ part # {}
    /\ part = whole \/ Cardinality(part) = Chunk

Init ==
    /\ stored = {} /\ tagged = {} /\ indexed = {} /\ known = {}
    /\ handler = [p \in Procs |-> Idle]
    /\ victims = {}
    /\ removed = {} /\ gone = {} /\ torn = {} /\ raced = {} /\ refused = {}
    /\ saved = [e \in Events |-> 0]
    /\ requests = 0

-----------------------------------------------------------------------------
(* processEvent *)
Send(p, e) ==
    /\ At(p, "idle") /\ requests < MaxRequests
    /\ requests' = requests + 1
    /\ handler' = [handler EXCEPT ![p] =
         [at |-> IF IsDeletion(e) THEN "owners" ELSE "match", event |-> e, todo |-> {}]]
    /\ UNCHANGED <<tables, known, victims, histories>>

\* Mutant: the owners of the events are not compared.
OwnersUnchecked(p) ==
    LET own == {t \in Deletes[handler[p].event] : t \in stored} IN
    /\ At(p, "owners")
    /\ GotoWith(p, IF own = {} THEN "match" ELSE "erase", own)
    /\ UNCHANGED <<tables, known, victims, histories, requests>>

\* Of the events named, those that are stored and of the same author.
Owners(p) ==
    LET own == {t \in Deletes[handler[p].event] \cap stored :
                  Author[t] = Author[handler[p].event]} IN
    /\ At(p, "owners")
    /\ GotoWith(p, IF own = {} THEN "match" ELSE "erase", own)
    /\ UNCHANGED <<tables, known, victims, histories, requests>>

\* One batch of the deletion; it is saved itself when all are done.
Erase(p) ==
    /\ At(p, "erase")
    /\ \E part \in SUBSET handler[p].todo :
         LET rest == handler[p].todo \ part IN
         /\ IsChunk(part, handler[p].todo)
         /\ Remove(part, {t \in Events : Author[t] = Author[handler[p].event]})
         /\ GotoWith(p, IF rest = {} THEN "match" ELSE "erase", rest)
    /\ UNCHANGED <<known, victims, raced, refused, saved, requests>>

\* The owners or a batch fail: the answer will be an error, the request is saved.
SkipErase(p) ==
    /\ MayFail /\ (At(p, "owners") \/ At(p, "erase"))
    /\ GotoWith(p, "match", {})
    /\ UNCHANGED <<tables, known, victims, histories, requests>>

-----------------------------------------------------------------------------
(* saveEventToDatabase *)
Refuse(p) == refused' = refused \cup {handler[p].event} /\ Return(p)

\* Mutant: the id is cached when the save begins.
MatchEager(p) ==
    /\ At(p, "match")
    /\ known' = known \cup {handler[p].event}
    /\ \/ handler[p].event \in known /\ Refuse(p)
       \/ Goto(p, "select") /\ UNCHANGED refused
    /\ UNCHANGED <<tables, victims, removed, gone, torn, raced, saved, requests>>

\* An entry may have expired, and every colo has a cache of its own.
Match(p) ==
    /\ At(p, "match")
    /\ \/ handler[p].event \in known /\ Refuse(p)
       \/ Goto(p, "select") /\ UNCHANGED refused
    /\ UNCHANGED <<tables, known, victims, removed, gone, torn, raced, saved, requests>>

Select(p) ==
    LET e == handler[p].event IN
    /\ At(p, "select")
    /\ IF e \in stored
       THEN Refuse(p)
       ELSE Goto(p, IF Place[e] = Nowhere THEN "insert" ELSE "find") /\ UNCHANGED refused
    /\ UNCHANGED <<tables, known, victims, removed, gone, torn, raced, saved, requests>>

\* Another save at the same place is between its own SELECT and its INSERT.
IsRace(p) == \E q \in Procs \ {p} :
    /\ At(q, "replace") \/ At(q, "insert")
    /\ SamePlace(handler[q].event, handler[p].event)

\* SELECT ... LIMIT 1: with several versions stored, any of them.
Find(p) ==
    LET e == handler[p].event IN
    /\ At(p, "find")
    /\ \/ Versions(e) = {} /\ Goto(p, "insert") /\ UNCHANGED refused
       \/ \E v \in Versions(e) :
            IF Stamp[e] <= Stamp[v]
            THEN Refuse(p)
            ELSE GotoWith(p, "replace", {v}) /\ UNCHANGED refused
    /\ raced' = IF IsRace(p) THEN raced \cup {Place[e]} ELSE raced
    /\ UNCHANGED <<tables, known, victims, removed, gone, torn, saved, requests>>

\* Mutant: the older version is left where it is.
ReplaceNothing(p) ==
    /\ At(p, "replace")
    /\ Goto(p, "insert")
    /\ UNCHANGED <<tables, known, victims, histories, requests>>

\* The batch that deletes the older version.
Replace(p) ==
    /\ At(p, "replace")
    /\ Remove(handler[p].todo, {})
    /\ Goto(p, "insert")
    /\ UNCHANGED <<known, victims, raced, refused, saved, requests>>

\* Mutant: a conflict is not told from an insert.
InsertAgain(p) ==
    LET e == handler[p].event IN
    /\ At(p, "insert")
    /\ stored' = stored \cup {e}
    /\ gone' = gone \ {e}
    /\ Goto(p, "tags")
    /\ UNCHANGED <<tagged, indexed, known, victims, removed, torn, raced, refused, saved, requests>>

\* ON CONFLICT(id) DO NOTHING, and meta.changes tells.
Insert(p) ==
    LET e == handler[p].event IN
    /\ At(p, "insert")
    /\ IF e \in stored
       THEN Refuse(p) /\ UNCHANGED <<stored, gone, requests>>
       ELSE stored' = stored \cup {e} /\ gone' = gone \ {e} /\ Goto(p, "tags") /\ UNCHANGED refused
    /\ UNCHANGED <<tagged, indexed, known, victims, removed, torn, raced, saved, requests>>

\* Mutant: the loop over the batches ends after the first.
TagsOneBatch(p) ==
    LET e == handler[p].event IN
    /\ At(p, "tags") /\ e \in stored
    /\ tagged' = tagged \cup {e}
    /\ indexed' = IF e \in Large THEN indexed ELSE indexed \cup {e}
    /\ Goto(p, "put")
    /\ UNCHANGED <<stored, known, victims, histories, requests>>

\* The first batch: the rows of tags, and those of the index if they fit.
Tags(p) ==
    LET e == handler[p].event IN
    /\ At(p, "tags") /\ e \in stored
    /\ tagged' = tagged \cup {e}
    /\ indexed' = IF e \in Large THEN indexed ELSE indexed \cup {e}
    /\ Goto(p, IF e \in Large THEN "index" ELSE "put")
    /\ UNCHANGED <<stored, known, victims, histories, requests>>

\* The event was removed meanwhile: the foreign key of tags fails the batch.
TagsRejected(p) ==
    /\ At(p, "tags") /\ handler[p].event \notin stored
    /\ Return(p)
    /\ UNCHANGED <<tables, known, victims, histories, requests>>

\* The last batch: rows of event_tags_cache_multi, which has no foreign key.
Index(p) ==
    /\ At(p, "index")
    /\ indexed' = indexed \cup {handler[p].event}
    /\ Goto(p, "put")
    /\ UNCHANGED <<stored, tagged, known, victims, histories, requests>>

\* The id is cached and the event answered; the Durable Object broadcasts it.
Put(p) ==
    LET e == handler[p].event IN
    /\ At(p, "put")
    /\ known' = known \cup {e}
    /\ saved' = [saved EXCEPT ![e] = IF @ = 2 THEN 2 ELSE @ + 1]
    /\ Return(p)
    /\ UNCHANGED <<tables, victims, removed, gone, torn, raced, refused, requests>>

(* A statement fails, which is answered with an error, or the Durable      *)
(* Object is gone.                                                         *)
Fail(p) ==
    LET e == handler[p].event IN
    /\ MayFail /\ ~At(p, "idle")
    /\ torn' = IF At(p, "tags") \/ At(p, "index") THEN torn \cup ({e} \cap stored) ELSE torn
    /\ gone' = IF At(p, "insert") /\ handler[p].todo # {} THEN gone \cup ({e} \ stored) ELSE gone
    /\ Return(p)
    /\ UNCHANGED <<tables, known, victims, removed, raced, refused, saved, requests>>

-----------------------------------------------------------------------------
(* pruneOldEvents, when the database is over its threshold. *)

\* The oldest events that are not protected.
PruneSelect ==
    LET open == stored \ Protected IN
    /\ victims = {}
    /\ \E part \in SUBSET open :
         /\ IsChunk(part, open)
         /\ \A e \in part, f \in open \ part : Stamp[e] <= Stamp[f]
         /\ victims' = part
    /\ UNCHANGED <<tables, known, handler, histories, requests>>

\* The index and the events; the rows of tags go with the events.
PruneErase ==
    /\ victims # {}
    /\ Remove(victims, Events \ Protected)
    /\ victims' = {}
    /\ UNCHANGED <<known, handler, raced, refused, saved, requests>>

PruneFail ==
    /\ MayFail /\ victims # {}
    /\ victims' = {}
    /\ UNCHANGED <<tables, known, handler, histories, requests>>

Next ==
    \/ \E p \in Procs :
         \/ \E e \in Events : Send(p, e)
         \/ Owners(p) \/ Erase(p) \/ SkipErase(p)
         \/ Match(p) \/ Select(p) \/ Find(p) \/ Replace(p) \/ Insert(p)
         \/ Tags(p) \/ TagsRejected(p) \/ Index(p) \/ Put(p) \/ Fail(p)
    \/ PruneSelect \/ PruneErase \/ PruneFail

Spec == Init /\ [][Next]_vars

-----------------------------------------------------------------------------
(* The shapes of the tables and handlers; the rows of tags have their event *)
(* (the foreign key of migrations/0001_base.sql).                           *)
TypeOK ==
    /\ stored \subseteq Events /\ tagged \subseteq stored /\ indexed \subseteq Events
    /\ known \subseteq Events /\ victims \subseteq Events
    /\ handler \in [Procs -> Handlers]
    /\ removed \subseteq Events /\ gone \subseteq Events /\ torn \subseteq Events
    /\ refused \subseteq Events
    /\ raced \subseteq {Place[e] : e \in Events}
    /\ saved \in [Events -> 0..2] /\ requests \in 0..MaxRequests

(* Whose place is taken by n, for good or until n was lost in turn. *)
Heir(n, e) ==
    /\ SamePlace(n, e) /\ Stamp[n] > Stamp[e]
    /\ \/ n \in stored \cup gone
       \/ \E p \in Procs : At(p, "insert") /\ handler[p].event = n /\ handler[p].todo # {}

(* An event that was answered "saved" stays: it is only removed at the     *)
(* request of its author, by the pruner if its kind may be pruned, or for  *)
(* a newer version, which is there, about to be, or removed in turn.       *)
SavedIsKept ==
    \A e \in Events : saved[e] > 0 => e \in stored \cup gone \/ \E n \in Events : Heir(n, e)

(* "Duplicate" is never said of an event that was never stored, unless a   *)
(* version at least as new was: else a client would drop an event that the *)
(* relay does not have.                                                    *)
RefusedWasStored ==
    \A e \in refused : \E n \in stored \cup removed :
        n = e \/ (SamePlace(n, e) /\ Stamp[n] >= Stamp[e])

(* However often and from wherever an event is sent, it is accepted, and   *)
(* so broadcast, once, as long as it is not removed.                       *)
SavedOnce == \A e \in Events \ removed : saved[e] <= 1

(* The rows of tags and index go with the events: a stored event has all   *)
(* of them, and so is found by every filter, unless its save goes on or    *)
(* was cut off, and none is left in the index of an event that was removed *)
(* by whichever way, unless its rows needed several batches.               *)
RowsAgree ==
    /\ \A e \in stored \ torn :
         \/ e \in tagged \cap indexed
         \/ \E p \in Procs : (At(p, "tags") \/ At(p, "index")) /\ handler[p].event = e
    /\ indexed \ stored \subseteq Large

(* One version per place, unless two were saved at once or have no d tag:  *)
(* "Only the latest event ... should be stored".                           *)
LatestOnly ==
    \A e, f \in stored \ Undefined : SamePlace(e, f) /\ e # f => Place[e] \in raced
=============================================================================
