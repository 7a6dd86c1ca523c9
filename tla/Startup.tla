------------------------------ MODULE Startup ------------------------------
(***************************************************************************)
(* How the relay makes or migrates its tables (relay-worker.ts:            *)
(* initializeDatabase), which every visit of the landing page starts, while*)
(* other visits do the same and events are saved.                          *)
(*                                                                         *)
(* One statement is one action, but for the ALTERs of one version.  A tag  *)
(* name stands for the columns of events that are filled from tags of that *)
(* name; an event has one tag of a name at most.  How an event is saved is *)
(* in EventStore: here its row and its tag rows, batch by batch.  Indexes, *)
(* ANALYZE and the tables that nothing here uses are left out.             *)
(***************************************************************************)
EXTENDS Integers, FiniteSets

CONSTANTS
    Visits,     \* visits whose initialization can be at work at once
    OldEvents,  \* events an older release has stored
    NewEvents,  \* events that are saved meanwhile
    EarlyNames, \* tag names whose columns came with version 5
    LateNames,  \* tag names whose columns came with version 6
    TagsOf,     \* event -> the names of its tags
    Wordy,      \* events with content
    RowsAtOnce  \* statements in a batch (100)

SavedEvents == OldEvents \cup NewEvents
Names == EarlyNames \cup LateNames

ASSUME StartupData ==
    /\ OldEvents \cap NewEvents = {} /\ EarlyNames \cap LateNames = {}
    /\ TagsOf \in [SavedEvents -> SUBSET Names] /\ Wordy \subseteq SavedEvents
    /\ IsFiniteSet(Names) /\ RowsAtOnce \in Nat \ {0}

VARIABLES
    tidied,    \* cleanup_v1
    made,      \* the tables there are
    columns,   \* the versions whose columns the table events has
    ready,     \* db_initialized
    version,   \* schema_version, 0 for none
    visit,     \* per visit: its next statement
    present,      \* events with a row
    filled,    \* per event: the names whose columns hold its tag
    tagRows,   \* per event: the names with a row in tags
    cacheRows, \* per event: the names with a row in event_tags_cache_multi
    writing,   \* per event: the rows its save has still to write
    halved,    \* history: events a migration read among their rows
    unfilled   \* history: an initialization was cut off before its last statement

schema == <<tidied, made, columns, ready, version>>
contents == <<present, filled, tagRows, cacheRows, writing>>
startupVars == <<schema, visit, contents, halved, unfilled>>

TableNames == {"events", "tags", "cache"}
NextTable == [t \in TableNames |->
    CASE t = "events" -> "tags" [] t = "tags" -> "cache" [] OTHER -> "flag"]

Does(v, step) == visit[v] = step
Proceed(v, step) == visit' = [visit EXCEPT ![v] = step]
NoTags == [e \in SavedEvents |-> {}]
TagsIn(names) == [e \in SavedEvents |-> IF e \in OldEvents THEN TagsOf[e] \cap names ELSE {}]

(* A new database; one of an older release, before version 5 or 6, that    *)
(* has or has not set db_initialized; one that migrations/ have made.      *)
StartupInit ==
    /\ tidied = FALSE
    /\ visit = [v \in Visits |-> "away"]
    /\ writing = NoTags /\ halved = {} /\ unfilled = FALSE
    /\ \/ /\ made = {} /\ columns = {} /\ ready = FALSE /\ version = 0
          /\ present = {} /\ filled = NoTags /\ tagRows = NoTags /\ cacheRows = NoTags
       \/ /\ made = {"events", "tags"} /\ ready \in BOOLEAN
          /\ version \in {4, 5} /\ columns = {5} \cap {version}
          /\ present = OldEvents /\ tagRows = TagsIn(Names) /\ cacheRows = NoTags
          /\ filled = IF version = 5 THEN TagsIn(EarlyNames) ELSE NoTags
       \/ /\ made = TableNames /\ ready = TRUE /\ version = 12 /\ columns = {5, 6}
          /\ present = OldEvents
          /\ filled = TagsIn(Names) /\ tagRows = TagsIn(Names) /\ cacheRows = TagsIn(Names)

-----------------------------------------------------------------------------
(* initializeDatabase *)

Visit(v) ==
    /\ Does(v, "away")
    /\ \/ tidied /\ Proceed(v, "check")
       \/ Proceed(v, "tidy")
    /\ UNCHANGED <<schema, contents, halved, unfilled>>

\* What older releases left is dropped; none of it is used here.
Tidy(v) ==
    /\ Does(v, "tidy")
    /\ tidied' = TRUE
    /\ Proceed(v, "check")
    /\ UNCHANGED <<made, columns, ready, version, contents, halved, unfilled>>

\* A read that fails is taken for a database that is not initialized; so is,
\* in Visit, one that fails for a database that is not tidied.
Check(v) ==
    /\ Does(v, "check")
    /\ \/ ready /\ Proceed(v, "away")
       \/ Proceed(v, "events")
    /\ UNCHANGED <<schema, contents, halved, unfilled>>

\* CREATE TABLE IF NOT EXISTS
Create(v) ==
    /\ visit[v] \in TableNames
    /\ made' = made \cup {visit[v]}
    /\ columns' = IF Does(v, "events") /\ "events" \notin made THEN {5, 6} ELSE columns
    /\ Proceed(v, NextTable[visit[v]])
    /\ UNCHANGED <<tidied, ready, version, contents, halved, unfilled>>

Flag(v) ==
    /\ Does(v, "flag")
    /\ ready' = TRUE
    /\ Proceed(v, "version")
    /\ UNCHANGED <<tidied, made, columns, version, contents, halved, unfilled>>

\* currentVersion
After(current) == IF current < 5 THEN "add 5" ELSE IF current < 6 THEN "add 6" ELSE "stamp"

\* Mutant: the new version is written when the old one has been read.
ReadVersionAndStamp(v) ==
    /\ Does(v, "version")
    /\ Proceed(v, After(version))
    /\ version' = 6
    /\ UNCHANGED <<tidied, made, columns, ready, contents, halved, unfilled>>

ReadVersion(v) ==
    /\ Does(v, "version")
    /\ Proceed(v, After(version))
    /\ UNCHANGED <<schema, contents, halved, unfilled>>

\* ALTER TABLE; a column that exists is no error.
AddColumns(v) ==
    /\ visit[v] \in {"add 5", "add 6"}
    /\ columns' = columns \cup IF Does(v, "add 5") THEN {5} ELSE {6}
    /\ Proceed(v, IF Does(v, "add 5") THEN "fill 5" ELSE "fill 6")
    /\ UNCHANGED <<tidied, made, ready, version, contents, halved, unfilled>>

\* The columns of `names` are set from the tag rows there are, or to NULL.
FillFrom(touched, names) ==
    /\ filled' = [e \in SavedEvents |->
         IF e \in touched THEN (filled[e] \ names) \cup (tagRows[e] \cap names) ELSE filled[e]]
    /\ halved' = halved \cup {e \in present : tagRows[e] # TagsOf[e]}
    /\ UNCHANGED <<schema, present, tagRows, cacheRows, writing, unfilled>>

FillEarly(v) ==
    /\ Does(v, "fill 5")
    /\ Proceed(v, "add 6")
    /\ FillFrom({e \in present : tagRows[e] \cap EarlyNames # {}}, EarlyNames)

FillLate(v) ==
    /\ Does(v, "fill 6")
    /\ Proceed(v, "stamp")
    /\ FillFrom({e \in present : e \in Wordy \/ tagRows[e] \cap LateNames # {}}, LateNames)

\* Whatever the version was.
Stamp6(v) ==
    /\ Does(v, "stamp")
    /\ version' = 6
    /\ Proceed(v, "fill cache")
    /\ UNCHANGED <<tidied, made, columns, ready, contents, halved, unfilled>>

\* INSERT OR IGNORE ... SELECT ... JOIN tags
FillCache(v) ==
    /\ Does(v, "fill cache")
    /\ cacheRows' = [e \in SavedEvents |-> IF e \in present THEN cacheRows[e] \cup tagRows[e] ELSE cacheRows[e]]
    /\ Proceed(v, "away")
    /\ UNCHANGED <<schema, present, filled, tagRows, writing, halved, unfilled>>

\* A statement fails, or the worker is gone: nothing is tried again.
VisitEnds(v) ==
    /\ ~Does(v, "away")
    /\ Proceed(v, "away")
    /\ unfilled' = (unfilled \/ Does(v, "fill cache"))
    /\ UNCHANGED <<schema, contents, halved>>

-----------------------------------------------------------------------------
(* saveEventToDatabase: a save whose INSERT fails does nothing *)

InsertRow(e) ==
    /\ e \in NewEvents \ present /\ "events" \in made /\ columns = {5, 6}
    /\ present' = present \cup {e}
    /\ filled' = [filled EXCEPT ![e] = TagsOf[e]]
    /\ writing' = [writing EXCEPT ![e] = {"tags", "cache"} \X TagsOf[e]]
    /\ UNCHANGED <<schema, visit, tagRows, cacheRows, halved, unfilled>>

\* One batch, in which the rows of tags come first.
InsertTagRows(e) ==
    /\ writing[e] # {}
    /\ \E batch \in SUBSET writing[e] :
         LET tags  == {n \in Names : <<"tags", n>> \in batch}
             cache == {n \in Names : <<"cache", n>> \in batch}
         IN  /\ batch = writing[e] \/ Cardinality(batch) = RowsAtOnce
             /\ Cardinality(batch) <= RowsAtOnce
             /\ cache # {} => ({"tags"} \X Names) \cap writing[e] \subseteq batch
             /\ {t \in {"tags", "cache"} : \E n \in Names : <<t, n>> \in batch} \subseteq made
             /\ tagRows' = [tagRows EXCEPT ![e] = @ \cup tags]
             /\ cacheRows' = [cacheRows EXCEPT ![e] = @ \cup cache]
             /\ writing' = [writing EXCEPT ![e] = @ \ batch]
    /\ UNCHANGED <<schema, visit, present, filled, halved, unfilled>>

\* A batch fails, for one because its table does not exist.
SaveEnds(e) ==
    /\ writing[e] # {}
    /\ writing' = [writing EXCEPT ![e] = {}]
    /\ UNCHANGED <<schema, visit, present, filled, tagRows, cacheRows, halved, unfilled>>

StartupNext ==
    \/ \E v \in Visits :
         \/ Visit(v) \/ Tidy(v) \/ Check(v) \/ Create(v) \/ Flag(v) \/ ReadVersion(v)
         \/ AddColumns(v) \/ FillEarly(v) \/ FillLate(v) \/ Stamp6(v) \/ FillCache(v) \/ VisitEnds(v)
    \/ \E e \in SavedEvents : InsertRow(e) \/ InsertTagRows(e) \/ SaveEnds(e)

StartupSpec == StartupInit /\ [][StartupNext]_startupVars

-----------------------------------------------------------------------------
\* What follows when the version has been read.
Filling == {"add 5", "fill 5", "add 6", "fill 6", "stamp", "fill cache"}
VisitSteps == {"away", "tidy", "check", "flag", "version"} \cup TableNames \cup Filling
Statements == {"tags", "cache"} \X Names

StartupTypeOK ==
    /\ made \subseteq TableNames /\ columns \subseteq {5, 6} /\ version \in {0, 4, 5, 6, 12}
    /\ tidied \in BOOLEAN /\ ready \in BOOLEAN /\ unfilled \in BOOLEAN
    /\ visit \in [Visits -> VisitSteps]
    /\ present \subseteq SavedEvents /\ halved \subseteq SavedEvents
    /\ filled \in [SavedEvents -> SUBSET Names]
    /\ tagRows \in [SavedEvents -> SUBSET Names]
    /\ cacheRows \in [SavedEvents -> SUBSET Names]
    /\ writing \in [SavedEvents -> SUBSET Statements]

(* relay-worker.ts:293: a database is of version 6 when all columns are    *)
(* there and filled, whoever else has migrated it or saved events in the   *)
(* meantime; but for events whose tag rows were not all written when one   *)
(* of the migrations read them.  What an older release stored is then in   *)
(* the cache of tags, unless the visit was cut off just before.            *)
SixIsComplete ==
    version = 6 =>
        /\ columns = {5, 6} /\ made = TableNames
        /\ \A e \in present \ halved : filled[e] = TagsOf[e]
        /\ (~unfilled /\ \A v \in Visits : ~Does(v, "fill cache")) =>
               \A e \in OldEvents \cap present : cacheRows[e] = TagsOf[e]
=============================================================================
