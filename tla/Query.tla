------------------------------- MODULE Query -------------------------------
(***************************************************************************)
(* How the stored events that match the filters of a REQ are found:        *)
(* handleReq, queryEvents, queryDatabaseChunked, buildQuery and            *)
(* buildCountQuery, while events are saved and removed between their       *)
(* statements, and a client that pages through an answer with a cursor.    *)
(*                                                                         *)
(* A filter has one array per dimension: "ids", "authors", "kinds" and the *)
(* names of tags; an event has the set of its values in each.  An array    *)
(* that is empty is not given, and neither is a bound of 0.                *)
(***************************************************************************)
EXTENDS Integers, FiniteSets, Sequences

CONSTANTS
    Events,         \* the events there may be
    Requests,       \* the sequences of filters clients send
    TagNames,       \* the tags that filters name
    DirectTags,     \* those with rows in event_tags_cache_multi
    Weight,         \* what a value of each dimension adds to the complexity
    MaxIds,         \* most ids in a filter, 5000
    MaxLimit,       \* most rows of a statement, 500
    ChunkSize,      \* CHUNK_SIZE, 500
    MaxComplexity,  \* MAX_QUERY_COMPLEXITY, 1000
    GlobalMax,      \* GLOBAL_MAX_EVENTS, 500
    MaxRows         \* most rows a filter with tags may be estimated at, 10000

Columns == {"ids", "authors", "kinds"}
Dims == Columns \cup TagNames

Event == [id : Nat, at : Nat \ {0}, has : [Dims -> SUBSET Nat]]
\* A cursor names an event by its second and id; at = 0 is no cursor.
Filter == [arrays : [Dims -> SUBSET Nat], since : Nat, until : Nat, limit : Nat,
           cursor : [at : Nat, id : Nat]]

ASSUME QueryData ==
    /\ IsFiniteSet(Events) /\ Events \subseteq Event
    /\ \A e, d \in Events : e.id = d.id => e = d
    /\ \A e \in Events : e.has["ids"] = {e.id} /\ \A d \in Dims : IsFiniteSet(e.has[d])
    /\ Requests \subseteq Seq(Filter)
    /\ \A fs \in Requests : \A i \in DOMAIN fs :
        fs[i].cursor.at = 0 /\ \A d \in Dims : IsFiniteSet(fs[i].arrays[d])
    /\ IsFiniteSet(TagNames) /\ TagNames \cap Columns = {} /\ DirectTags \subseteq TagNames
ASSUME QueryLimits ==
    /\ Weight \in [Columns \cup {"tags"} -> Nat]
    /\ {MaxIds, MaxLimit, ChunkSize, MaxComplexity, GlobalMax} \subseteq Nat \ {0} /\ MaxRows \in Nat
\* A filter with an array other than ids of more than CHUNK_SIZE values is too complex.
ASSUME QueryWeights == \A d \in {"authors", "kinds", "tags"} : Weight[d] * (ChunkSize + 1) > MaxComplexity

VARIABLES
    stored,     \* the events in the database, with all their rows
    filters,    \* the filters of the REQ at hand
    phase,      \* "idle", "asked" while it is handled, "answered" after EOSE
    query,      \* the local state of queryEvents
    got,        \* the events the client has since it sent the request, over all pages
    kept,       \* history: the events stored all along since the REQ
    stayed,     \* history: the same since the first page
    seen,       \* history: the events stored at any time since the first page
    gaps        \* history: filters skipped for their rows or with a failed statement
history == <<kept, stayed, seen, gaps>>
vars == <<stored, filters, phase, query, got, history>>

Smaller(a, b) == IF a <= b THEN a ELSE b
Nothing == [d \in Dims |-> {}]

-----------------------------------------------------------------------------
(* What a filter means, and what it costs.                                 *)

Meets(e, f, D) == \A d \in D : f.arrays[d] = {} \/ f.arrays[d] \cap e.has[d] # {}
\* matchesFilter: what is broadcast to a subscription with the filter.
MatchesFilter(e, f) ==
    /\ Meets(e, f, Dims)
    /\ f.since = 0 \/ e.at >= f.since
    /\ f.until = 0 \/ e.at <= f.until

TagValues(f) == UNION {{n} \X f.arrays[n] : n \in TagNames}
\* calculateQueryComplexity; limits over 1000 are capped before.
QueryComplexity(f) ==
    LET sum == Weight["ids"] * Cardinality(f.arrays["ids"])
             + Weight["authors"] * Cardinality(f.arrays["authors"])
             + Weight["kinds"] * Cardinality(f.arrays["kinds"])
             + Weight["tags"] * Cardinality(TagValues(f))
    IN  IF f.since = 0 /\ f.until = 0 THEN 2 * sum ELSE sum


Simple(f) == QueryComplexity(f) <= MaxComplexity
\* The arrays that are asked for in chunks, and what the other statements keep of the filter.
Large(f) == {d \in Dims : Cardinality(f.arrays[d]) > ChunkSize}
BaseFilter(f) == [f EXCEPT !.arrays = [d \in Dims |-> IF d \in Large(f) THEN {} ELSE f.arrays[d]]]

-----------------------------------------------------------------------------
(* The statements of buildQuery and buildCountQuery.                       *)

TagFilters(f) == {n \in TagNames : f.arrays[n] # {}}
\* Mutant: since is exclusive.
InWindowOpen(e, f) == (f.since = 0 \/ e.at > f.since) /\ (f.until = 0 \/ e.at <= f.until)
InWindow(e, f) == (f.since = 0 \/ e.at >= f.since) /\ (f.until = 0 \/ e.at <= f.until)
\* Mutant: the disjunction in the wrong place.
AfterCursorById(e, f) == f.cursor.at = 0 \/ (e.at <= f.cursor.at /\ e.id > f.cursor.id)
AfterCursor(e, f) ==
    f.cursor.at = 0 \/ e.at < f.cursor.at \/ (e.at = f.cursor.at /\ e.id > f.cursor.id)
Where(e, f) == Meets(e, f, Columns) /\ InWindow(e, f) /\ AfterCursor(e, f)

\* "(t1) OR (t2) AND ..." binds the conditions to the last tag alone; the
\* event is kept when it has rows of every name.
HasEveryTag(e, f, cond) ==
    \E last \in TagFilters(f) \ DirectTags :
        {n \in TagFilters(f) : f.arrays[n] \cap e.has[n] # {} /\ (n = last => cond)} = TagFilters(f)

\* The rows of the statement over the events S.  A filter by one tag without
\* rows in event_tags_cache_multi returns an event once per matching tag.
Rows(f, S) ==
    IF TagFilters(f) \subseteq DirectTags
    THEN {e \in S : Meets(e, f, TagNames) /\ Where(e, f)} \X {0}
    ELSE IF \E n \in TagNames : TagFilters(f) = {n}
    THEN {r \in {e \in S : Where(e, f)} \X UNION {f.arrays[n] : n \in TagNames} :
            \E n \in TagFilters(f) : r[2] \in r[1].has[n]}
    ELSE {e \in S : HasEveryTag(e, f, Where(e, f))} \X {0}
EventsOf(R) == {r[1] : r \in R}

\* ORDER BY created_at DESC LIMIT k: events of one second come in any order.
Newest(R, k) ==
    {T \in SUBSET R : /\ Cardinality(T) = Smaller(k, Cardinality(R))
                      /\ \A r \in T, q \in R \ T : r[1].at >= q[1].at}

\* COUNT, asked for filters with tags: it leaves out the cursor and the ids.
Estimate(f, S) ==
    LET conditions(e) == Meets(e, f, Columns \ {"ids"}) /\ InWindow(e, f)
    IN  Cardinality({e \in S :
            IF TagFilters(f) \subseteq DirectTags \/ \E n \in TagNames : TagFilters(f) = {n}
            THEN Meets(e, f, TagNames) /\ conditions(e)
            ELSE HasEveryTag(e, f, conditions(e))})

-----------------------------------------------------------------------------
(* The relay.                                                              *)

Idle == [todo |-> {}, asked |-> Nothing, rows |-> {}, batch |-> {}, valid |-> {}, found |-> {}, read |-> 0]
Init ==
    /\ stored \in SUBSET Events
    /\ filters = <<>> /\ phase = "idle" /\ query = Idle /\ got = {}
    /\ kept = {} /\ stayed = {} /\ seen = {} /\ gaps = {}

\* handleReq sets the limit; queryEvents skips what is too complex and sets
\* apart the filters that need chunks.
Accepted(fs) == \A i \in DOMAIN fs : Cardinality(fs[i].arrays["ids"]) <= MaxIds
Capped(fs) ==
    [i \in DOMAIN fs |->
        [fs[i] EXCEPT !.limit = IF fs[i].limit = 0 THEN MaxLimit ELSE Smaller(fs[i].limit, MaxLimit)]]
Ask(fs) ==
    LET simple == {i \in DOMAIN fs : Simple(fs[i])}
        large == {i \in simple : Large(fs[i]) # {}}
    IN  /\ filters' = fs
        /\ query' = [Idle EXCEPT !.todo = large, !.batch = simple \ large]
        /\ phase' = "asked"
        /\ kept' = stored

\* A REQ with new filters; one with too many ids is closed and changes nothing.
Req ==
    /\ phase # "asked"
    /\ \E fs \in Requests : Accepted(fs) /\ Ask(Capped(fs))
    /\ got' = {} /\ stayed' = stored /\ seen' = stored /\ gaps' = {}
    /\ UNCHANGED stored

\* What a client does with an answer to one filter: it asks for what comes
\* after the last event of it.  Answers are sorted, newest first and then by id.
IsLast(e, S) == e \in S /\ \A d \in S : e.at < d.at \/ (e.at = d.at /\ e.id >= d.id)
NextPage ==
    /\ phase = "answered" /\ Len(filters) = 1
    /\ \E last \in query.found :
        /\ IsLast(last, query.found)
        /\ Ask([filters EXCEPT ![1].cursor = [at |-> last.at, id |-> last.id]])
    /\ UNCHANGED <<stored, got, stayed, seen, gaps>>

\* The order of the two loops of queryEvents: filters in chunks, then COUNT for
\* each of the others, then these in one batch; a full answer ends them.
First(i, I) == i \in I /\ \A j \in I : i <= j
Full == query.read >= GlobalMax
InChunks == query.todo # {} /\ ~Full
InCounts == ~InChunks /\ ~Full /\ query.batch # {}
InBatch == ~InChunks /\ ~Full /\ query.batch = {} /\ query.valid # {}
Waiting == phase = "asked"

\* The values of a large array not asked for yet.
Unasked(f, d) == IF d \in Large(f) THEN f.arrays[d] \ query.asked[d] ELSE {}
\* After a chunk of d: the next one of the filter, or the next filter.
NextChunk(i, d, chunk) ==
    LET f == filters[i]
        more == chunk # Unasked(f, d) \/ \E c \in Dims \ {d} : Unasked(f, c) # {}
    IN  IF more THEN [query EXCEPT !.asked[d] = @ \cup chunk]
                ELSE [query EXCEPT !.todo = @ \ {i}, !.asked = Nothing, !.rows = {}]

\* One statement of queryDatabaseChunked.  allRows holds an event once, and
\* queryEvents takes of it what it has room for (chunks after that change nothing
\* and are left out).
Chunk ==
    /\ Waiting /\ InChunks
    /\ \E i \in query.todo, d \in Dims :
        LET f == filters[i]
            unasked == Unasked(f, d)
        IN  /\ First(i, query.todo) /\ unasked # {}
            /\ \E chunk \in SUBSET unasked :
                /\ Cardinality(chunk) = Smaller(ChunkSize, Cardinality(unasked))
                /\ \E R \in Newest(Rows([BaseFilter(f) EXCEPT !.arrays[d] = chunk], stored), f.limit) :
                   \E T \in Newest((EventsOf(R) \ query.rows) \X {0}, GlobalMax - query.read) :
                    LET next == NextChunk(i, d, chunk)
                    IN  query' = [next EXCEPT !.found = @ \cup EventsOf(T),
                                              !.read = @ + Cardinality(T),
                                              !.rows = IF i \in next.todo THEN @ \cup EventsOf(T) ELSE {}]
    /\ UNCHANGED <<stored, filters, phase, got, history>>

\* Its error is caught: the chunk is left out.
ChunkFails ==
    /\ Waiting /\ InChunks
    /\ \E i \in query.todo, d \in Dims :
        LET unasked == Unasked(filters[i], d)
        IN  /\ First(i, query.todo) /\ unasked # {}
            /\ \E chunk \in SUBSET unasked :
                /\ Cardinality(chunk) = Smaller(ChunkSize, Cardinality(unasked))
                /\ query' = NextChunk(i, d, chunk)
            /\ gaps' = gaps \cup {i}
    /\ UNCHANGED <<stored, filters, phase, got, kept, stayed, seen>>

\* The COUNT before a filter with tags; the others go ahead without.
Precheck ==
    /\ Waiting /\ InCounts
    /\ \E i \in query.batch :
        /\ First(i, query.batch)
        /\ IF TagFilters(filters[i]) = {} \/ Estimate(filters[i], stored) <= MaxRows
           THEN query' = [query EXCEPT !.batch = @ \ {i}, !.valid = @ \cup {i}] /\ UNCHANGED gaps
           ELSE query' = [query EXCEPT !.batch = @ \ {i}] /\ gaps' = gaps \cup {i}
    /\ UNCHANGED <<stored, filters, phase, got, kept, stayed, seen>>

\* The rows of all filters of a batch are read in one transaction and taken
\* in the order of the filters.
Taken(R, i) == UNION {{j} \X R[j] : j \in {k \in DOMAIN R : k < i}}
Batch ==
    /\ Waiting /\ InBatch
    /\ \E R \in [query.valid -> SUBSET UNION {Rows(filters[i], stored) : i \in query.valid}] :
        /\ \A i \in query.valid :
            R[i] \in Newest(Rows(filters[i], stored),
                            Smaller(filters[i].limit, GlobalMax - query.read - Cardinality(Taken(R, i))))
        /\ query' = [query EXCEPT !.valid = {},
                                  !.found = @ \cup UNION {EventsOf(R[i]) : i \in query.valid},
                                  !.read = @ + Cardinality(UNION {{i} \X R[i] : i \in query.valid})]
    /\ UNCHANGED <<stored, filters, phase, got, history>>

\* EVENT for every event found, and EOSE.
Answer ==
    /\ Waiting /\ ~InChunks /\ ~InCounts /\ ~InBatch
    /\ phase' = "answered"
    /\ got' = got \cup query.found
    /\ UNCHANGED <<stored, filters, query, history>>

\* A COUNT or a batch that fails ends queryEvents with no events at all; the
\* client gets EOSE all the same.
QueryFails ==
    /\ Waiting
    /\ InBatch \/ (InCounts /\ \E i \in query.batch : First(i, query.batch) /\ TagFilters(filters[i]) # {})
    /\ phase' = "answered" /\ query' = Idle
    /\ gaps' = DOMAIN filters
    /\ UNCHANGED <<stored, filters, got, kept, stayed, seen>>

\* EventStore, as seen from a query.
Save ==
    /\ \E e \in Events \ stored : stored' = stored \cup {e} /\ seen' = seen \cup {e}
    /\ UNCHANGED <<filters, phase, query, got, kept, stayed, gaps>>
Remove ==
    /\ \E e \in stored :
        /\ stored' = stored \ {e} /\ kept' = kept \ {e} /\ stayed' = stayed \ {e}
    /\ UNCHANGED <<filters, phase, query, got, seen, gaps>>

Next ==
    \/ Req \/ NextPage
    \/ Chunk \/ ChunkFails \/ Precheck \/ Batch \/ Answer \/ QueryFails
    \/ Save \/ Remove
Spec == Init /\ [][Next]_vars

-----------------------------------------------------------------------------
(* Properties.                                                             *)

\* The numbers queryEvents keeps: a filter is in one of the loops at most, the
\* chunks asked for are of its own values, and no more is found than was read.
TypeOK ==
    /\ stored \subseteq Events /\ got \subseteq Events
    /\ phase \in {"idle", "asked", "answered"}
    /\ query.todo \cap query.batch = {} /\ query.todo \cap query.valid = {} /\ query.batch \cap query.valid = {}
    /\ query.todo \cup query.batch \cup query.valid \subseteq DOMAIN filters
    /\ query.asked \in [Dims -> SUBSET Nat]
    /\ query.rows \subseteq query.found /\ query.found \subseteq Events
    /\ Cardinality(query.found) <= query.read /\ query.read <= GlobalMax
    /\ kept \subseteq stored /\ stayed \subseteq kept /\ gaps \subseteq DOMAIN filters

\* Every event found for a REQ is one the same filters would let through when
\* it is broadcast: the SQL of buildQuery, asked in chunks or not, says no more
\* than matchesFilter does.
FoundMatches ==
    \A e \in query.found : \E i \in DOMAIN filters : MatchesFilter(e, filters[i])

\* An event that was stored all along and matches is in the answer, unless the
\* answer is full, its filter too complex, skipped or failed, or the filter's
\* limit went to rows at least as new.
NothingMissed ==
    phase = "answered" =>
        \A e \in kept \ query.found, i \in DOMAIN filters \ gaps :
            MatchesFilter(e, filters[i]) /\ AfterCursor(e, filters[i]) /\ Simple(filters[i]) =>
                \/ Full
                \/ Cardinality({r \in Rows(filters[i], query.found) : r[1].at >= e.at}) >= filters[i].limit

\* A client that pages until an answer is empty has every event that matches
\* and was stored all along, unless another match has the same second; not so
\* for a filter asked in chunks, whose answers are not the newest rows.
PagesComplete ==
    (phase = "answered" /\ Len(filters) = 1 /\ query.found = {} /\ gaps = {}) =>
        \A e \in stayed \ got :
            MatchesFilter(e, filters[1]) /\ Simple(filters[1]) /\ Large(filters[1]) = {} =>
                \E d \in seen \ {e} : d.at = e.at /\ MatchesFilter(d, filters[1])

\* No event comes on two pages.
NothingTwice == [][phase = "asked" /\ phase' = "answered" => query'.found \cap got = {}]_vars
=============================================================================
