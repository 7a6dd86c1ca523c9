---------------------------- MODULE QueryProofs ----------------------------
(***************************************************************************)
(* Theorems about Query: what is found matches, what matches is found or   *)
(* had no room, pages do not repeat, and a client that pages to the end    *)
(* has everything.                                                         *)
(***************************************************************************)
EXTENDS Query, FiniteSetTheorems, WellFoundedInduction, TLAPS

-----------------------------------------------------------------------------
(* Filters: their cost, and the rows of their statements.                  *)

LEMMA ImageFinite ==
    ASSUME NEW S, IsFiniteSet(S), NEW g, g = [x \in S |-> g[x]]
    PROVE  LET T == {g[x] : x \in S} IN IsFiniteSet(T) /\ Cardinality(T) <= Cardinality(S)
<1> DEFINE T == {g[x] : x \in S}
<1>1. g \in [S -> T]
  OBVIOUS
<1>2. g \in Surjection(S, T)
  BY <1>1 DEF Surjection
<1> QED BY <1>2, FS_Surjection

FiniteFilter(f) == f \in Filter /\ \A d \in Dims : IsFiniteSet(f.arrays[d])

LEMMA TimesMonotone ==
    ASSUME NEW a \in Nat, NEW b \in Nat, NEW c \in Nat, b >= c
    PROVE  a * b \in Nat /\ a * b >= a * c
<1>1. PICK k \in Nat : b = c + k
  <2>1. b - c \in Nat /\ b = c + (b - c)
    OBVIOUS
  <2> QED BY <2>1
<1>2. a * b = a * c + a * k /\ a * k \in Nat /\ a * c \in Nat
  BY <1>1
<1> QED BY <1>2

\* A filter has at least as many values of tags as any one of its tag arrays.
LEMMA TagValuesFinite ==
    ASSUME NEW f, FiniteFilter(f)
    PROVE  /\ IsFiniteSet(TagValues(f))
           /\ \A n \in TagNames : Cardinality(TagValues(f)) >= Cardinality(f.arrays[n])
<1> DEFINE A == {{n} \X f.arrays[n] : n \in TagNames}
<1>1. IsFiniteSet(A)
  <2> DEFINE g == [n \in TagNames |-> {n} \X f.arrays[n]]
  <2>1. IsFiniteSet({g[n] : n \in TagNames})
    <3> HIDE DEF g
    <3>1. g = [n \in TagNames |-> g[n]]
      BY DEF g
    <3> QED BY <3>1, ImageFinite, QueryData DEF QueryData
  <2>2. {g[n] : n \in TagNames} = A
    OBVIOUS
  <2> QED BY <2>1, <2>2
<1>2. \A T \in A : IsFiniteSet(T)
  <2> SUFFICES ASSUME NEW n \in TagNames PROVE IsFiniteSet({n} \X f.arrays[n])
    OBVIOUS
  <2>1. IsFiniteSet({n}) /\ IsFiniteSet(f.arrays[n])
    BY FS_Singleton DEF FiniteFilter, Dims
  <2> QED BY <2>1, FS_Product
<1>4. IsFiniteSet(TagValues(f))
  BY <1>1, <1>2, FS_UNION DEF TagValues
<1>5. ASSUME NEW n \in TagNames
      PROVE  Cardinality(TagValues(f)) >= Cardinality(f.arrays[n])
  <2> DEFINE P == {n} \X f.arrays[n]
  <2>1. P \subseteq TagValues(f)
    BY DEF TagValues
  <2>2. IsFiniteSet(f.arrays[n])
    BY DEF FiniteFilter, Dims
  <2>3. Cardinality(P) = Cardinality({n}) * Cardinality(f.arrays[n]) /\ Cardinality({n}) = 1
    BY <2>2, FS_Product, FS_Singleton
  <2>4. Cardinality(f.arrays[n]) \in Nat /\ Cardinality(P) = Cardinality(f.arrays[n])
    BY <2>2, <2>3, FS_CardinalityType
  <2>5. Cardinality(P) <= Cardinality(TagValues(f))
    BY <1>4, <2>1, FS_Subset
  <2>6. Cardinality(TagValues(f)) \in Nat
    BY <1>4, FS_CardinalityType
  <2> QED BY <2>4, <2>5, <2>6
<1> QED BY <1>4, <1>5

\* The filter a chunk is asked with differs from the filter in its ids alone:
\* an array of anything else is too complex before it is too large.
LEMMA OnlyIdsAreLarge ==
    ASSUME NEW f, FiniteFilter(f), Simple(f)
    PROVE  Large(f) \subseteq {"ids"}
<1> DEFINE C(d) == Cardinality(f.arrays[d])
           T == Cardinality(TagValues(f))
           sum == Weight["ids"] * C("ids") + Weight["authors"] * C("authors")
                  + Weight["kinds"] * C("kinds") + Weight["tags"] * T
<1>1. /\ \A d \in Dims : C(d) \in Nat
      /\ T \in Nat
  BY TagValuesFinite, FS_CardinalityType DEF FiniteFilter
<1>2. /\ Weight["ids"] \in Nat /\ Weight["authors"] \in Nat /\ Weight["kinds"] \in Nat /\ Weight["tags"] \in Nat
      /\ ChunkSize \in Nat /\ MaxComplexity \in Nat
  BY QueryLimits DEF QueryLimits, Columns
<1>3. /\ Weight["ids"] * C("ids") \in Nat /\ Weight["authors"] * C("authors") \in Nat
      /\ Weight["kinds"] * C("kinds") \in Nat /\ Weight["tags"] * T \in Nat
  <2>1. C("ids") \in Nat /\ C("authors") \in Nat /\ C("kinds") \in Nat
    BY <1>1 DEF Dims, Columns
  <2> HIDE DEF C, T
  <2> QED BY <1>1, <1>2, <2>1
<1>4. sum <= MaxComplexity
  <2>1. QueryComplexity(f) = IF f.since = 0 /\ f.until = 0 THEN 2 * sum ELSE sum
    BY DEF QueryComplexity
  <2>2. QueryComplexity(f) <= MaxComplexity
    BY DEF Simple
  <2>3. sum \in Nat
    <3> HIDE DEF C, T
    <3> QED BY <1>3
  <2> HIDE DEF sum
  <2> QED BY <1>2, <2>1, <2>2, <2>3
<1>5. \A d \in {"authors", "kinds", "tags"} : Weight[d] * (ChunkSize + 1) > MaxComplexity
  BY QueryWeights DEF QueryWeights
<1>6. ASSUME NEW w \in {"authors", "kinds", "tags"}, NEW c \in Nat, c > ChunkSize
      PROVE  Weight[w] * c > MaxComplexity
  <2>1. Weight[w] \in Nat
    BY <1>2
  <2>2. Weight[w] * c >= Weight[w] * (ChunkSize + 1) /\ Weight[w] * c \in Nat
    <3>1. c >= ChunkSize + 1 /\ ChunkSize + 1 \in Nat
      BY <1>2, <1>6
    <3> QED BY <2>1, <3>1, TimesMonotone
  <2>3. Weight[w] * (ChunkSize + 1) > MaxComplexity
    BY <1>5
  <2>4. Weight[w] * (ChunkSize + 1) \in Nat
    BY <1>2, <2>1
  <2> QED BY <1>2, <2>2, <2>3, <2>4
<1>7. ASSUME NEW d \in Large(f), d # "ids" PROVE FALSE
  <2>1. d \in Dims /\ C(d) > ChunkSize
    BY DEF Large
  <2>2. C(d) \in Nat
    BY <1>1, <2>1
  <2>3. CASE d = "authors"
    <3>1. Weight["authors"] * C("authors") > MaxComplexity
      BY <1>6, <2>1, <2>2, <2>3
    <3> HIDE DEF C, T
    <3> QED BY <1>2, <1>3, <1>4, <3>1
  <2>4. CASE d = "kinds"
    <3>1. Weight["kinds"] * C("kinds") > MaxComplexity
      BY <1>6, <2>1, <2>2, <2>4
    <3> HIDE DEF C, T
    <3> QED BY <1>2, <1>3, <1>4, <3>1
  <2>5. CASE d \in TagNames
    <3>1. T >= C(d)
      BY <2>5, TagValuesFinite
    <3>2. T > ChunkSize
      <4> HIDE DEF C, T
      <4> QED BY <1>1, <1>2, <2>1, <2>2, <3>1
    <3>3. Weight["tags"] * T > MaxComplexity
      BY <1>1, <1>6, <3>2
    <3> HIDE DEF C, T
    <3> QED BY <1>2, <1>3, <1>4, <3>3
  <2> QED BY <1>7, <2>1, <2>3, <2>4, <2>5 DEF Dims, Columns
<1> QED BY <1>7

\* Every row is of an event that meets all conditions of the filter.
LEMMA RowsSound ==
    ASSUME NEW f, NEW S, NEW r \in Rows(f, S)
    PROVE  r[1] \in S /\ Meets(r[1], f, Dims) /\ Where(r[1], f)
<1>1. CASE TagFilters(f) \subseteq DirectTags
  BY <1>1 DEF Rows, Meets, Where, Dims
<1>2. CASE ~(TagFilters(f) \subseteq DirectTags) /\ \E n \in TagNames : TagFilters(f) = {n}
  <2>1. PICK n \in TagNames : TagFilters(f) = {n}
    BY <1>2
  <2>2. r \in {e \in S : Where(e, f)} \X UNION {f.arrays[m] : m \in TagNames} /\ r[2] \in r[1].has[n]
    BY <1>2, <2>1 DEF Rows
  <2>3. r[1] \in S /\ Where(r[1], f)
    BY <2>2
  <2>4. PICK m \in TagNames : r[2] \in f.arrays[m]
    BY <2>2
  <2>5. m = n
    BY <2>1, <2>4 DEF TagFilters
  <2>6. Meets(r[1], f, TagNames)
    BY <2>1, <2>2, <2>4, <2>5 DEF Meets, TagFilters
  <2> QED BY <2>3, <2>6 DEF Where, Meets, Dims
<1>3. CASE ~(TagFilters(f) \subseteq DirectTags) /\ ~\E n \in TagNames : TagFilters(f) = {n}
  <2>1. r[1] \in S /\ HasEveryTag(r[1], f, Where(r[1], f))
    BY <1>3 DEF Rows
  <2>2. PICK last \in TagFilters(f) :
            {n \in TagFilters(f) : f.arrays[n] \cap r[1].has[n] # {} /\ (n = last => Where(r[1], f))} = TagFilters(f)
    BY <2>1 DEF HasEveryTag
  <2>3. Where(r[1], f) /\ \A n \in TagFilters(f) : f.arrays[n] \cap r[1].has[n] # {}
    BY <2>2
  <2> QED BY <2>1, <2>3 DEF Where, Meets, Dims, TagFilters
<1> QED BY <1>1, <1>2, <1>3

\* And an event that meets them has a row.
LEMMA RowsComplete ==
    ASSUME NEW f, NEW S, NEW e \in S, MatchesFilter(e, f), AfterCursor(e, f)
    PROVE  \E r \in Rows(f, S) : r[1] = e
<1>1. Meets(e, f, TagNames) /\ Where(e, f)
  BY DEF MatchesFilter, Meets, Where, InWindow, Dims
<1>2. CASE TagFilters(f) \subseteq DirectTags
  <2>1. <<e, 0>> \in Rows(f, S)
    BY <1>1, <1>2 DEF Rows
  <2> QED BY <2>1
<1>3. CASE ~(TagFilters(f) \subseteq DirectTags) /\ \E n \in TagNames : TagFilters(f) = {n}
  <2>1. PICK n \in TagNames : TagFilters(f) = {n}
    BY <1>3
  <2>2. PICK v \in f.arrays[n] : v \in e.has[n]
    BY <1>1, <2>1 DEF Meets, TagFilters
  <2>3. <<e, v>> \in Rows(f, S)
    BY <1>1, <1>3, <2>1, <2>2 DEF Rows
  <2> QED BY <2>3
<1>4. CASE ~(TagFilters(f) \subseteq DirectTags) /\ ~\E n \in TagNames : TagFilters(f) = {n}
  <2>1. PICK last \in TagFilters(f) \ DirectTags : TRUE
    BY <1>4
  <2>2. {n \in TagFilters(f) : f.arrays[n] \cap e.has[n] # {} /\ (n = last => Where(e, f))} = TagFilters(f)
    BY <1>1 DEF Meets, TagFilters
  <2>3. HasEveryTag(e, f, Where(e, f))
    BY <2>1, <2>2 DEF HasEveryTag
  <2>4. <<e, 0>> \in Rows(f, S)
    BY <1>4, <2>3 DEF Rows
  <2> QED BY <2>4
<1> QED BY <1>2, <1>3, <1>4

LEMMA RowsMatch ==
    ASSUME NEW f, NEW S, NEW r \in Rows(f, S)
    PROVE  r[1] \in S /\ MatchesFilter(r[1], f) /\ AfterCursor(r[1], f)
BY RowsSound DEF Where, InWindow, MatchesFilter

LEMMA RowsFinite ==
    ASSUME NEW f, FiniteFilter(f), NEW S \in SUBSET Events
    PROVE  IsFiniteSet(Rows(f, S)) /\ \A r \in Rows(f, S) : r[1] \in S
<1> DEFINE A == {f.arrays[n] : n \in TagNames}
           V == (UNION A) \cup {0}
<1>1. IsFiniteSet(V)
  <2>1. IsFiniteSet(A)
    <3> DEFINE g == [n \in TagNames |-> f.arrays[n]]
    <3>1. IsFiniteSet({g[n] : n \in TagNames})
      <4> HIDE DEF g
      <4>1. g = [n \in TagNames |-> g[n]]
        BY DEF g
      <4> QED BY <4>1, ImageFinite, QueryData DEF QueryData
    <3>2. {g[n] : n \in TagNames} = A
      OBVIOUS
    <3> QED BY <3>1, <3>2
  <2>2. \A T \in A : IsFiniteSet(T)
    BY DEF FiniteFilter, Dims
  <2>3. IsFiniteSet(UNION A)
    BY <2>1, <2>2, FS_UNION
  <2> QED BY <2>3, FS_AddElement
<1>2. IsFiniteSet(S)
  BY FS_Subset, QueryData DEF QueryData
<1>3. IsFiniteSet(S \X V)
  BY <1>1, <1>2, FS_Product
<1>4. Rows(f, S) \subseteq S \X V
  BY DEF Rows
<1> QED BY <1>3, <1>4, FS_Subset

LEMMA NewestFacts ==
    ASSUME NEW R, IsFiniteSet(R), NEW k \in Nat, NEW T \in Newest(R, k)
    PROVE  /\ T \subseteq R /\ IsFiniteSet(T)
           /\ Cardinality(T) \in Nat /\ Cardinality(T) <= k
           /\ \A r \in T, q \in R \ T : r[1].at >= q[1].at
           /\ k >= 1 /\ R # {} => T # {}
<1>1. T \subseteq R /\ Cardinality(T) = Smaller(k, Cardinality(R)) /\ \A r \in T, q \in R \ T : r[1].at >= q[1].at
  BY DEF Newest
<1>2. IsFiniteSet(T)
  BY <1>1, FS_Subset
<1>3. Cardinality(T) \in Nat /\ Cardinality(R) \in Nat
  BY <1>2, FS_CardinalityType
<1>4. Cardinality(T) <= k
  BY <1>1, <1>3 DEF Smaller
<1>5. ASSUME k >= 1, R # {}, T = {} PROVE FALSE
  <2>1. Cardinality(T) = 0 /\ Cardinality(R) # 0
    BY <1>5, FS_EmptySet
  <2> QED BY <1>1, <1>3, <1>5, <2>1 DEF Smaller
<1> QED BY <1>1, <1>2, <1>3, <1>4, <1>5

LEMMA EventsOfFinite ==
    ASSUME NEW R, IsFiniteSet(R)
    PROVE  IsFiniteSet(EventsOf(R)) /\ Cardinality(EventsOf(R)) <= Cardinality(R)
<1> DEFINE g == [r \in R |-> r[1]]
<1>1. LET T == {g[r] : r \in R} IN IsFiniteSet(T) /\ Cardinality(T) <= Cardinality(R)
  <2> HIDE DEF g
  <2>1. g = [r \in R |-> g[r]]
    BY DEF g
  <2> QED BY <2>1, ImageFinite
<1>2. {g[r] : r \in R} = EventsOf(R)
  BY DEF EventsOf
<1> QED BY <1>1, <1>2

-----------------------------------------------------------------------------
(* The invariants.                                                         *)

QueryState ==
    [todo : SUBSET Nat, asked : [Dims -> SUBSET Nat], rows : SUBSET Events, batch : SUBSET Nat,
     valid : SUBSET Nat, found : SUBSET Events, read : Nat]

\* Filters as handleReq passes them on.
Usable(fs) ==
    fs \in Seq(Filter) /\ \A i \in DOMAIN fs : FiniteFilter(fs[i]) /\ fs[i].limit >= 1

Typed ==
    /\ stored \subseteq Events /\ got \subseteq Events
    /\ Usable(filters) /\ query \in QueryState
    /\ phase \in {"idle", "asked", "answered"}
    /\ kept \subseteq stored /\ stayed \subseteq kept
    /\ phase # "idle" => stored \subseteq seen
    /\ gaps \subseteq DOMAIN filters

Loops ==
    /\ query.todo \cup query.batch \cup query.valid \subseteq DOMAIN filters
    /\ query.todo \cap query.batch = {} /\ query.todo \cap query.valid = {} /\ query.batch \cap query.valid = {}
    /\ \A i \in query.todo : Simple(filters[i]) /\ Large(filters[i]) # {}
    /\ \A i \in query.batch \cup query.valid : Large(filters[i]) = {}
    /\ query.rows \subseteq query.found

Counted == Cardinality(query.found) <= query.read /\ query.read <= GlobalMax

IInv == Typed /\ Loops /\ FoundMatches

LEMMA FoundUpdate ==
    ASSUME NEW q \in QueryState, NEW found \in SUBSET Events, NEW read \in Nat, NEW rows \in SUBSET Events,
           NEW p, p = [todo |-> q.todo, asked |-> q.asked, rows |-> rows, batch |-> q.batch,
                       valid |-> q.valid, found |-> found, read |-> read]
    PROVE  /\ p \in QueryState
           /\ p.todo = q.todo /\ p.asked = q.asked /\ p.batch = q.batch /\ p.valid = q.valid
           /\ p.found = found /\ p.read = read /\ p.rows = rows
BY DEF QueryState

LEMMA CappedUsable ==
    ASSUME NEW fs \in Requests
    PROVE  /\ Usable(Capped(fs)) /\ DOMAIN Capped(fs) = DOMAIN fs
           /\ \A i \in DOMAIN fs : Capped(fs)[i].cursor.at = 0
<1>1. fs \in Seq(Filter)
  BY QueryData DEF QueryData
<1>2. DOMAIN Capped(fs) = DOMAIN fs
  BY DEF Capped
<1>3. \A i \in DOMAIN fs :
        /\ FiniteFilter(Capped(fs)[i]) /\ Capped(fs)[i].limit >= 1
        /\ Capped(fs)[i].cursor.at = 0
  <2> SUFFICES ASSUME NEW i \in DOMAIN fs
               PROVE  /\ FiniteFilter(Capped(fs)[i]) /\ Capped(fs)[i].limit >= 1
                      /\ Capped(fs)[i].cursor.at = 0
    OBVIOUS
  <2>1. fs[i] \in Filter /\ fs[i].cursor.at = 0 /\ \A d \in Dims : IsFiniteSet(fs[i].arrays[d])
    BY <1>1, QueryData DEF QueryData
  <2>2. MaxLimit \in Nat /\ MaxLimit >= 1
    BY QueryLimits DEF QueryLimits
  <2> DEFINE l == IF fs[i].limit = 0 THEN MaxLimit ELSE Smaller(fs[i].limit, MaxLimit)
  <2>3. l \in Nat /\ l >= 1
    BY <2>1, <2>2 DEF Filter, Smaller
  <2>4. Capped(fs)[i] = [fs[i] EXCEPT !.limit = l]
    BY DEF Capped
  <2> HIDE DEF l
  <2> QED BY <2>1, <2>3, <2>4 DEF Filter, FiniteFilter
<1>4. Capped(fs) \in Seq(Filter)
  <2>1. \A i \in DOMAIN fs : Capped(fs)[i] \in Filter
    BY <1>3 DEF FiniteFilter
  <2>2. Len(fs) \in Nat /\ DOMAIN fs = 1..Len(fs)
    BY <1>1
  <2>3. Capped(fs) \in [1..Len(fs) -> Filter]
    BY <2>1, <2>2 DEF Capped
  <2> QED BY <2>2, <2>3
<1> QED BY <1>2, <1>3, <1>4 DEF Usable

\* What Ask leaves behind.
LEMMA AskStarts ==
    ASSUME NEW fs, Usable(fs), Ask(fs), Typed
    PROVE  /\ filters' = fs /\ phase' = "asked" /\ kept' = stored
           /\ query' \in QueryState /\ Loops' /\ FoundMatches'
           /\ query'.found = {} /\ query'.read = 0 /\ query'.valid = {}
           /\ query'.todo = {i \in DOMAIN fs : Simple(fs[i]) /\ Large(fs[i]) # {}}
           /\ query'.batch = {i \in DOMAIN fs : Simple(fs[i]) /\ Large(fs[i]) = {}}
<1> DEFINE todo == {i \in DOMAIN fs : Simple(fs[i]) /\ Large(fs[i]) # {}}
           batch == {i \in DOMAIN fs : Simple(fs[i]) /\ Large(fs[i]) = {}}
<1>1. filters' = fs /\ phase' = "asked" /\ kept' = stored
  BY DEF Ask
<1>2. query' = [Idle EXCEPT !.todo = todo, !.batch = batch]
  BY DEF Ask
<1>3. /\ query'.todo = todo /\ query'.batch = batch /\ query'.valid = {} /\ query'.found = {}
      /\ query'.rows = {} /\ query'.read = 0
  BY <1>2 DEF Idle
<1>4. DOMAIN fs \subseteq Nat
  BY DEF Usable
<1>5. query' \in QueryState
  BY <1>2, <1>4 DEF QueryState, Idle, Nothing
<1>6. Loops'
  BY <1>1, <1>3 DEF Loops
<1>7. FoundMatches'
  BY <1>3 DEF FoundMatches
<1> QED BY <1>1, <1>3, <1>5, <1>6, <1>7

-----------------------------------------------------------------------------
(* Chunks.                                                                 *)

LEMMA ChunkIsOfIds ==
    ASSUME Typed, Loops, NEW i \in query.todo, NEW d \in Dims, Unasked(filters[i], d) # {},
           NEW chunk \in SUBSET Unasked(filters[i], d),
           Cardinality(chunk) = Smaller(ChunkSize, Cardinality(Unasked(filters[i], d)))
    PROVE  /\ i \in DOMAIN filters /\ FiniteFilter(filters[i]) /\ filters[i].limit >= 1
           /\ d = "ids" /\ chunk \subseteq filters[i].arrays["ids"] /\ chunk # {}
<1> DEFINE f == filters[i]
           U == Unasked(f, d)
<1>1. i \in DOMAIN filters /\ FiniteFilter(f) /\ f.limit >= 1 /\ Simple(f)
  BY DEF Typed, Usable, Loops
<1>2. d \in Large(f) /\ U \subseteq f.arrays[d]
  BY DEF Unasked
<1>3. d = "ids"
  BY <1>1, <1>2, OnlyIdsAreLarge
<1>4. IsFiniteSet(U)
  BY <1>1, <1>2, FS_Subset DEF FiniteFilter
<1>5. Cardinality(U) \in Nat /\ Cardinality(U) # 0
  BY <1>4, FS_CardinalityType, FS_EmptySet
<1>6. ChunkSize \in Nat /\ ChunkSize # 0
  BY QueryLimits DEF QueryLimits
<1>7. Cardinality(chunk) # 0
  <2> HIDE DEF U
  <2>1. Cardinality(chunk) = Smaller(ChunkSize, Cardinality(U))
    BY DEF U
  <2> QED BY <1>5, <1>6, <2>1 DEF Smaller
<1>8. chunk # {}
  BY <1>7, FS_EmptySet
<1> QED BY <1>1, <1>2, <1>3, <1>8

ChunkFilter(f, chunk) == [BaseFilter(f) EXCEPT !.arrays["ids"] = chunk]

LEMMA ChunkFilterNarrows ==
    ASSUME NEW f, FiniteFilter(f), Simple(f),
           NEW chunk, chunk \subseteq f.arrays["ids"], chunk # {},
           NEW g, g = ChunkFilter(f, chunk)
    PROVE  /\ FiniteFilter(g) /\ g.limit = f.limit
           /\ g.arrays["ids"] = chunk /\ \A d \in Dims \ {"ids"} : g.arrays[d] = f.arrays[d]
           /\ g.since = f.since /\ g.until = f.until /\ g.cursor = f.cursor
           /\ \A e : MatchesFilter(e, g) => MatchesFilter(e, f)
           /\ \A e : AfterCursor(e, g) => AfterCursor(e, f)
<1>1. f \in Filter /\ Large(f) \subseteq {"ids"} /\ "ids" \in Dims
  BY OnlyIdsAreLarge DEF FiniteFilter, Dims, Columns
<1> DEFINE b == [d \in Dims |-> IF d \in Large(f) THEN {} ELSE f.arrays[d]]
           a == [b EXCEPT !["ids"] = chunk]
<1>2. BaseFilter(f) = [f EXCEPT !.arrays = b]
  BY DEF BaseFilter
<1>3. g = [f EXCEPT !.arrays = a]
  <2> HIDE DEF b
  <2> QED BY <1>1, <1>2 DEF Filter, ChunkFilter
<1>4. a["ids"] = chunk /\ \A d \in Dims \ {"ids"} : a[d] = f.arrays[d]
  BY <1>1
<1>5. a \in [Dims -> SUBSET Nat]
  BY <1>1 DEF Filter
<1>6. IsFiniteSet(chunk)
  BY <1>1, FS_Subset DEF FiniteFilter
<1>7. /\ g.arrays = a /\ g.since = f.since /\ g.until = f.until /\ g.limit = f.limit
      /\ g.cursor = f.cursor /\ g \in Filter
  <2> HIDE DEF a
  <2> QED BY <1>1, <1>3, <1>5 DEF Filter
<1>8. FiniteFilter(g)
  <2> HIDE DEF a
  <2> QED BY <1>4, <1>6, <1>7 DEF FiniteFilter
<1>9. ASSUME NEW e, MatchesFilter(e, g) PROVE MatchesFilter(e, f)
  <2> HIDE DEF a
  <2>1. Meets(e, f, Dims)
    <3> SUFFICES ASSUME NEW d \in Dims PROVE f.arrays[d] = {} \/ f.arrays[d] \cap e.has[d] # {}
      BY DEF Meets
    <3>1. g.arrays[d] = {} \/ g.arrays[d] \cap e.has[d] # {}
      BY <1>9 DEF MatchesFilter, Meets
    <3> QED BY <1>4, <1>7, <3>1
  <2> QED BY <1>7, <1>9, <2>1 DEF MatchesFilter
<1>10. \A e : AfterCursor(e, g) => AfterCursor(e, f)
  <2> HIDE DEF a
  <2> QED BY <1>7 DEF AfterCursor
<1> HIDE DEF a
<1> QED BY <1>4, <1>7, <1>8, <1>9, <1>10

LEMMA NextChunkState ==
    ASSUME Typed, Loops, NEW i \in query.todo, NEW d \in Dims, NEW chunk \in SUBSET Nat,
           NEW next, next = NextChunk(i, d, chunk)
    PROVE  /\ next \in QueryState
           /\ next.todo \subseteq query.todo /\ next.batch = query.batch /\ next.valid = query.valid
           /\ next.found = query.found /\ next.read = query.read
           /\ next.rows \subseteq query.rows
<1>1. PICK more \in BOOLEAN :
        next = IF more THEN [query EXCEPT !.asked[d] = @ \cup chunk]
                       ELSE [query EXCEPT !.todo = @ \ {i}, !.asked = Nothing, !.rows = {}]
  BY Zenon DEF NextChunk
<1>2. query \in QueryState /\ query.asked \in [Dims -> SUBSET Nat] /\ query.asked[d] \in SUBSET Nat
  BY DEF Typed, QueryState
<1>3. CASE more
  <2> DEFINE a == [query.asked EXCEPT ![d] = @ \cup chunk]
  <2>1. a \in [Dims -> SUBSET Nat]
    BY <1>2
  <2>2. next = [query EXCEPT !.asked = a]
    BY <1>1, <1>3
  <2> HIDE DEF a
  <2> QED BY <1>2, <2>1, <2>2 DEF QueryState
<1>4. CASE ~more
  <2>1. next = [query EXCEPT !.todo = query.todo \ {i}, !.asked = Nothing, !.rows = {}]
    BY <1>1, <1>4
  <2>2. Nothing \in [Dims -> SUBSET Nat]
    BY DEF Nothing
  <2> QED BY <1>2, <2>1, <2>2 DEF QueryState
<1> QED BY <1>3, <1>4

\* What a chunk adds, and that it matches the filter.
LEMMA ChunkAdds ==
    ASSUME Typed, Loops, Chunk
    PROVE  \E i \in query.todo, new \in SUBSET stored, n \in Nat, rows \in SUBSET Events :
             /\ i \in DOMAIN filters /\ \A e \in new : MatchesFilter(e, filters[i]) /\ AfterCursor(e, filters[i])
             /\ IsFiniteSet(new) /\ Cardinality(new) <= n /\ query.read + n <= GlobalMax
             /\ query' \in QueryState
             /\ query'.todo \subseteq query.todo /\ query'.batch = query.batch /\ query'.valid = query.valid
             /\ query'.found = query.found \cup new /\ query'.read = query.read + n
             /\ query'.rows \subseteq query.rows \cup new
<1>0. query \in QueryState /\ query.read \in Nat /\ GlobalMax \in Nat /\ ~Full
  <2>1. GlobalMax \in Nat
    BY QueryLimits DEF QueryLimits
  <2>2. query \in QueryState /\ query.read \in Nat
    BY DEF Typed, QueryState
  <2>3. ~Full
    BY DEF Chunk, InChunks
  <2> QED BY <2>1, <2>2, <2>3
<1>16. PICK i \in query.todo, d \in Dims :
        /\ First(i, query.todo) /\ Unasked(filters[i], d) # {}
        /\ \E chunk \in SUBSET Unasked(filters[i], d) :
            /\ Cardinality(chunk) = Smaller(ChunkSize, Cardinality(Unasked(filters[i], d)))
            /\ \E R \in Newest(Rows([BaseFilter(filters[i]) EXCEPT !.arrays[d] = chunk], stored), filters[i].limit) :
               \E T \in Newest((EventsOf(R) \ query.rows) \X {0}, GlobalMax - query.read) :
                 query' = [NextChunk(i, d, chunk) EXCEPT
                             !.found = @ \cup EventsOf(T), !.read = @ + Cardinality(T),
                             !.rows = IF i \in NextChunk(i, d, chunk).todo THEN @ \cup EventsOf(T) ELSE {}]
  BY DEF Chunk
<1>1. PICK chunk \in SUBSET Unasked(filters[i], d) :
        /\ Unasked(filters[i], d) # {}
        /\ Cardinality(chunk) = Smaller(ChunkSize, Cardinality(Unasked(filters[i], d)))
        /\ \E R \in Newest(Rows([BaseFilter(filters[i]) EXCEPT !.arrays[d] = chunk], stored), filters[i].limit) :
           \E T \in Newest((EventsOf(R) \ query.rows) \X {0}, GlobalMax - query.read) :
             query' = [NextChunk(i, d, chunk) EXCEPT
                         !.found = @ \cup EventsOf(T), !.read = @ + Cardinality(T),
                         !.rows = IF i \in NextChunk(i, d, chunk).todo THEN @ \cup EventsOf(T) ELSE {}]
  BY <1>16
<1> DEFINE f == filters[i]
           g == [BaseFilter(f) EXCEPT !.arrays[d] = chunk]
           next == NextChunk(i, d, chunk)
<1>17. PICK R \in Newest(Rows(g, stored), f.limit) :
        \E T \in Newest((EventsOf(R) \ query.rows) \X {0}, GlobalMax - query.read) :
          query' = [next EXCEPT !.found = @ \cup EventsOf(T), !.read = @ + Cardinality(T),
                                !.rows = IF i \in next.todo THEN @ \cup EventsOf(T) ELSE {}]
  BY <1>1
<1>2. PICK T \in Newest((EventsOf(R) \ query.rows) \X {0}, GlobalMax - query.read) :
        query' = [next EXCEPT !.found = @ \cup EventsOf(T), !.read = @ + Cardinality(T),
                              !.rows = IF i \in next.todo THEN @ \cup EventsOf(T) ELSE {}]
  BY <1>17
<1>3. /\ i \in DOMAIN filters /\ FiniteFilter(f) /\ f.limit >= 1 /\ Simple(f)
      /\ d = "ids" /\ chunk \subseteq f.arrays["ids"] /\ chunk # {}
  BY <1>1, ChunkIsOfIds DEF Loops
<1>4. /\ FiniteFilter(g)
      /\ \A e : MatchesFilter(e, g) => MatchesFilter(e, f)
      /\ \A e : AfterCursor(e, g) => AfterCursor(e, f)
  <2>1. g = ChunkFilter(f, chunk)
    BY <1>3 DEF ChunkFilter
  <2> HIDE DEF g, f
  <2>2. FiniteFilter(f) /\ Simple(f) /\ chunk \subseteq f.arrays["ids"] /\ chunk # {}
    BY <1>3
  <2> QED BY <2>1, <2>2, ChunkFilterNarrows
<1>5. IsFiniteSet(Rows(g, stored)) /\ \A r \in Rows(g, stored) : r[1] \in stored /\ MatchesFilter(r[1], g) /\ AfterCursor(r[1], g)
  <2> HIDE DEF g
  <2> QED BY <1>4, RowsFinite, RowsMatch DEF Typed
<1>6. R \subseteq Rows(g, stored) /\ IsFiniteSet(R)
  <2>1. f.limit \in Nat
    BY <1>3 DEF FiniteFilter, Filter
  <2> HIDE DEF g, f
  <2> QED BY <1>2, <1>5, <2>1, NewestFacts
<1>7. IsFiniteSet(EventsOf(R)) /\ \A e \in EventsOf(R) : e \in stored /\ MatchesFilter(e, f) /\ AfterCursor(e, f)
  <2>1. IsFiniteSet(EventsOf(R))
    BY <1>6, EventsOfFinite
  <2>2. ASSUME NEW e \in EventsOf(R) PROVE e \in stored /\ MatchesFilter(e, f) /\ AfterCursor(e, f)
    <3>1. PICK r \in R : e = r[1]
      BY DEF EventsOf
    <3> HIDE DEF g, f
    <3> QED BY <1>4, <1>5, <1>6, <3>1
  <2> QED BY <2>1, <2>2
<1>8. /\ T \subseteq (EventsOf(R) \ query.rows) \X {0} /\ IsFiniteSet(T)
      /\ Cardinality(T) \in Nat /\ Cardinality(T) <= GlobalMax - query.read
  <2>1. IsFiniteSet((EventsOf(R) \ query.rows) \X {0})
    <3>1. IsFiniteSet(EventsOf(R) \ query.rows) /\ IsFiniteSet({0})
      BY <1>7, FS_Subset, FS_Singleton
    <3> QED BY <3>1, FS_Product
  <2>2. GlobalMax - query.read \in Nat
    BY <1>0 DEF Full
  <2> QED BY <1>2, <2>1, <2>2, NewestFacts
<1> DEFINE new == EventsOf(T)
           n == Cardinality(T)
<1>9. new \subseteq EventsOf(R) /\ IsFiniteSet(new) /\ Cardinality(new) <= n
  BY <1>8, EventsOfFinite DEF EventsOf
<1>10. /\ next \in QueryState
       /\ next.todo \subseteq query.todo /\ next.batch = query.batch /\ next.valid = query.valid
       /\ next.found = query.found /\ next.read = query.read
       /\ next.rows \subseteq query.rows
  <2>1. chunk \in SUBSET Nat
    BY <1>3 DEF FiniteFilter, Filter, Dims, Columns
  <2> HIDE DEF next
  <2> QED BY <2>1, <1>1, NextChunkState DEF next
<1> DEFINE rows == IF i \in next.todo THEN next.rows \cup new ELSE {}
<1>11. query' = [next EXCEPT !.found = next.found \cup new, !.read = next.read + n, !.rows = rows]
  BY <1>2
<1>12. new \subseteq stored /\ new \subseteq Events /\ \A e \in new : MatchesFilter(e, f) /\ AfterCursor(e, f)
  BY <1>7, <1>9 DEF Typed
<1>13. rows \subseteq query.rows \cup new /\ rows \in SUBSET Events
  BY <1>0, <1>10, <1>12 DEF QueryState
<1>14. /\ query' \in QueryState
       /\ query'.todo = next.todo /\ query'.batch = next.batch /\ query'.valid = next.valid
       /\ query'.found = query.found \cup new /\ query'.read = query.read + n /\ query'.rows = rows
  <2>1. next.read + n \in Nat
    BY <1>0, <1>8, <1>10
  <2>2. next.found \cup new \in SUBSET Events
    BY <1>0, <1>10, <1>12 DEF QueryState
  <2> HIDE DEF next, new, n, rows
  <2>3. next \in QueryState
    BY <1>10
  <2>4. /\ query' \in QueryState
        /\ query'.todo = next.todo /\ query'.batch = next.batch /\ query'.valid = next.valid
        /\ query'.found = next.found \cup new /\ query'.read = next.read + n /\ query'.rows = rows
    <3>1. query' = [todo |-> next.todo, asked |-> next.asked, rows |-> rows, batch |-> next.batch,
                    valid |-> next.valid, found |-> next.found \cup new, read |-> next.read + n]
      BY <1>11, <2>3 DEF QueryState
    <3> QED BY <1>13, <2>1, <2>2, <2>3, <3>1, FoundUpdate
  <2> QED BY <1>10, <2>4
<1>15. n \in Nat /\ query.read + n <= GlobalMax
  BY <1>0, <1>8
<1> QED
  <2> HIDE DEF next, new, n, rows
  <2>1. /\ i \in DOMAIN filters /\ \A e \in new : MatchesFilter(e, filters[i]) /\ AfterCursor(e, filters[i])
        /\ IsFiniteSet(new) /\ Cardinality(new) <= n /\ query.read + n <= GlobalMax
        /\ query' \in QueryState
        /\ query'.todo \subseteq query.todo /\ query'.batch = query.batch /\ query'.valid = query.valid
        /\ query'.found = query.found \cup new /\ query'.read = query.read + n
        /\ query'.rows \subseteq query.rows \cup new
    BY <1>3, <1>9, <1>10, <1>12, <1>13, <1>14, <1>15
  <2> QED BY <1>12, <1>13, <1>15, <2>1

\* The batch: what it takes of every filter.
LEMMA BatchAdds ==
    ASSUME Typed, Loops, Batch
    PROVE  \E R \in [query.valid -> SUBSET UNION {Rows(filters[i], stored) : i \in query.valid}] :
             /\ \A i \in query.valid :
                 /\ i \in DOMAIN filters /\ Large(filters[i]) = {}
                 /\ IsFiniteSet(R[i])
                 /\ \A r \in R[i] : r[1] \in stored /\ MatchesFilter(r[1], filters[i]) /\ AfterCursor(r[1], filters[i])
                 /\ R[i] \in Newest(Rows(filters[i], stored),
                                    Smaller(filters[i].limit, GlobalMax - query.read - Cardinality(Taken(R, i))))
             /\ query' \in QueryState
             /\ query'.todo = query.todo /\ query'.batch = query.batch /\ query'.valid = {}
             /\ query'.rows = query.rows
             /\ query'.found = query.found \cup UNION {EventsOf(R[i]) : i \in query.valid}
             /\ query'.read = query.read + Cardinality(UNION {{i} \X R[i] : i \in query.valid})
             /\ IsFiniteSet(UNION {{i} \X R[i] : i \in query.valid})
<1> DEFINE V == query.valid
<1>1. PICK R \in [V -> SUBSET UNION {Rows(filters[i], stored) : i \in V}] :
        /\ \A i \in V :
            R[i] \in Newest(Rows(filters[i], stored),
                            Smaller(filters[i].limit, GlobalMax - query.read - Cardinality(Taken(R, i))))
        /\ query' = [query EXCEPT !.valid = {},
                                  !.found = @ \cup UNION {EventsOf(R[i]) : i \in V},
                                  !.read = @ + Cardinality(UNION {{i} \X R[i] : i \in V})]
  BY DEF Batch
<1>2. \A i \in V :
        /\ i \in DOMAIN filters /\ Large(filters[i]) = {}
        /\ IsFiniteSet(R[i])
        /\ \A r \in R[i] : r[1] \in stored /\ MatchesFilter(r[1], filters[i]) /\ AfterCursor(r[1], filters[i])
  <2> SUFFICES ASSUME NEW i \in V
               PROVE  /\ i \in DOMAIN filters /\ Large(filters[i]) = {}
                      /\ IsFiniteSet(R[i])
                      /\ \A r \in R[i] : r[1] \in stored /\ MatchesFilter(r[1], filters[i]) /\ AfterCursor(r[1], filters[i])
    OBVIOUS
  <2>1. i \in DOMAIN filters /\ Large(filters[i]) = {} /\ FiniteFilter(filters[i])
    BY DEF Typed, Loops, Usable
  <2>2. IsFiniteSet(Rows(filters[i], stored))
    BY <2>1, RowsFinite DEF Typed
  <2>3. R[i] \subseteq Rows(filters[i], stored)
    BY <1>1 DEF Newest
  <2>4. IsFiniteSet(R[i])
    BY <2>2, <2>3, FS_Subset
  <2> QED BY <2>1, <2>3, <2>4, RowsMatch
<1> DEFINE P == UNION {{i} \X R[i] : i \in V}
           new == UNION {EventsOf(R[i]) : i \in V}
<1>3. IsFiniteSet(P)
  <2>1. IsFiniteSet(V)
    <3>1. V \subseteq 1..Len(filters) /\ Len(filters) \in Nat
      BY DEF Typed, Usable, Loops
    <3>2. IsFiniteSet(1..Len(filters))
      BY <3>1, FS_Interval
    <3> QED BY <3>1, <3>2, FS_Subset
  <2> DEFINE A == {{i} \X R[i] : i \in V}
  <2>2. IsFiniteSet(A)
    <3> DEFINE g == [i \in V |-> {i} \X R[i]]
    <3>1. IsFiniteSet({g[i] : i \in V})
      <4> HIDE DEF g
      <4>1. g = [i \in V |-> g[i]]
        BY DEF g
      <4> QED BY <2>1, <4>1, ImageFinite
    <3>2. {g[i] : i \in V} = A
      OBVIOUS
    <3> QED BY <3>1, <3>2
  <2>3. \A T \in A : IsFiniteSet(T)
    <3> SUFFICES ASSUME NEW i \in V PROVE IsFiniteSet({i} \X R[i])
      OBVIOUS
    <3>1. IsFiniteSet({i}) /\ IsFiniteSet(R[i])
      BY <1>2, FS_Singleton
    <3> QED BY <3>1, FS_Product
  <2> QED BY <2>2, <2>3, FS_UNION
<1>4. new \subseteq Events
  BY <1>2 DEF EventsOf, Typed
<1>5. Cardinality(P) \in Nat
  BY <1>3, FS_CardinalityType
<1>6. query' = [query EXCEPT !.valid = {}, !.found = query.found \cup new, !.read = query.read + Cardinality(P)]
  BY <1>1
<1>7. query \in QueryState
  BY DEF Typed
<1>8. /\ query' \in QueryState
      /\ query'.todo = query.todo /\ query'.batch = query.batch /\ query'.valid = {}
      /\ query'.rows = query.rows
      /\ query'.found = query.found \cup new /\ query'.read = query.read + Cardinality(P)
  <2> DEFINE v == [todo |-> query.todo, asked |-> query.asked, rows |-> query.rows, batch |-> query.batch,
                   valid |-> {}, found |-> query.found, read |-> query.read]
  <2>1. /\ v \in QueryState /\ v.valid = {} /\ v.todo = query.todo /\ v.batch = query.batch
        /\ v.rows = query.rows /\ v.found = query.found /\ v.read = query.read /\ v.asked = query.asked
    BY <1>7 DEF QueryState
  <2>2. query.found \cup new \in SUBSET Events /\ query.read + Cardinality(P) \in Nat /\ query.rows \in SUBSET Events
    BY <1>4, <1>5, <1>7 DEF QueryState
  <2>3. query' = [todo |-> v.todo, asked |-> v.asked, rows |-> query.rows, batch |-> v.batch, valid |-> v.valid,
                  found |-> query.found \cup new, read |-> query.read + Cardinality(P)]
    <3> HIDE DEF new, P
    <3> QED BY <1>6, <1>7 DEF QueryState
  <2> HIDE DEF new, P, v
  <2> QED BY <2>1, <2>2, <2>3, FoundUpdate
<1> QED BY <1>1, <1>2, <1>3, <1>8

-----------------------------------------------------------------------------
(* What is found matches.                                                  *)

LEMMA InitIInv == Init => IInv
<1> SUFFICES ASSUME Init PROVE IInv
  OBVIOUS
<1>1. query \in QueryState
  BY DEF Init, Idle, Nothing, QueryState
<1>2. Usable(filters) /\ DOMAIN filters = {}
  BY DEF Init, Usable
<1> QED BY <1>1, <1>2 DEF Init, Idle, IInv, Typed, Loops, FoundMatches

\* A cursor does not change which filters are usable.
LEMMA CursorUsable ==
    ASSUME NEW fs, Usable(fs), Len(fs) = 1, NEW c \in [at : Nat, id : Nat],
           NEW gs, gs = [fs EXCEPT ![1].cursor = c]
    PROVE  /\ Usable(gs) /\ Len(gs) = 1 /\ DOMAIN gs = DOMAIN fs
           /\ gs[1].arrays = fs[1].arrays /\ gs[1].since = fs[1].since /\ gs[1].until = fs[1].until
           /\ gs[1].limit = fs[1].limit /\ gs[1].cursor = c
<1>1. fs \in Seq(Filter) /\ DOMAIN fs = {1} /\ fs[1] \in Filter
  <2>1. fs \in Seq(Filter) /\ DOMAIN fs = 1..Len(fs)
    BY DEF Usable
  <2>2. DOMAIN fs = {1}
    BY <2>1
  <2> QED BY <2>1, <2>2
<1> DEFINE g == [fs[1] EXCEPT !.cursor = c]
<1>2. g \in Filter /\ g.arrays = fs[1].arrays /\ g.since = fs[1].since /\ g.until = fs[1].until
      /\ g.limit = fs[1].limit /\ g.cursor = c
  BY <1>1 DEF Filter
<1>3. gs = [fs EXCEPT ![1] = g]
  OBVIOUS
<1> HIDE DEF g
<1>4. gs \in Seq(Filter) /\ Len(gs) = 1 /\ DOMAIN gs = DOMAIN fs /\ gs[1] = g
  <2>1. fs \in [1..1 -> Filter]
    BY <1>1
  <2>2. gs \in [1..1 -> Filter] /\ gs[1] = g
    BY <1>2, <1>3, <2>1
  <2> QED BY <1>1, <2>2
<1> QED BY <1>1, <1>2, <1>4 DEF Usable, FiniteFilter

LEMMA NextIInv == IInv /\ [Next]_vars => IInv'
<1> SUFFICES ASSUME IInv, [Next]_vars PROVE IInv'
  OBVIOUS
<1> USE DEF IInv
<1>1. CASE Req
  <2>1. PICK fs \in Requests : Ask(Capped(fs))
    BY <1>1 DEF Req
  <2>2. Usable(Capped(fs))
    BY CappedUsable
  <2>3. /\ filters' = Capped(fs) /\ phase' = "asked" /\ kept' = stored
        /\ query' \in QueryState /\ Loops' /\ FoundMatches'
    BY <2>1, <2>2, AskStarts
  <2> QED BY <1>1, <2>2, <2>3 DEF Req, Typed
<1>2. CASE NextPage
  <2>1. PICK last \in query.found : Ask([filters EXCEPT ![1].cursor = [at |-> last.at, id |-> last.id]])
    BY <1>2 DEF NextPage
  <2>2. [at |-> last.at, id |-> last.id] \in [at : Nat, id : Nat]
    BY QueryData DEF QueryData, Typed, QueryState, Event
  <2> DEFINE fs == [filters EXCEPT ![1].cursor = [at |-> last.at, id |-> last.id]]
  <2>3. Usable(fs) /\ DOMAIN fs = DOMAIN filters
    BY <1>2, <2>2, CursorUsable DEF NextPage, Typed
  <2>4. /\ filters' = fs /\ phase' = "asked" /\ kept' = stored
        /\ query' \in QueryState /\ Loops' /\ FoundMatches'
    BY <2>1, <2>3, AskStarts
  <2> HIDE DEF fs
  <2> QED BY <1>2, <2>3, <2>4 DEF NextPage, Typed
<1>3. CASE Chunk
  <2>1. PICK i \in query.todo, new \in SUBSET stored, n \in Nat, rows \in SUBSET Events :
          /\ i \in DOMAIN filters /\ \A e \in new : MatchesFilter(e, filters[i])
          /\ query' \in QueryState
          /\ query'.todo \subseteq query.todo /\ query'.batch = query.batch /\ query'.valid = query.valid
          /\ query'.found = query.found \cup new
          /\ query'.rows \subseteq query.rows \cup new
    BY <1>3, ChunkAdds
  <2>2. UNCHANGED <<stored, filters, phase, got, history>>
    BY <1>3 DEF Chunk
  <2>3. Typed'
    BY <2>1, <2>2 DEF Typed, history
  <2>4. Loops'
    BY <2>1, <2>2 DEF Loops
  <2>5. FoundMatches'
    BY <2>1, <2>2 DEF FoundMatches
  <2> QED BY <2>3, <2>4, <2>5
<1>4. CASE ChunkFails
  <2>1. PICK i \in query.todo, d \in Dims :
          /\ Unasked(filters[i], d) # {}
          /\ \E chunk \in SUBSET Unasked(filters[i], d) :
              /\ Cardinality(chunk) = Smaller(ChunkSize, Cardinality(Unasked(filters[i], d)))
              /\ query' = NextChunk(i, d, chunk)
          /\ gaps' = gaps \cup {i}
    BY <1>4 DEF ChunkFails
  <2>2. PICK chunk \in SUBSET Unasked(filters[i], d) :
          /\ Cardinality(chunk) = Smaller(ChunkSize, Cardinality(Unasked(filters[i], d)))
          /\ query' = NextChunk(i, d, chunk)
    BY <2>1
  <2>3. i \in DOMAIN filters /\ FiniteFilter(filters[i]) /\ d = "ids" /\ chunk \subseteq filters[i].arrays["ids"]
    BY <2>1, <2>2, ChunkIsOfIds
  <2>4. chunk \in SUBSET Nat
    BY <2>3 DEF FiniteFilter, Filter, Dims, Columns
  <2>5. /\ query' \in QueryState
        /\ query'.todo \subseteq query.todo /\ query'.batch = query.batch /\ query'.valid = query.valid
        /\ query'.found = query.found /\ query'.rows \subseteq query.rows
    BY <2>2, <2>4, NextChunkState
  <2>6. UNCHANGED <<stored, filters, phase, got, kept, stayed, seen>>
    BY <1>4 DEF ChunkFails
  <2>7. Typed'
    BY <2>1, <2>3, <2>5, <2>6 DEF Typed
  <2>8. Loops' /\ FoundMatches'
    BY <2>5, <2>6 DEF Loops, FoundMatches
  <2> QED BY <2>7, <2>8
<1>5. CASE Precheck
  <2>1. PICK i \in query.batch, ok \in BOOLEAN :
          /\ query' = IF ok THEN [query EXCEPT !.batch = @ \ {i}, !.valid = @ \cup {i}]
                            ELSE [query EXCEPT !.batch = @ \ {i}]
          /\ gaps' \subseteq gaps \cup {i}
    <3>1. PICK i \in query.batch :
            IF TagFilters(filters[i]) = {} \/ Estimate(filters[i], stored) <= MaxRows
            THEN query' = [query EXCEPT !.batch = @ \ {i}, !.valid = @ \cup {i}] /\ UNCHANGED gaps
            ELSE query' = [query EXCEPT !.batch = @ \ {i}] /\ gaps' = gaps \cup {i}
      BY <1>5 DEF Precheck
    <3>2. CASE TagFilters(filters[i]) = {} \/ Estimate(filters[i], stored) <= MaxRows
      <4> WITNESS i \in query.batch, TRUE \in BOOLEAN
      <4> QED BY <3>1, <3>2
    <3>3. CASE ~(TagFilters(filters[i]) = {} \/ Estimate(filters[i], stored) <= MaxRows)
      <4> WITNESS i \in query.batch, FALSE \in BOOLEAN
      <4> QED BY <3>1, <3>3
    <3> QED BY <3>2, <3>3
  <2>2. query \in QueryState /\ i \in Nat
    BY DEF Typed, QueryState
  <2>3. /\ query' \in QueryState
        /\ query'.todo = query.todo /\ query'.batch = query.batch \ {i}
        /\ query'.valid \subseteq query.valid \cup {i}
        /\ query'.found = query.found /\ query'.rows = query.rows
    BY <2>1, <2>2 DEF QueryState
  <2>4. UNCHANGED <<stored, filters, phase, got, kept, stayed, seen>>
    BY <1>5 DEF Precheck
  <2>5. Typed'
    BY <2>1, <2>3, <2>4 DEF Typed, Loops
  <2>6. Loops' /\ FoundMatches'
    BY <2>3, <2>4 DEF Loops, FoundMatches
  <2> QED BY <2>5, <2>6
<1>6. CASE Batch
  <2>1. PICK R \in [query.valid -> SUBSET UNION {Rows(filters[i], stored) : i \in query.valid}] :
          /\ \A i \in query.valid :
              /\ i \in DOMAIN filters
              /\ \A r \in R[i] : r[1] \in stored /\ MatchesFilter(r[1], filters[i])
          /\ query' \in QueryState
          /\ query'.todo = query.todo /\ query'.batch = query.batch /\ query'.valid = {}
          /\ query'.rows = query.rows
          /\ query'.found = query.found \cup UNION {EventsOf(R[i]) : i \in query.valid}
    BY <1>6, BatchAdds
  <2>2. UNCHANGED <<stored, filters, phase, got, history>>
    BY <1>6 DEF Batch
  <2>3. Typed'
    BY <2>1, <2>2 DEF Typed, history
  <2>4. Loops'
    BY <2>1, <2>2 DEF Loops
  <2>5. FoundMatches'
    <3> SUFFICES ASSUME NEW e \in query'.found PROVE \E i \in DOMAIN filters : MatchesFilter(e, filters[i])
      BY <2>2 DEF FoundMatches
    <3>1. CASE e \in query.found
      BY <3>1 DEF FoundMatches
    <3>2. CASE e \notin query.found
      <4>1. PICK i \in query.valid : e \in EventsOf(R[i])
        BY <2>1, <3>2
      <4>2. PICK r \in R[i] : e = r[1]
        BY <4>1 DEF EventsOf
      <4> QED BY <2>1, <4>1, <4>2
    <3> QED BY <3>1, <3>2
  <2> QED BY <2>3, <2>4, <2>5
<1>7. CASE Answer
  BY <1>7 DEF Answer, Waiting, Typed, Loops, FoundMatches, history, QueryState
<1>8. CASE QueryFails
  <2>1. query' = Idle /\ Idle \in QueryState
    BY <1>8 DEF QueryFails, Idle, Nothing, QueryState
  <2>2. Typed'
    BY <1>8, <2>1 DEF QueryFails, Waiting, Typed
  <2>3. Loops' /\ FoundMatches'
    BY <2>1 DEF Idle, Loops, FoundMatches
  <2> QED BY <2>2, <2>3
<1>9. CASE Save
  BY <1>9 DEF Save, Typed, Loops, FoundMatches
<1>10. CASE Remove
  BY <1>10 DEF Remove, Typed, Loops, FoundMatches
<1>11. CASE UNCHANGED vars
  BY <1>11 DEF vars, history, Typed, Loops, FoundMatches
<1> QED BY <1>1, <1>2, <1>3, <1>4, <1>5, <1>6, <1>7, <1>8, <1>9, <1>10, <1>11 DEF Next

\* The invariant of the theorems below.
THEOREM IInvHolds == Spec => []IInv
<1> QED BY InitIInv, NextIInv, PTL DEF Spec

\* FoundMatches, whatever the filters, the limits and the order of statements
\* and saves: no statement of buildQuery lets through what matchesFilter does
\* not, neither does asking in chunks (durable-object.ts, relay-worker.ts).
THEOREM FoundMatchesHolds == Spec => []FoundMatches
<1>1. IInv => FoundMatches
  BY DEF IInv
<1> QED BY <1>1, IInvHolds, PTL

-----------------------------------------------------------------------------
(* No more is found than was read, and no more is read than has room.      *)

LEMMA FoundFinite ==
    ASSUME NEW S \in SUBSET Events
    PROVE  IsFiniteSet(S) /\ Cardinality(S) \in Nat
<1>1. IsFiniteSet(S)
  BY FS_Subset, QueryData DEF QueryData
<1> QED BY <1>1, FS_CardinalityType

LEMMA UnionBound ==
    ASSUME NEW S, IsFiniteSet(S), NEW T, IsFiniteSet(T), NEW a \in Nat, NEW b \in Nat,
           Cardinality(S) <= a, Cardinality(T) <= b
    PROVE  Cardinality(S \cup T) \in Nat /\ Cardinality(S \cup T) <= a + b
<1>1. /\ IsFiniteSet(S \cup T)
      /\ Cardinality(S \cup T) = Cardinality(S) + Cardinality(T) - Cardinality(S \cap T)
  BY FS_Union
<1>2. IsFiniteSet(S \cap T)
  BY FS_Subset
<1>3. Cardinality(S \cup T) \in Nat /\ Cardinality(S) \in Nat /\ Cardinality(T) \in Nat /\ Cardinality(S \cap T) \in Nat
  BY <1>1, <1>2, FS_CardinalityType
<1> QED BY <1>1, <1>3

LEMMA Largest ==
    ASSUME NEW n \in Nat, NEW V \in SUBSET (0..n), V # {}
    PROVE  \E m \in V : \A v \in V : v <= m
<1> DEFINE T == {n - v : v \in V}
           R == {ss \in Nat \X Nat : ss[1] < ss[2]}
<1>1. IsWellFoundedOn(R, Nat)
  BY NatLessThanWellFounded DEF OpToRel
<1>2. \A v \in V : v \in Nat /\ n - v \in Nat
  OBVIOUS
<1>3. T \subseteq Nat /\ T # {}
  BY <1>2
<1>4. PICK x \in T : \A y \in T : ~(<<y, x>> \in R)
  <2> HIDE DEF T, R
  <2> QED BY <1>1, <1>3, WFMin
<1>5. ASSUME NEW y \in T PROVE x <= y
  <2>1. x \in Nat /\ y \in Nat
    BY <1>3
  <2>2. ~(y < x)
    BY <1>4, <2>1
  <2> QED BY <2>1, <2>2
<1>6. PICK m \in V : x = n - m
  BY <1>4
<1>7. ASSUME NEW v \in V PROVE v <= m
  <2>1. n - m <= n - v
    BY <1>5, <1>6
  <2> QED BY <1>2, <2>1
<1> QED BY <1>7

\* What the last filter of a batch adds fits into what the others left.
LEMMA BatchCounts ==
    ASSUME Typed, Loops, Counted, Batch
    PROVE  Counted'
<1> DEFINE V == query.valid
<1>1. PICK R \in [V -> SUBSET UNION {Rows(filters[i], stored) : i \in V}] :
        /\ \A i \in V :
            /\ i \in DOMAIN filters
            /\ IsFiniteSet(R[i])
            /\ \A r \in R[i] : r[1] \in stored
            /\ R[i] \in Newest(Rows(filters[i], stored),
                               Smaller(filters[i].limit, GlobalMax - query.read - Cardinality(Taken(R, i))))
        /\ query' \in QueryState
        /\ query'.found = query.found \cup UNION {EventsOf(R[i]) : i \in V}
        /\ query'.read = query.read + Cardinality(UNION {{i} \X R[i] : i \in V})
        /\ IsFiniteSet(UNION {{i} \X R[i] : i \in V})
  BY BatchAdds
<1> DEFINE P == UNION {{i} \X R[i] : i \in V}
           new == UNION {EventsOf(R[i]) : i \in V}
<1>2. query.read \in Nat /\ GlobalMax \in Nat /\ query.found \in SUBSET Events
  BY QueryLimits DEF QueryLimits, Typed, QueryState
<1>3. IsFiniteSet(new) /\ Cardinality(new) <= Cardinality(P) /\ Cardinality(P) \in Nat
  <2> DEFINE g == [p \in P |-> p[2][1]]
  <2>1. {g[p] : p \in P} = new
    <3>1. ASSUME NEW p \in P PROVE g[p] \in new
      <4>1. PICK i \in V : p \in {i} \X R[i]
        OBVIOUS
      <4> QED BY <4>1 DEF EventsOf
    <3>2. ASSUME NEW e \in new PROVE \E p \in P : g[p] = e
      <4>1. PICK i \in V : e \in EventsOf(R[i])
        OBVIOUS
      <4>2. PICK r \in R[i] : e = r[1]
        BY <4>1 DEF EventsOf
      <4>3. <<i, r>> \in P
        OBVIOUS
      <4> QED BY <4>2, <4>3
    <3> HIDE DEF g, new, P
    <3> QED BY <3>1, <3>2
  <2>2. IsFiniteSet({g[p] : p \in P}) /\ Cardinality({g[p] : p \in P}) <= Cardinality(P)
    <3> HIDE DEF g, P
    <3>1. g = [p \in P |-> g[p]]
      BY DEF g
    <3>2. IsFiniteSet(P)
      BY <1>1 DEF P
    <3> QED BY <3>1, <3>2, ImageFinite
  <2> QED BY <1>1, <2>1, <2>2, FS_CardinalityType
<1>4. query.read + Cardinality(P) <= GlobalMax
  <2>1. Len(filters) \in Nat /\ V \in SUBSET (0..Len(filters)) /\ V # {}
    BY <1>1 DEF Typed, Usable, Batch, InBatch
  <2>2. PICK m \in V : \A v \in V : v <= m
    <3> HIDE DEF V
    <3> QED BY <2>1, Largest
  <2> DEFINE taken == Taken(R, m)
             last == {m} \X R[m]
             k == GlobalMax - query.read - Cardinality(taken)
  <2>3. P = taken \cup last
    <3>1. DOMAIN R = V /\ \A i \in V : i \in Nat
      BY <2>1
    <3>2. \A i \in V : i < m \/ i = m
      BY <2>2, <3>1
    <3> QED BY <3>1, <3>2 DEF Taken
  <2>4. IsFiniteSet(taken) /\ Cardinality(taken) \in Nat
    <3>1. IsFiniteSet(taken)
      BY <1>1, <2>3, FS_Subset
    <3> QED BY <3>1, FS_CardinalityType
  <2>5. /\ IsFiniteSet(last) /\ Cardinality(last) = Cardinality(R[m])
        /\ Cardinality(R[m]) \in Nat
    <3>1. IsFiniteSet({m}) /\ Cardinality({m}) = 1 /\ IsFiniteSet(R[m])
      BY <1>1, FS_Singleton
    <3>2. Cardinality(R[m]) \in Nat
      BY <3>1, FS_CardinalityType
    <3>3. IsFiniteSet(last) /\ Cardinality(last) = 1 * Cardinality(R[m])
      BY <3>1, FS_Product
    <3> QED BY <3>2, <3>3
  <2>6. Cardinality(R[m]) <= k
    <3>1. filters[m].limit \in Nat /\ FiniteFilter(filters[m])
      BY <1>1 DEF Typed, Usable, FiniteFilter, Filter
    <3>2. Cardinality(Rows(filters[m], stored)) \in Nat
      BY <3>1, RowsFinite, FS_CardinalityType DEF Typed
    <3>3. Cardinality(R[m]) = Smaller(Smaller(filters[m].limit, k), Cardinality(Rows(filters[m], stored)))
      BY <1>1 DEF Newest
    <3>4. k \in Int
      BY <1>2, <2>4
    <3> HIDE DEF k
    <3> QED BY <3>1, <3>2, <3>3, <3>4 DEF Smaller
  <2>7. k \in Nat
    <3> HIDE DEF taken
    <3> QED BY <1>2, <2>4, <2>5, <2>6
  <2>8. Cardinality(P) <= Cardinality(taken) + k
    <3>1. Cardinality(last) <= k /\ Cardinality(taken) <= Cardinality(taken)
      BY <2>4, <2>5, <2>6
    <3> HIDE DEF taken, last, k, P
    <3> QED BY <2>3, <2>4, <2>5, <2>7, <3>1, UnionBound
  <2> HIDE DEF taken, P
  <2> QED BY <1>2, <1>3, <2>4, <2>8
<1>5. Cardinality(query.found \cup new) <= query.read + Cardinality(P)
  <2>1. IsFiniteSet(query.found) /\ Cardinality(query.found) <= query.read
    BY <1>2, FoundFinite DEF Counted
  <2> HIDE DEF new, P
  <2> QED BY <1>2, <1>3, <2>1, UnionBound
<1> QED BY <1>1, <1>4, <1>5 DEF Counted

LEMMA ChunkCounts ==
    ASSUME Typed, Loops, Counted, Chunk
    PROVE  Counted'
<1>1. PICK new \in SUBSET stored, n \in Nat :
        /\ IsFiniteSet(new) /\ Cardinality(new) <= n /\ query.read + n <= GlobalMax
        /\ query'.found = query.found \cup new /\ query'.read = query.read + n
  BY ChunkAdds
<1>2. query.read \in Nat /\ IsFiniteSet(query.found) /\ Cardinality(query.found) <= query.read
  BY FoundFinite DEF Counted, Typed, QueryState
<1>3. Cardinality(query.found \cup new) <= query.read + n
  BY <1>1, <1>2, UnionBound
<1> QED BY <1>1, <1>3 DEF Counted

LEMMA CountedStep == IInv /\ Counted /\ [Next]_vars => Counted'
<1> SUFFICES ASSUME IInv, Counted, [Next]_vars PROVE Counted'
  OBVIOUS
<1> USE DEF IInv
<1>1. CASE query'.found = query.found /\ query'.read = query.read
  BY <1>1 DEF Counted
<1>2. CASE query'.found = {} /\ query'.read = 0
  <2>1. 0 <= GlobalMax
    BY QueryLimits DEF QueryLimits
  <2>2. Cardinality({}) = 0
    BY FS_EmptySet
  <2> QED BY <1>2, <2>1, <2>2 DEF Counted
<1>3. CASE Req
  <2>1. PICK fs \in Requests : Ask(Capped(fs))
    BY <1>3 DEF Req
  <2> QED BY <1>2, <2>1, CappedUsable, AskStarts
<1>4. CASE NextPage
  <2>1. PICK fs : Ask(fs)
    BY <1>4 DEF NextPage
  <2>2. query'.found = {} /\ query'.read = 0
    BY <2>1 DEF Ask, Idle
  <2> QED BY <1>2, <2>2
<1>5. CASE Chunk
  BY <1>5, ChunkCounts
<1>6. CASE ChunkFails
  <2>1. PICK i \in query.todo, d \in Dims : \E chunk : query' = NextChunk(i, d, chunk)
    BY <1>6 DEF ChunkFails
  <2> QED BY <1>1, <2>1 DEF NextChunk, Typed, QueryState
<1>7. CASE Precheck
  BY <1>1, <1>7 DEF Precheck, Typed, QueryState
<1>8. CASE Batch
  BY <1>8, BatchCounts
<1>9. CASE QueryFails
  BY <1>2, <1>9 DEF QueryFails, Idle
<1>10. CASE Answer \/ Save \/ Remove \/ UNCHANGED vars
  BY <1>1, <1>10 DEF Answer, Save, Remove, vars
<1> QED BY <1>3, <1>4, <1>5, <1>6, <1>7, <1>8, <1>9, <1>10 DEF Next

\* TypeOK, whatever the filters: the filters of a REQ go through one loop
\* each, and together they never read more than GLOBAL_MAX_EVENTS rows.
THEOREM TypeOKHolds == Spec => []TypeOK
<1>1. Init => Counted
  <2>1. 0 <= GlobalMax
    BY QueryLimits DEF QueryLimits
  <2>2. Cardinality({}) = 0
    BY FS_EmptySet
  <2> QED BY <2>1, <2>2 DEF Init, Idle, Counted
<1>2. IInv /\ Counted => TypeOK
  BY DEF IInv, Counted, Typed, Loops, QueryState, TypeOK
<1> QED BY <1>1, <1>2, CountedStep, IInvHolds, PTL DEF Spec

-----------------------------------------------------------------------------
(* Pages.                                                                  *)

\* What the client has is before the cursor, and what is found is after it.
Pages ==
    /\ phase = "asked" => \A e \in got : Len(filters) = 1 /\ ~AfterCursor(e, filters[1])
    /\ phase # "idle" /\ Len(filters) = 1 => \A e \in query.found : AfterCursor(e, filters[1])
    /\ phase = "answered" =>
        query.found \subseteq got /\ \A e \in got \ query.found : Len(filters) = 1 /\ ~AfterCursor(e, filters[1])

LEMMA OneFilter == Typed /\ Len(filters) = 1 => DOMAIN filters = {1}
<1> SUFFICES ASSUME Typed, Len(filters) = 1 PROVE DOMAIN filters = {1}
  OBVIOUS
<1>1. DOMAIN filters = 1..Len(filters)
  BY DEF Typed, Usable
<1> QED BY <1>1

\* The events of the pages so far are before the cursor of the next page.
LEMMA CursorMoves ==
    ASSUME NEW e \in Event, NEW last \in Event, NEW f \in Filter, NEW g \in Filter,
           g.cursor = [at |-> last.at, id |-> last.id],
           \/ ~AfterCursor(e, f) /\ AfterCursor(last, f)
           \/ last.at < e.at \/ (last.at = e.at /\ last.id >= e.id)
    PROVE  ~AfterCursor(e, g)
<1>1. /\ e.at \in Nat /\ e.id \in Nat /\ last.at \in Nat /\ last.id \in Nat /\ last.at # 0
      /\ f.cursor.at \in Nat /\ f.cursor.id \in Nat
      /\ g.cursor.at = last.at /\ g.cursor.id = last.id
  BY DEF Event, Filter
<1> QED BY <1>1 DEF AfterCursor

LEMMA PagesStep == IInv /\ Pages /\ [Next]_vars => Pages'
<1> SUFFICES ASSUME IInv, Pages, [Next]_vars PROVE Pages'
  OBVIOUS
<1> USE DEF IInv
<1>1. CASE /\ UNCHANGED <<filters, phase, got>> /\ phase = "asked"
           /\ Len(filters) = 1 => \A e \in query'.found \ query.found : AfterCursor(e, filters[1])
  BY <1>1 DEF Pages
<1>2. CASE UNCHANGED <<filters, phase, got>> /\ query'.found = query.found
  BY <1>2 DEF Pages
<1>3. CASE Req
  <2>1. PICK fs \in Requests : Ask(Capped(fs))
    BY <1>3 DEF Req
  <2>2. query'.found = {} /\ phase' = "asked" /\ got' = {}
    BY <1>3, <2>1, CappedUsable, AskStarts DEF Req
  <2> QED BY <2>2 DEF Pages
<1>4. CASE NextPage
  <2>1. PICK last \in query.found :
          /\ IsLast(last, query.found)
          /\ Ask([filters EXCEPT ![1].cursor = [at |-> last.at, id |-> last.id]])
    BY <1>4 DEF NextPage
  <2> DEFINE c == [at |-> last.at, id |-> last.id]
             fs == [filters EXCEPT ![1].cursor = c]
  <2>2. phase = "answered" /\ Len(filters) = 1 /\ got' = got
    BY <1>4 DEF NextPage
  <2>3. Events \subseteq Event /\ last \in Event /\ c \in [at : Nat, id : Nat] /\ got \subseteq Events /\ query.found \subseteq Events
    BY QueryData DEF QueryData, Typed, QueryState, Event
  <2>4. Usable(fs) /\ Len(fs) = 1 /\ fs[1].cursor = c
    <3>1. Usable(filters)
      BY DEF Typed
    <3>2. fs = [filters EXCEPT ![1].cursor = c]
      OBVIOUS
    <3> HIDE DEF fs, c
    <3>3. Len(filters) = 1 /\ c \in [at : Nat, id : Nat]
      BY <2>2, <2>3
    <3>4. Usable(fs)
      BY <3>1, <3>2, <3>3, CursorUsable
    <3>5. Len(fs) = 1
      BY <3>1, <3>2, <3>3, CursorUsable
    <3>6. fs[1].cursor = c
      BY <3>1, <3>2, <3>3, CursorUsable
    <3> QED BY <3>4, <3>5, <3>6
  <2>5. filters' = fs /\ phase' = "asked" /\ query'.found = {}
    BY <2>1, <2>4, AskStarts
  <2>6. fs[1] \in Filter /\ filters[1] \in Filter
    BY <2>2, <2>4, OneFilter DEF Typed, Usable, FiniteFilter
  <2>7. ASSUME NEW e \in got PROVE ~AfterCursor(e, fs[1])
    <3> HIDE DEF fs
    <3>1. CASE e \in query.found
      <4>1. last.at < e.at \/ (last.at = e.at /\ last.id >= e.id)
        BY <2>1, <3>1 DEF IsLast
      <4> QED BY <2>3, <2>4, <2>6, <4>1, CursorMoves
    <3>2. CASE e \notin query.found
      <4>1. ~AfterCursor(e, filters[1]) /\ AfterCursor(last, filters[1])
        BY <2>2, <3>2 DEF Pages
      <4> QED BY <2>3, <2>4, <2>6, <4>1, CursorMoves
    <3> QED BY <3>1, <3>2
  <2> HIDE DEF fs
  <2> QED BY <2>2, <2>4, <2>5, <2>7 DEF Pages
<1>5. CASE Chunk
  <2>1. PICK i \in query.todo, new \in SUBSET stored :
          /\ i \in DOMAIN filters /\ \A e \in new : AfterCursor(e, filters[i])
          /\ query'.found = query.found \cup new
    BY <1>5, ChunkAdds
  <2>2. Len(filters) = 1 => i = 1
    BY <2>1, OneFilter
  <2>3. UNCHANGED <<filters, phase, got>> /\ phase = "asked"
    BY <1>5 DEF Chunk, Waiting
  <2> QED BY <1>1, <2>1, <2>2, <2>3
<1>6. CASE ChunkFails
  <2>1. PICK i \in query.todo, d \in Dims : \E chunk : query' = NextChunk(i, d, chunk)
    BY <1>6 DEF ChunkFails
  <2>2. query'.found = query.found
    BY <2>1 DEF NextChunk, Typed, QueryState
  <2> QED BY <1>2, <1>6, <2>2 DEF ChunkFails
<1>7. CASE Precheck
  BY <1>2, <1>7 DEF Precheck, Typed, QueryState
<1>8. CASE Batch
  <2>1. PICK R \in [query.valid -> SUBSET UNION {Rows(filters[i], stored) : i \in query.valid}] :
          /\ \A i \in query.valid : i \in DOMAIN filters /\ \A r \in R[i] : AfterCursor(r[1], filters[i])
          /\ query'.found = query.found \cup UNION {EventsOf(R[i]) : i \in query.valid}
    BY <1>8, BatchAdds
  <2>2. ASSUME Len(filters) = 1, NEW e \in query'.found \ query.found PROVE AfterCursor(e, filters[1])
    <3>1. PICK i \in query.valid : e \in EventsOf(R[i])
      BY <2>1, <2>2
    <3>2. PICK r \in R[i] : e = r[1]
      BY <3>1 DEF EventsOf
    <3>3. i = 1
      BY <2>1, <2>2, OneFilter
    <3> QED BY <2>1, <3>2, <3>3
  <2>3. UNCHANGED <<filters, phase, got>> /\ phase = "asked"
    BY <1>8 DEF Batch, Waiting
  <2> QED BY <1>1, <2>2, <2>3
<1>9. CASE Answer
  BY <1>9 DEF Answer, Waiting, Pages
<1>10. CASE QueryFails
  BY <1>10 DEF QueryFails, Waiting, Idle, Pages
<1>11. CASE Save \/ Remove \/ UNCHANGED vars
  BY <1>2, <1>11 DEF Save, Remove, vars
<1> QED BY <1>3, <1>4, <1>5, <1>6, <1>7, <1>8, <1>9, <1>10, <1>11 DEF Next

LEMMA PagesHold == Spec => []Pages
<1>1. Init => Pages
  BY DEF Init, Idle, Pages
<1> QED BY <1>1, PagesStep, IInvHolds, PTL DEF Spec

\* NothingTwice, for any number of pages and whatever is saved and removed
\* between them: what comes after the cursor of one page was on none before.
THEOREM NothingTwiceHolds == Spec => NothingTwice
<1>1. IInv /\ Pages /\ [Next]_vars => [phase = "asked" /\ phase' = "answered" => query'.found \cap got = {}]_vars
  <2> SUFFICES ASSUME IInv, Pages, Next, phase = "asked", phase' = "answered" PROVE query'.found \cap got = {}
    BY DEF vars, history
  <2>1. CASE Answer
    BY <2>1 DEF Answer, Pages
  <2>2. CASE QueryFails
    BY <2>2 DEF QueryFails, Idle
  <2>3. ASSUME ~Answer, ~QueryFails PROVE FALSE
    BY <2>3 DEF Next, Req, Ask, NextPage, Chunk, ChunkFails, Precheck, Batch, Save, Remove
  <2> QED BY <2>1, <2>2, <2>3
<1> QED BY <1>1, IInvHolds, PagesHold, PTL DEF Spec, NothingTwice

-----------------------------------------------------------------------------
(* Paging to the end.                                                      *)

\* The requests PagesComplete is about: one filter, asked in one statement.
OneStatement ==
    Len(filters) = 1 /\ Simple(filters[1]) /\ Large(filters[1]) = {} /\ gaps = {}
Match(e) == MatchesFilter(e, filters[1])

\* Before its statement nothing is found; after it, what is not found is no
\* newer than what is.
Page ==
    /\ query.todo = {}
    /\ query.batch \cup query.valid # {} => query.found = {} /\ query.read = 0 /\ phase = "asked"
    /\ query.batch \cup query.valid = {} =>
        \A e \in kept \ query.found : Match(e) /\ AfterCursor(e, filters[1]) =>
            query.found # {} /\ \A d \in query.found : d.at >= e.at
\* What the client does not have is after the cursor, or of the second of another match.
Paged ==
    \A e \in stayed \ got : Match(e) =>
        AfterCursor(e, filters[1]) \/ \E d \in seen \ {e} : d.at = e.at /\ Match(d)
Paging ==
    phase # "idle" =>
        /\ query.found \subseteq seen
        /\ OneStatement => Page /\ Paged

\* Another cursor changes nothing else.
LEMMA OnlyCursorDiffers ==
    ASSUME NEW f, NEW g, g.arrays = f.arrays, g.since = f.since, g.until = f.until
    PROVE  /\ Simple(g) <=> Simple(f)
           /\ Large(g) = Large(f)
           /\ \A e : MatchesFilter(e, g) <=> MatchesFilter(e, f)
<1>1. TagValues(g) = TagValues(f)
  BY DEF TagValues
<1>2. QueryComplexity(g) = QueryComplexity(f)
  BY <1>1 DEF QueryComplexity
<1> QED BY <1>2 DEF Simple, Large, MatchesFilter, Meets

\* A batch of one filter leaves out nothing newer than what it finds.
LEMMA BatchOfOne ==
    ASSUME IInv, Batch, Paging, OneStatement
    PROVE  Page'
<1>1. /\ DOMAIN filters = {1} /\ query.valid = {1} /\ query.batch = {} /\ query.todo = {}
      /\ query.found = {} /\ query.read = 0
  <2>1. DOMAIN filters = {1}
    BY OneFilter DEF IInv, OneStatement
  <2>2. phase # "idle" /\ query.valid # {} /\ query.batch = {} /\ query.valid \subseteq DOMAIN filters
    BY DEF Batch, InBatch, Waiting, IInv, Loops
  <2>3. Page
    BY <2>2 DEF Paging
  <2> QED BY <2>1, <2>2, <2>3 DEF Page
<1>2. PICK R \in [query.valid -> SUBSET UNION {Rows(filters[i], stored) : i \in query.valid}] :
        /\ \A i \in query.valid :
            R[i] \in Newest(Rows(filters[i], stored),
                            Smaller(filters[i].limit, GlobalMax - query.read - Cardinality(Taken(R, i))))
        /\ query'.todo = query.todo /\ query'.batch = query.batch /\ query'.valid = {}
        /\ query'.found = query.found \cup UNION {EventsOf(R[i]) : i \in query.valid}
  BY BatchAdds DEF IInv
<1> DEFINE f == filters[1]
           rows == Rows(f, stored)
           k == Smaller(f.limit, GlobalMax)
<1>3. R[1] \in Newest(rows, k)
  <2>1. Taken(R, 1) = {}
    BY <1>1 DEF Taken
  <2>2. Cardinality(Taken(R, 1)) = 0
    BY <2>1, FS_EmptySet
  <2>3. GlobalMax \in Nat
    BY QueryLimits DEF QueryLimits
  <2>4. GlobalMax - query.read - Cardinality(Taken(R, 1)) = GlobalMax
    BY <1>1, <2>2, <2>3
  <2> QED BY <1>1, <1>2, <2>4
<1>4. FiniteFilter(f) /\ k \in Nat /\ k >= 1
  <2>1. FiniteFilter(f) /\ f.limit >= 1
    BY <1>1 DEF IInv, Typed, Usable
  <2>2. f.limit \in Nat
    BY <2>1 DEF FiniteFilter, Filter
  <2>3. GlobalMax \in Nat /\ GlobalMax # 0
    BY QueryLimits DEF QueryLimits
  <2> QED BY <2>1, <2>2, <2>3 DEF Smaller
<1>5. IsFiniteSet(rows)
  BY <1>4, RowsFinite DEF IInv, Typed
<1>6. /\ \A r \in R[1], q \in rows \ R[1] : r[1].at >= q[1].at
      /\ rows # {} => R[1] # {}
  <2> HIDE DEF rows, k
  <2> QED BY <1>3, <1>4, <1>5, NewestFacts
<1>7. query'.found = EventsOf(R[1])
  BY <1>1, <1>2
<1>8. UNCHANGED <<filters, phase, kept>>
  BY DEF Batch, history
<1>9. ASSUME NEW e \in kept \ query'.found, Match(e), AfterCursor(e, f)
      PROVE  query'.found # {} /\ \A d \in query'.found : d.at >= e.at
  <2>1. e \in stored
    BY DEF IInv, Typed
  <2>2. PICK q \in rows : q[1] = e
    BY <1>9, <2>1, RowsComplete DEF Match
  <2>3. q \notin R[1]
    BY <1>7, <1>9, <2>2 DEF EventsOf
  <2>4. query'.found # {}
    <3>1. PICK r \in R[1] : TRUE
      <4> HIDE DEF rows
      <4> QED BY <1>6, <2>2
    <3>2. r[1] \in EventsOf(R[1])
      BY DEF EventsOf
    <3> QED BY <1>7, <3>2
  <2>5. ASSUME NEW d \in query'.found PROVE d.at >= e.at
    <3>1. PICK r \in R[1] : d = r[1]
      BY <1>7 DEF EventsOf
    <3> HIDE DEF rows
    <3> QED BY <1>6, <2>2, <2>3, <3>1
  <2> QED BY <2>4, <2>5
<1>10. query'.todo = {} /\ query'.batch \cup query'.valid = {}
  BY <1>1, <1>2
<1> QED BY <1>8, <1>9, <1>10 DEF Page, Match

\* The next page: the last event is no newer than what was not found.
LEMMA PagedGoesOn ==
    ASSUME IInv, Pages, Paging, NextPage, OneStatement', stayed \subseteq kept
    PROVE  Paged'
<1>1. PICK last \in query.found :
        /\ IsLast(last, query.found)
        /\ Ask([filters EXCEPT ![1].cursor = [at |-> last.at, id |-> last.id]])
  BY DEF NextPage
<1> DEFINE c == [at |-> last.at, id |-> last.id]
           fs == [filters EXCEPT ![1].cursor = c]
           f == filters[1]
           g == fs[1]
<1>2. phase = "answered" /\ Len(filters) = 1 /\ UNCHANGED <<got, stayed, seen, gaps>>
  BY DEF NextPage
<1>3. /\ Events \subseteq Event /\ last \in Event /\ c \in [at : Nat, id : Nat]
      /\ got \subseteq Events /\ query.found \subseteq Events /\ stayed \subseteq Events
  BY QueryData DEF QueryData, IInv, Typed, QueryState, Event
<1>4. filters' = fs
  BY <1>1 DEF Ask
<1>5. g.arrays = f.arrays /\ g.since = f.since /\ g.until = f.until /\ g.cursor = c
  <2>1. Usable(filters) /\ fs = [filters EXCEPT ![1].cursor = c]
    BY DEF IInv, Typed
  <2> HIDE DEF c, fs
  <2>2. Len(filters) = 1 /\ c \in [at : Nat, id : Nat]
    BY <1>2, <1>3
  <2>3. fs[1].arrays = filters[1].arrays
    BY <2>1, <2>2, CursorUsable
  <2>4. fs[1].since = filters[1].since
    BY <2>1, <2>2, CursorUsable
  <2>5. fs[1].until = filters[1].until
    BY <2>1, <2>2, CursorUsable
  <2>6. fs[1].cursor = c
    BY <2>1, <2>2, CursorUsable
  <2> QED BY <2>3, <2>4, <2>5, <2>6
<1>6. (Simple(g) <=> Simple(f)) /\ Large(g) = Large(f) /\ \A e : MatchesFilter(e, g) <=> MatchesFilter(e, f)
  <2> HIDE DEF f, g
  <2> QED BY <1>5, OnlyCursorDiffers
<1>7. OneStatement
  BY <1>2, <1>4, <1>6 DEF OneStatement
<1>8. Page /\ Paged /\ query.found \subseteq seen /\ query.found \subseteq got
  BY <1>2, <1>7 DEF Paging, Pages
<1>9. \A d \in query.found : MatchesFilter(d, f)
  BY <1>2, OneFilter DEF IInv, FoundMatches
<1>10. ASSUME NEW e \in stayed \ got, MatchesFilter(e, g)
       PROVE  AfterCursor(e, g) \/ \E d \in seen \ {e} : d.at = e.at /\ MatchesFilter(d, g)
  <2>1. MatchesFilter(e, f)
    BY <1>6, <1>10
  <2>2. CASE \E d \in seen \ {e} : d.at = e.at /\ MatchesFilter(d, f)
    BY <1>6, <2>2
  <2>3. CASE AfterCursor(e, f)
    <3>1. e \in kept \ query.found
      BY <1>8
    <3>2. query.batch \cup query.valid = {}
      BY <1>2, <1>8 DEF Page
    <3>3. last.at >= e.at
      BY <1>8, <2>1, <2>3, <3>1, <3>2 DEF Page, Match
    <3>4. last.at \in Nat /\ e.at \in Nat /\ last # e /\ last \in seen /\ MatchesFilter(last, g)
      BY <1>3, <1>6, <1>8, <1>9, <3>1 DEF Event
    <3>5. CASE last.at = e.at
      BY <3>4, <3>5
    <3>6. CASE last.at # e.at
      <4>1. e.at < c.at
        BY <3>3, <3>4, <3>6
      <4> HIDE DEF c, fs
      <4> QED BY <1>5, <4>1 DEF AfterCursor
    <3> QED BY <3>5, <3>6
  <2> QED BY <1>8, <2>1, <2>2, <2>3 DEF Paged, Match
<1> HIDE DEF fs
<1> QED BY <1>2, <1>4, <1>10 DEF Paged, Match

LEMMA PagingStep == IInv /\ Pages /\ Paging /\ [Next]_vars => Paging'
<1> SUFFICES ASSUME IInv, Pages, Paging, [Next]_vars PROVE Paging'
  OBVIOUS
<1>0. stayed \subseteq kept /\ kept \subseteq stored /\ (phase # "idle" => stored \subseteq seen)
  BY DEF IInv, Typed
<1>1. CASE Req
  <2>1. PICK fs \in Requests : Ask(Capped(fs))
    BY <1>1 DEF Req
  <2>2. Usable(Capped(fs)) /\ DOMAIN Capped(fs) = DOMAIN fs /\ \A i \in DOMAIN fs : Capped(fs)[i].cursor.at = 0
    BY CappedUsable
  <2> DEFINE gs == Capped(fs)
  <2>3. /\ filters' = gs /\ query'.found = {} /\ query'.read = 0 /\ query'.valid = {} /\ phase' = "asked"
        /\ query'.todo = {i \in DOMAIN gs : Simple(gs[i]) /\ Large(gs[i]) # {}}
        /\ query'.batch = {i \in DOMAIN gs : Simple(gs[i]) /\ Large(gs[i]) = {}}
    BY <2>1, <2>2, AskStarts DEF IInv
  <2>4. OneStatement' => DOMAIN gs = {1} /\ Simple(gs[1]) /\ Large(gs[1]) = {}
    <3> SUFFICES ASSUME OneStatement' PROVE DOMAIN gs = {1} /\ Simple(gs[1]) /\ Large(gs[1]) = {}
      OBVIOUS
    <3>1. Len(gs) = 1 /\ DOMAIN gs = 1..Len(gs)
      BY <2>2, <2>3 DEF OneStatement, Usable
    <3>2. Simple(gs[1]) /\ Large(gs[1]) = {}
      BY <2>3 DEF OneStatement
    <3> HIDE DEF gs
    <3> QED BY <3>1, <3>2
  <2>5. OneStatement' => Page'
    <3> HIDE DEF gs
    <3> SUFFICES ASSUME OneStatement' PROVE Page'
      OBVIOUS
    <3>1. query'.todo = {} /\ query'.batch = {1}
      BY <2>3, <2>4
    <3> QED BY <2>3, <3>1 DEF Page
  <2>6. OneStatement' => Paged'
    <3> SUFFICES ASSUME OneStatement' PROVE Paged'
      OBVIOUS
    <3>1. gs[1].cursor.at = 0
      BY <2>2, <2>4
    <3> HIDE DEF gs
    <3> QED BY <2>3, <3>1 DEF Paged, AfterCursor
  <2> QED BY <2>3, <2>5, <2>6 DEF Paging
<1>2. CASE NextPage
  <2>1. PICK last \in query.found : Ask([filters EXCEPT ![1].cursor = [at |-> last.at, id |-> last.id]])
    BY <1>2 DEF NextPage
  <2> DEFINE gs == [filters EXCEPT ![1].cursor = [at |-> last.at, id |-> last.id]]
  <2>2. Usable(gs) /\ DOMAIN gs = DOMAIN filters
    <3>1. [at |-> last.at, id |-> last.id] \in [at : Nat, id : Nat]
      BY QueryData DEF QueryData, IInv, Typed, QueryState, Event
    <3> QED BY <1>2, <3>1, CursorUsable DEF NextPage, IInv, Typed
  <2>3. /\ filters' = gs /\ query'.found = {} /\ query'.read = 0 /\ query'.valid = {} /\ phase' = "asked"
        /\ query'.todo = {i \in DOMAIN gs : Simple(gs[i]) /\ Large(gs[i]) # {}}
        /\ query'.batch = {i \in DOMAIN gs : Simple(gs[i]) /\ Large(gs[i]) = {}}
    BY <2>1, <2>2, AskStarts DEF IInv
  <2>4. DOMAIN gs = {1}
    <3> HIDE DEF gs
    <3> QED BY <1>2, <2>2, OneFilter DEF NextPage, IInv
  <2>5. OneStatement' => Page'
    <3> SUFFICES ASSUME OneStatement' PROVE Page'
      OBVIOUS
    <3> HIDE DEF gs
    <3>1. Simple(gs[1]) /\ Large(gs[1]) = {}
      BY <2>3 DEF OneStatement
    <3>2. query'.todo = {} /\ query'.batch = {1}
      BY <2>3, <2>4, <3>1
    <3> QED BY <2>3, <3>2 DEF Page
  <2>6. OneStatement' => Paged'
    BY <1>0, <1>2, PagedGoesOn
  <2> QED BY <2>3, <2>5, <2>6 DEF Paging
<1>3. ASSUME UNCHANGED <<stored, filters, phase, got, kept, stayed, seen>>, gaps \subseteq gaps',
             phase # "idle", query'.found \subseteq query.found \cup stored,
             OneStatement /\ gaps' = gaps => Page'
      PROVE  Paging'
  <2>1. OneStatement' => OneStatement /\ gaps' = gaps
    BY <1>3 DEF OneStatement
  <2>2. OneStatement' => Page' /\ Paged'
    BY <1>3, <2>1 DEF Paging, Paged, Match
  <2> QED BY <1>0, <1>3, <2>2 DEF Paging
<1>4. CASE Chunk
  <2>1. PICK i \in query.todo, new \in SUBSET stored : query'.found = query.found \cup new
    BY <1>4, ChunkAdds DEF IInv
  <2>2. phase # "idle" /\ query.todo # {}
    BY <2>1, <1>4 DEF Chunk, Waiting
  <2>3. ~OneStatement
    BY <2>2 DEF Paging, Page
  <2> QED BY <1>3, <1>4, <2>1, <2>2, <2>3 DEF Chunk, history
<1>5. CASE ChunkFails
  <2>1. PICK i \in query.todo, d \in Dims : \E chunk : query' = NextChunk(i, d, chunk)
    BY <1>5 DEF ChunkFails
  <2>2. query'.found = query.found
    BY <2>1 DEF NextChunk, IInv, Typed, QueryState
  <2>3. phase # "idle" /\ query.todo # {}
    BY <2>1, <1>5 DEF ChunkFails, Waiting
  <2>4. ~OneStatement
    BY <2>3 DEF Paging, Page
  <2>5. gaps \subseteq gaps'
    BY <1>5 DEF ChunkFails
  <2> QED BY <1>3, <1>5, <2>2, <2>3, <2>4, <2>5 DEF ChunkFails
<1>6. CASE Precheck
  <2>1. PICK i \in query.batch :
          \/ query' = [query EXCEPT !.batch = @ \ {i}, !.valid = @ \cup {i}] /\ gaps' = gaps
          \/ query' = [query EXCEPT !.batch = @ \ {i}] /\ gaps' = gaps \cup {i}
    BY <1>6 DEF Precheck
  <2>2. query'.found = query.found /\ query'.read = query.read /\ query'.todo = query.todo /\ phase = "asked"
    BY <1>6, <2>1 DEF Precheck, Waiting, IInv, Typed, QueryState
  <2>3. ASSUME OneStatement, gaps' = gaps PROVE Page'
    <3>1. gaps = {}
      BY <2>3 DEF OneStatement
    <3>2. query' = [query EXCEPT !.batch = @ \ {i}, !.valid = @ \cup {i}]
      BY <2>1, <2>3, <3>1
    <3>3. query'.valid = query.valid \cup {i}
      BY <3>2 DEF IInv, Typed, QueryState
    <3>4. Page
      BY <2>2, <2>3 DEF Paging
    <3>5. query.found = {} /\ query.read = 0 /\ query.todo = {}
      BY <3>4 DEF Page
    <3>6. phase' = "asked"
      BY <1>6, <2>2 DEF Precheck
    <3> QED BY <2>2, <3>3, <3>5, <3>6 DEF Page
  <2>4. gaps \subseteq gaps'
    BY <2>1
  <2> QED BY <1>3, <1>6, <2>2, <2>3, <2>4 DEF Precheck
<1>7. CASE Batch
  <2>1. PICK R \in [query.valid -> SUBSET UNION {Rows(filters[i], stored) : i \in query.valid}] :
          /\ \A i \in query.valid : \A r \in R[i] : r[1] \in stored
          /\ query'.found = query.found \cup UNION {EventsOf(R[i]) : i \in query.valid}
    BY <1>7, BatchAdds DEF IInv
  <2>2. query'.found \subseteq query.found \cup stored
    BY <2>1 DEF EventsOf
  <2>3. OneStatement => Page'
    BY <1>7, BatchOfOne
  <2> QED BY <1>3, <1>7, <2>2, <2>3 DEF Batch, Waiting, history
<1>8. CASE Answer
  <2>1. phase = "asked" /\ UNCHANGED <<stored, filters, query, kept, stayed, seen, gaps>> /\ got \subseteq got'
    BY <1>8 DEF Answer, Waiting, history
  <2>2. ASSUME OneStatement PROVE Page' /\ Paged'
    <3>1. Page /\ Paged
      BY <2>1, <2>2 DEF Paging
    <3>2. ~(query.read >= GlobalMax /\ query.read = 0)
      BY QueryLimits DEF QueryLimits
    <3>3. query.batch \cup query.valid = {}
      BY <1>8, <3>1, <3>2 DEF Answer, InChunks, InCounts, InBatch, Full, Page
    <3>4. Page'
      BY <2>1, <3>1, <3>3 DEF Page, Match
    <3>5. Paged'
      BY <2>1, <3>1 DEF Paged, Match
    <3> QED BY <3>4, <3>5
  <2>3. OneStatement' => OneStatement
    BY <2>1 DEF OneStatement
  <2> QED BY <2>1, <2>2, <2>3 DEF Paging
<1>9. CASE QueryFails
  <2>1. query'.found = {} /\ gaps' = DOMAIN filters /\ filters' = filters
    BY <1>9 DEF QueryFails, Idle
  <2>2. ~OneStatement'
    <3> SUFFICES ASSUME OneStatement' PROVE FALSE
      OBVIOUS
    <3>1. Len(filters) = 1 /\ DOMAIN filters = {}
      BY <2>1 DEF OneStatement
    <3> QED BY <3>1, OneFilter DEF IInv
  <2> QED BY <2>1, <2>2 DEF Paging
<1>10. CASE Save
  BY <1>10 DEF Save, Paging, Page, Paged, OneStatement, Match
<1>11. CASE Remove
  BY <1>11 DEF Remove, Paging, Page, Paged, OneStatement, Match
<1>12. CASE UNCHANGED vars
  BY <1>12 DEF vars, history, Paging, Page, Paged, OneStatement, Match
<1> QED BY <1>1, <1>2, <1>4, <1>5, <1>6, <1>7, <1>8, <1>9, <1>10, <1>11, <1>12 DEF Next

\* PagesComplete, for any events, filters, limits and number of pages, and
\* whatever is saved and removed in between: only a second shared by two
\* matches can hide an event from a client that pages by the last event.
THEOREM PagesCompleteHolds == Spec => []PagesComplete
<1>1. Init => Paging
  BY DEF Init, Paging
<1>2. IInv /\ Pages /\ Paging => PagesComplete
  <2> SUFFICES ASSUME IInv, Paging, phase = "answered", Len(filters) = 1, query.found = {}, gaps = {},
                      NEW e \in stayed \ got, MatchesFilter(e, filters[1]), Simple(filters[1]), Large(filters[1]) = {}
               PROVE  \E d \in seen \ {e} : d.at = e.at /\ MatchesFilter(d, filters[1])
    BY DEF PagesComplete
  <2>1. Page /\ Paged
    BY DEF Paging, OneStatement
  <2>2. ~AfterCursor(e, filters[1])
    <3>1. e \in kept \ query.found
      BY DEF IInv, Typed
    <3>2. query.batch \cup query.valid = {}
      BY <2>1 DEF Page
    <3> QED BY <2>1, <3>1, <3>2 DEF Page, Match
  <2> QED BY <2>1, <2>2 DEF Paged, Match
<1> QED BY <1>1, <1>2, PagingStep, IInvHolds, PagesHold, PTL DEF Spec

-----------------------------------------------------------------------------
(* What a statement leaves out.                                            *)

\* The rows of an event do not depend on which other events there are.
LEMMA RowsWithin ==
    ASSUME NEW f, NEW S, NEW F, NEW r \in Rows(f, S), r[1] \in F
    PROVE  r \in Rows(f, F)
<1>1. CASE TagFilters(f) \subseteq DirectTags
  BY <1>1 DEF Rows
<1>2. CASE ~(TagFilters(f) \subseteq DirectTags) /\ \E n \in TagNames : TagFilters(f) = {n}
  BY <1>2 DEF Rows
<1>3. CASE ~(TagFilters(f) \subseteq DirectTags) /\ ~\E n \in TagNames : TagFilters(f) = {n}
  BY <1>3 DEF Rows
<1> QED BY <1>1, <1>2, <1>3

\* A filter that differs in its ids alone, and asks for fewer, has fewer rows.
LEMMA FewerIds ==
    ASSUME NEW f, NEW g, f.arrays["ids"] # {}, g.arrays["ids"] # {}, g.arrays["ids"] \subseteq f.arrays["ids"],
           \A d \in Dims \ {"ids"} : g.arrays[d] = f.arrays[d],
           g.since = f.since, g.until = f.until, g.cursor = f.cursor
    PROVE  /\ \A S : Rows(g, S) \subseteq Rows(f, S)
           /\ \A e : /\ MatchesFilter(e, f) /\ AfterCursor(e, f)
                     /\ g.arrays["ids"] \cap e.has["ids"] # {}
                     => MatchesFilter(e, g) /\ AfterCursor(e, g)
<1>1. \A n \in TagNames : n \in Dims \ {"ids"}
  BY QueryData DEF QueryData, Dims, Columns
<1>2. TagFilters(g) = TagFilters(f) /\ \A n \in TagNames : g.arrays[n] = f.arrays[n]
  BY <1>1 DEF TagFilters
<1>3. ASSUME NEW e, Where(e, g) PROVE Where(e, f)
  <2>1. Meets(e, f, Columns)
    <3> SUFFICES ASSUME NEW d \in Columns PROVE f.arrays[d] = {} \/ f.arrays[d] \cap e.has[d] # {}
      BY DEF Meets
    <3>1. g.arrays[d] = {} \/ g.arrays[d] \cap e.has[d] # {}
      BY <1>3 DEF Where, Meets
    <3>2. CASE d = "ids"
      BY <3>1, <3>2
    <3>3. CASE d # "ids"
      BY <3>1, <3>3 DEF Dims
    <3> QED BY <3>2, <3>3
  <2> QED BY <1>3, <2>1 DEF Where, InWindow, AfterCursor
<1>4. ASSUME NEW S, NEW r \in Rows(g, S) PROVE r \in Rows(f, S)
  <2>1. CASE TagFilters(f) \subseteq DirectTags
    BY <1>2, <1>3, <2>1 DEF Rows, Meets
  <2>2. CASE ~(TagFilters(f) \subseteq DirectTags) /\ \E n \in TagNames : TagFilters(f) = {n}
    <3> PICK n \in TagNames : TagFilters(f) = {n}
      BY <2>2
    <3>1. /\ r \in {e \in S : Where(e, g)} \X UNION {g.arrays[m] : m \in TagNames}
          /\ r[2] \in r[1].has[n]
      BY <1>2, <2>2 DEF Rows
    <3>2. r \in {e \in S : Where(e, f)} \X UNION {f.arrays[m] : m \in TagNames}
      BY <1>2, <1>3, <3>1
    <3> QED BY <2>2, <3>1, <3>2 DEF Rows
  <2>3. CASE ~(TagFilters(f) \subseteq DirectTags) /\ ~\E n \in TagNames : TagFilters(f) = {n}
    <3>1. r \in {e \in S : HasEveryTag(e, g, Where(e, g))} \X {0}
      BY <1>2, <2>3 DEF Rows
    <3> PICK e \in S : r = <<e, 0>> /\ HasEveryTag(e, g, Where(e, g))
      BY <3>1
    <3>2. PICK last \in TagFilters(f) \ DirectTags :
            {n \in TagFilters(f) : f.arrays[n] \cap e.has[n] # {} /\ (n = last => Where(e, g))} = TagFilters(f)
      BY <1>2 DEF HasEveryTag, TagFilters
    <3>3. {n \in TagFilters(f) : f.arrays[n] \cap e.has[n] # {} /\ (n = last => Where(e, f))} = TagFilters(f)
      BY <1>3, <3>2
    <3>4. HasEveryTag(e, f, Where(e, f))
      BY <3>3 DEF HasEveryTag
    <3> QED BY <2>3, <3>4 DEF Rows
  <2> QED BY <2>1, <2>2, <2>3
<1>5. ASSUME NEW e, MatchesFilter(e, f), AfterCursor(e, f), g.arrays["ids"] \cap e.has["ids"] # {}
      PROVE  MatchesFilter(e, g) /\ AfterCursor(e, g)
  <2>1. Meets(e, g, Dims)
    <3> SUFFICES ASSUME NEW d \in Dims PROVE g.arrays[d] = {} \/ g.arrays[d] \cap e.has[d] # {}
      BY DEF Meets
    <3>1. CASE d = "ids"
      BY <1>5, <3>1
    <3>2. CASE d # "ids"
      BY <1>5, <3>2 DEF MatchesFilter, Meets
    <3> QED BY <3>1, <3>2
  <2> QED BY <1>5, <2>1 DEF MatchesFilter, AfterCursor
<1> QED BY <1>4, <1>5

\* As many rows as the limit allows, all of events at least as new.
Crowded(f, F, e) == Cardinality({r \in Rows(f, F) : r[1].at >= e.at}) >= f.limit

LEMMA CrowdFinite ==
    ASSUME NEW f, FiniteFilter(f), NEW F \in SUBSET Events, NEW e
    PROVE  LET C == {r \in Rows(f, F) : r[1].at >= e.at} IN IsFiniteSet(C) /\ Cardinality(C) \in Nat
<1> DEFINE C == {r \in Rows(f, F) : r[1].at >= e.at}
<1>1. IsFiniteSet(Rows(f, F)) /\ C \subseteq Rows(f, F)
  BY RowsFinite
<1>2. IsFiniteSet(C)
  BY <1>1, FS_Subset
<1> QED BY <1>2, FS_CardinalityType

LEMMA CrowdGrows ==
    ASSUME NEW f, FiniteFilter(f), NEW G \in SUBSET Events, NEW F \in SUBSET G, NEW e, Crowded(f, F, e)
    PROVE  Crowded(f, G, e)
<1> DEFINE C(H) == {r \in Rows(f, H) : r[1].at >= e.at}
<1>1. C(F) \subseteq C(G)
  <2> SUFFICES ASSUME NEW r \in C(F) PROVE r \in Rows(f, G)
    OBVIOUS
  <2>1. r[1] \in F
    BY RowsSound
  <2> QED BY <2>1, RowsWithin
<1>2. IsFiniteSet(C(G)) /\ Cardinality(C(G)) \in Nat /\ Cardinality(C(F)) \in Nat
  BY CrowdFinite
<1>3. Cardinality(C(F)) <= Cardinality(C(G))
  BY <1>1, <1>2, FS_Subset
<1>4. f.limit \in Nat
  BY DEF FiniteFilter, Filter
<1> HIDE DEF C
<1>5. Cardinality(C(G)) >= f.limit
  BY <1>2, <1>3, <1>4 DEF Crowded, C
<1> QED BY <1>5 DEF Crowded, C

\* An event a statement leaves out: the statement had all the rows it may
\* have, of events at least as new.
LEMMA LeftOut ==
    ASSUME NEW f, FiniteFilter(f), NEW g, FiniteFilter(g), \A S : Rows(g, S) \subseteq Rows(f, S),
           NEW S \in SUBSET Events, NEW k \in Nat, NEW R \in Newest(Rows(g, S), k),
           NEW F \in SUBSET Events, EventsOf(R) \subseteq F,
           NEW e \in S, MatchesFilter(e, g), AfterCursor(e, g), e \notin EventsOf(R)
    PROVE  /\ Cardinality(R) = k /\ IsFiniteSet(R)
           /\ k >= f.limit => Crowded(f, F, e)
<1> DEFINE rows == Rows(g, S)
<1>1. IsFiniteSet(rows)
  BY RowsFinite
<1>2. /\ R \subseteq rows /\ IsFiniteSet(R) /\ Cardinality(R) \in Nat
      /\ \A r \in R, q \in rows \ R : r[1].at >= q[1].at
  <2> HIDE DEF rows
  <2>1. R \in Newest(rows, k)
    BY DEF rows
  <2> QED BY <1>1, <2>1, NewestFacts
<1> PICK q \in rows : q[1] = e
  BY RowsComplete
<1>3. q \notin R
  BY DEF EventsOf
<1>4. Cardinality(R) = k
  <2>1. Cardinality(R) = Smaller(k, Cardinality(rows)) /\ Cardinality(rows) \in Nat
    BY <1>1, FS_CardinalityType DEF Newest
  <2>2. Cardinality(R) # Cardinality(rows)
    BY <1>1, <1>2, <1>3, FS_Subset
  <2> HIDE DEF rows
  <2> QED BY <2>1, <2>2 DEF Smaller
<1>5. ASSUME k >= f.limit PROVE Crowded(f, F, e)
  <2> DEFINE C == {r \in Rows(f, F) : r[1].at >= e.at}
  <2>1. ASSUME NEW r \in R PROVE r \in C
    <3>1. r \in Rows(f, S) /\ r[1] \in F /\ r[1].at >= e.at
      BY <1>2, <1>3 DEF EventsOf
    <3> QED BY <3>1, RowsWithin
  <2>2. IsFiniteSet(C) /\ Cardinality(C) \in Nat
    BY CrowdFinite
  <2>3. R \subseteq C
    BY <2>1
  <2> HIDE DEF C
  <2>4. k <= Cardinality(C)
    BY <1>4, <2>2, <2>3, FS_Subset
  <2>5. f.limit \in Nat
    BY DEF FiniteFilter, Filter
  <2>6. Cardinality(C) >= f.limit
    BY <1>5, <2>2, <2>4, <2>5
  <2> QED BY <2>6 DEF Crowded, C
<1> QED BY <1>2, <1>4, <1>5

\* A filter still to be read: not all of it, or not the ids asked for so far.
Unread(i, e) ==
    /\ i \in query.todo \cup query.batch \cup query.valid
    /\ First(i, query.todo) => e.id \notin query.asked["ids"]
\* NothingMissed, at every statement of queryEvents.
Complete ==
    \A e \in kept \ query.found, i \in DOMAIN filters \ gaps :
        MatchesFilter(e, filters[i]) /\ AfterCursor(e, filters[i]) /\ Simple(filters[i]) =>
            Unread(i, e) \/ Full \/ Crowded(filters[i], query.found, e)
AllRead == phase = "answered" => Full \/ query.todo \cup query.batch \cup query.valid = {}

\* After a chunk: more of the filter, or the next filter.
LEMMA ChunkMoves ==
    ASSUME Typed, Loops, NEW i \in query.todo, NEW chunk \in SUBSET Nat,
           NEW next, next = NextChunk(i, "ids", chunk)
    PROVE  \/ next.todo = query.todo /\ next.asked["ids"] = query.asked["ids"] \cup chunk
           \/ /\ next.todo = query.todo \ {i} /\ next.asked["ids"] = {}
              /\ chunk = Unasked(filters[i], "ids")
<1>1. PICK more \in BOOLEAN :
        /\ next = IF more THEN [query EXCEPT !.asked["ids"] = @ \cup chunk]
                          ELSE [query EXCEPT !.todo = @ \ {i}, !.asked = Nothing, !.rows = {}]
        /\ ~more => chunk = Unasked(filters[i], "ids")
  BY Zenon DEF NextChunk
<1>2. query \in QueryState /\ query.asked \in [Dims -> SUBSET Nat] /\ "ids" \in Dims
  BY DEF Typed, QueryState, Dims, Columns
<1>3. CASE more
  <2> DEFINE a == [query.asked EXCEPT !["ids"] = @ \cup chunk]
  <2>1. a["ids"] = query.asked["ids"] \cup chunk
    BY <1>2
  <2>2. next = [query EXCEPT !.asked = a]
    BY <1>1, <1>3
  <2> HIDE DEF a
  <2>3. next.todo = query.todo /\ next.asked = a
    BY <1>2, <2>2 DEF QueryState
  <2> QED BY <2>1, <2>3
<1>4. CASE ~more
  <2>1. next = [query EXCEPT !.todo = query.todo \ {i}, !.asked = Nothing, !.rows = {}]
    BY <1>1, <1>4
  <2>2. next.todo = query.todo \ {i} /\ next.asked = Nothing
    BY <1>2, <2>1 DEF QueryState
  <2> QED BY <1>1, <1>2, <1>4, <2>2 DEF Nothing
<1> QED BY <1>3, <1>4

\* What a chunk of ids is asked for is found, or there is no room for it.
ChunkRead(i, chunk, new, n) ==
    /\ First(i, query.todo) /\ i \in DOMAIN filters
    /\ query'.found = query.found \cup new /\ query'.read = query.read + n
    /\ query'.batch = query.batch /\ query'.valid = query.valid
    /\ query'.todo = NextChunk(i, "ids", chunk).todo /\ query'.asked = NextChunk(i, "ids", chunk).asked
    /\ chunk \subseteq Unasked(filters[i], "ids")
    /\ \A e \in stored \ query'.found :
         /\ chunk \cap e.has["ids"] # {} /\ MatchesFilter(e, filters[i]) /\ AfterCursor(e, filters[i])
         => query'.read >= GlobalMax \/ Crowded(filters[i], query'.found, e)

LEMMA ChunkReads ==
    ASSUME Typed, Loops, Chunk
    PROVE  \E i \in query.todo, chunk \in SUBSET Nat, new \in SUBSET stored, n \in Nat : ChunkRead(i, chunk, new, n)
<1>0. query \in QueryState /\ query.read \in Nat /\ GlobalMax \in Nat /\ ~Full
  <2>1. GlobalMax \in Nat
    BY QueryLimits DEF QueryLimits
  <2>2. query \in QueryState /\ query.read \in Nat
    BY DEF Typed, QueryState
  <2>3. ~Full
    BY DEF Chunk, InChunks
  <2> QED BY <2>1, <2>2, <2>3
<1>1. PICK i \in query.todo, d \in Dims :
        /\ First(i, query.todo) /\ Unasked(filters[i], d) # {}
        /\ \E chunk \in SUBSET Unasked(filters[i], d) :
            /\ Cardinality(chunk) = Smaller(ChunkSize, Cardinality(Unasked(filters[i], d)))
            /\ \E R \in Newest(Rows([BaseFilter(filters[i]) EXCEPT !.arrays[d] = chunk], stored), filters[i].limit) :
               \E T \in Newest((EventsOf(R) \ query.rows) \X {0}, GlobalMax - query.read) :
                 query' = [NextChunk(i, d, chunk) EXCEPT
                             !.found = @ \cup EventsOf(T), !.read = @ + Cardinality(T),
                             !.rows = IF i \in NextChunk(i, d, chunk).todo THEN @ \cup EventsOf(T) ELSE {}]
  BY DEF Chunk
<1>2. PICK chunk \in SUBSET Unasked(filters[i], d) :
        /\ Cardinality(chunk) = Smaller(ChunkSize, Cardinality(Unasked(filters[i], d)))
        /\ \E R \in Newest(Rows([BaseFilter(filters[i]) EXCEPT !.arrays[d] = chunk], stored), filters[i].limit) :
           \E T \in Newest((EventsOf(R) \ query.rows) \X {0}, GlobalMax - query.read) :
             query' = [NextChunk(i, d, chunk) EXCEPT
                         !.found = @ \cup EventsOf(T), !.read = @ + Cardinality(T),
                         !.rows = IF i \in NextChunk(i, d, chunk).todo THEN @ \cup EventsOf(T) ELSE {}]
  BY <1>1
<1> DEFINE f == filters[i]
           g == [BaseFilter(f) EXCEPT !.arrays[d] = chunk]
           next == NextChunk(i, d, chunk)
<1>4. PICK R \in Newest(Rows(g, stored), f.limit) :
      \E T \in Newest((EventsOf(R) \ query.rows) \X {0}, GlobalMax - query.read) :
        query' = [next EXCEPT !.found = @ \cup EventsOf(T), !.read = @ + Cardinality(T),
                              !.rows = IF i \in next.todo THEN @ \cup EventsOf(T) ELSE {}]
  BY <1>2
<1>16. PICK T \in Newest((EventsOf(R) \ query.rows) \X {0}, GlobalMax - query.read) :
      query' = [next EXCEPT !.found = @ \cup EventsOf(T), !.read = @ + Cardinality(T),
                            !.rows = IF i \in next.todo THEN @ \cup EventsOf(T) ELSE {}]
  BY <1>4
<1>3. /\ i \in DOMAIN filters /\ FiniteFilter(f) /\ f.limit >= 1 /\ Simple(f)
      /\ d = "ids" /\ chunk \subseteq f.arrays["ids"] /\ chunk # {} /\ chunk \in SUBSET Nat
  <2>1. /\ i \in DOMAIN filters /\ FiniteFilter(f) /\ f.limit >= 1
        /\ d = "ids" /\ chunk \subseteq f.arrays["ids"] /\ chunk # {}
    BY <1>1, <1>2, ChunkIsOfIds
  <2> QED BY <2>1 DEF Loops, FiniteFilter, Filter, Dims, Columns
<1>17. g = ChunkFilter(f, chunk) /\ next = NextChunk(i, "ids", chunk)
  BY <1>3 DEF ChunkFilter
<1>18. First(i, query.todo)
  BY <1>1
<1> HIDE DEF f, g, next
<1>5. /\ FiniteFilter(g) /\ g.arrays["ids"] = chunk
      /\ \A c \in Dims \ {"ids"} : g.arrays[c] = f.arrays[c]
      /\ g.since = f.since /\ g.until = f.until /\ g.cursor = f.cursor
  <2>1. FiniteFilter(f) /\ Simple(f) /\ chunk \subseteq f.arrays["ids"] /\ chunk # {}
    BY <1>3
  <2> QED BY <1>17, <2>1, ChunkFilterNarrows
<1>6. f.arrays["ids"] # {}
  BY <1>3
<1>7. /\ \A S : Rows(g, S) \subseteq Rows(f, S)
      /\ \A e : /\ MatchesFilter(e, f) /\ AfterCursor(e, f)
                /\ g.arrays["ids"] \cap e.has["ids"] # {}
                => MatchesFilter(e, g) /\ AfterCursor(e, g)
  <2>1. g.arrays["ids"] # {} /\ g.arrays["ids"] \subseteq f.arrays["ids"]
    BY <1>3, <1>5
  <2> QED BY <2>1, <1>5, <1>6, FewerIds
<1>8. /\ next \in QueryState /\ next.batch = query.batch /\ next.valid = query.valid
      /\ next.found = query.found /\ next.read = query.read
  <2>1. "ids" \in Dims
    BY DEF Dims, Columns
  <2> QED BY <1>3, <1>17, <2>1, NextChunkState
<1>9. IsFiniteSet(R) /\ \A r \in R : r[1] \in stored
  <2>1. IsFiniteSet(Rows(g, stored)) /\ \A r \in Rows(g, stored) : r[1] \in stored
    BY <1>5, RowsFinite DEF Typed
  <2>2. f.limit \in Nat
    BY <1>3 DEF FiniteFilter, Filter
  <2> QED BY <1>4, <2>1, <2>2, NewestFacts
<1> PICK unseen : unseen = EventsOf(R) \ query.rows
  OBVIOUS
<1>10. /\ T \subseteq unseen \X {0} /\ IsFiniteSet(T) /\ Cardinality(T) \in Nat
       /\ GlobalMax - query.read \in Nat
       /\ Cardinality(T) = Cardinality(unseen \X {0}) \/ Cardinality(T) = GlobalMax - query.read
       /\ IsFiniteSet(unseen \X {0})
  <2>1. IsFiniteSet(unseen \X {0})
    <3>1. IsFiniteSet(EventsOf(R))
      BY <1>9, EventsOfFinite
    <3>2. IsFiniteSet(unseen) /\ IsFiniteSet({0})
      BY <3>1, FS_Subset, FS_Singleton
    <3> QED BY <3>2, FS_Product
  <2>2. GlobalMax - query.read \in Nat
    BY <1>0 DEF Full
  <2>3. T \subseteq unseen \X {0} /\ IsFiniteSet(T) /\ Cardinality(T) \in Nat
    BY <1>16, <2>1, <2>2, NewestFacts
  <2>4. Cardinality(T) = Smaller(GlobalMax - query.read, Cardinality(unseen \X {0}))
    BY <1>16 DEF Newest
  <2> QED BY <2>1, <2>2, <2>3, <2>4 DEF Smaller
<1> PICK new : new = EventsOf(T)
  OBVIOUS
<1>11. new \subseteq unseen /\ new \subseteq stored /\ EventsOf(R) \subseteq stored
  BY <1>9, <1>10 DEF EventsOf
<1>12. /\ query'.found = query.found \cup new /\ query'.read = query.read + Cardinality(T)
       /\ query'.todo = next.todo /\ query'.asked = next.asked
       /\ query'.batch = query.batch /\ query'.valid = query.valid
  <2> PICK rows : rows = IF i \in next.todo THEN next.rows \cup new ELSE {}
    OBVIOUS
  <2>1. query' = [next EXCEPT !.found = next.found \cup new, !.read = next.read + Cardinality(T), !.rows = rows]
    BY <1>16
  <2> QED BY <1>8, <2>1 DEF QueryState
<1>13. query'.read >= GlobalMax \/ EventsOf(R) \subseteq query'.found
  <2>1. CASE Cardinality(T) = GlobalMax - query.read
    BY <1>0, <1>10, <1>12, <2>1
  <2>2. CASE Cardinality(T) = Cardinality(unseen \X {0})
    <3>1. T = unseen \X {0}
      BY <1>10, <2>2, FS_Subset
    <3>2. ASSUME NEW e \in unseen PROVE e \in new
      <4>1. <<e, 0>> \in T
        BY <3>1
      <4> QED BY <4>1 DEF EventsOf
    <3>3. query.rows \subseteq query.found
      BY DEF Loops
    <3> QED BY <1>12, <3>2, <3>3
  <2> QED BY <1>10, <2>1, <2>2
<1>14. ASSUME NEW e \in stored \ query'.found, chunk \cap e.has["ids"] # {},
              MatchesFilter(e, f), AfterCursor(e, f), ~(query'.read >= GlobalMax)
       PROVE  Crowded(f, query'.found, e)
  <2> PICK F : F = query'.found
    OBVIOUS
  <2>1. EventsOf(R) \subseteq F /\ e \notin EventsOf(R)
    BY <1>13, <1>14
  <2>2. F \in SUBSET Events /\ stored \in SUBSET Events
    BY <1>0, <1>11, <1>12 DEF Typed, QueryState
  <2>3. MatchesFilter(e, g) /\ AfterCursor(e, g)
    BY <1>5, <1>7, <1>14
  <2>4. f.limit \in Nat
    BY <1>3 DEF FiniteFilter, Filter
  <2>6. /\ FiniteFilter(f) /\ FiniteFilter(g) /\ \A S : Rows(g, S) \subseteq Rows(f, S)
        /\ R \in Newest(Rows(g, stored), f.limit) /\ e \in stored
    BY <1>3, <1>4, <1>5, <1>7, <1>14
  <2>5. f.limit >= f.limit => Crowded(f, F, e)
    BY <2>1, <2>2, <2>3, <2>4, <2>6, LeftOut
  <2> QED BY <2>4, <2>5
<1>15. chunk \subseteq Unasked(filters[i], "ids")
  BY <1>3
<1>19. \A e \in stored \ query'.found :
          /\ chunk \cap e.has["ids"] # {} /\ MatchesFilter(e, filters[i]) /\ AfterCursor(e, filters[i])
          => query'.read >= GlobalMax \/ Crowded(filters[i], query'.found, e)
  BY <1>14 DEF f
<1>20. /\ query'.todo = NextChunk(i, "ids", chunk).todo /\ query'.asked = NextChunk(i, "ids", chunk).asked
       /\ i \in DOMAIN filters /\ chunk \in SUBSET Nat /\ new \in SUBSET stored /\ Cardinality(T) \in Nat
  BY <1>3, <1>10, <1>11, <1>12, <1>17
<1>21. PICK n \in Nat : n = Cardinality(T)
  BY <1>20
<1>22. /\ First(i, query.todo) /\ i \in DOMAIN filters
       /\ query'.found = query.found \cup new /\ query'.read = query.read + n
       /\ query'.batch = query.batch /\ query'.valid = query.valid
       /\ query'.todo = NextChunk(i, "ids", chunk).todo /\ query'.asked = NextChunk(i, "ids", chunk).asked
       /\ chunk \subseteq Unasked(filters[i], "ids")
       /\ chunk \in SUBSET Nat /\ new \in SUBSET stored
  BY <1>12, <1>15, <1>18, <1>20, <1>21
<1>23. ChunkRead(i, chunk, new, n)
  BY <1>19, <1>22 DEF ChunkRead
<1> QED BY <1>22, <1>23

\* What a filter of a batch leaves out, it or the batch had no room for.
LEMMA BatchReads ==
    ASSUME Typed, Loops, Batch, NEW i \in query.valid, NEW e \in stored \ query'.found,
           MatchesFilter(e, filters[i]), AfterCursor(e, filters[i])
    PROVE  query'.read >= GlobalMax \/ Crowded(filters[i], query'.found, e)
<1> DEFINE V == query.valid
<1>1. PICK R \in [V -> SUBSET UNION {Rows(filters[j], stored) : j \in V}] :
        /\ \A j \in V :
            /\ j \in DOMAIN filters
            /\ IsFiniteSet(R[j])
            /\ R[j] \in Newest(Rows(filters[j], stored),
                               Smaller(filters[j].limit, GlobalMax - query.read - Cardinality(Taken(R, j))))
        /\ query' \in QueryState
        /\ query'.found = query.found \cup UNION {EventsOf(R[j]) : j \in V}
        /\ query'.read = query.read + Cardinality(UNION {{j} \X R[j] : j \in V})
        /\ IsFiniteSet(UNION {{j} \X R[j] : j \in V})
  BY BatchAdds
<1> PICK P : P = UNION {{j} \X R[j] : j \in V}
  OBVIOUS
<1> PICK taken : taken = Taken(R, i)
  OBVIOUS
<1> PICK last : last = {i} \X R[i]
  OBVIOUS
<1> PICK f : f = filters[i]
  OBVIOUS
<1>2. query.read \in Nat /\ GlobalMax \in Nat
  BY QueryLimits DEF QueryLimits, Typed, QueryState
<1>3. FiniteFilter(f) /\ f.limit \in Nat /\ IsFiniteSet(Rows(f, stored)) /\ Cardinality(Rows(f, stored)) \in Nat
  <2>1. FiniteFilter(f)
    BY <1>1 DEF Typed, Usable
  <2>2. IsFiniteSet(Rows(f, stored))
    BY <2>1, RowsFinite DEF Typed
  <2> QED BY <2>1, <2>2, FS_CardinalityType DEF FiniteFilter, Filter
<1>4. IsFiniteSet(P) /\ Cardinality(P) \in Nat /\ query'.read = query.read + Cardinality(P)
  <2>1. IsFiniteSet(P) /\ query'.read = query.read + Cardinality(P)
    BY <1>1
  <2> QED BY <2>1, FS_CardinalityType
<1>5. taken \cup last \subseteq P /\ taken \cap last = {}
  <2>1. DOMAIN R = V /\ i \in Nat
    BY DEF Typed, QueryState
  <2>2. taken = UNION {{j} \X R[j] : j \in {l \in V : l < i}}
    BY <2>1 DEF Taken
  <2>3. ~(i < i)
    BY <2>1
  <2> QED BY <2>2, <2>3
<1>6. IsFiniteSet(taken) /\ Cardinality(taken) \in Nat
  <2>1. IsFiniteSet(taken)
    BY <1>4, <1>5, FS_Subset
  <2> QED BY <2>1, FS_CardinalityType
<1>7. IsFiniteSet(R[i]) /\ Cardinality(R[i]) \in Nat /\ IsFiniteSet(last) /\ Cardinality(last) = Cardinality(R[i])
  <2>1. IsFiniteSet({i}) /\ Cardinality({i}) = 1 /\ IsFiniteSet(R[i])
    BY <1>1, FS_Singleton
  <2>2. Cardinality(R[i]) \in Nat
    BY <2>1, FS_CardinalityType
  <2>3. IsFiniteSet(last) /\ Cardinality(last) = 1 * Cardinality(R[i])
    BY <2>1, FS_Product
  <2> QED BY <2>1, <2>2, <2>3
<1> PICK room \in Int : room = GlobalMax - query.read - Cardinality(taken)
  BY <1>2, <1>6
<1> PICK k : k = Smaller(f.limit, room)
  OBVIOUS
<1>8. R[i] \in Newest(Rows(f, stored), k)
  BY <1>1
<1>9. k \in Nat
  <2>1. Cardinality(R[i]) = Smaller(k, Cardinality(Rows(f, stored)))
    BY <1>8 DEF Newest
  <2>2. k \in Int
    BY <1>3 DEF Smaller
  <2> QED BY <1>3, <1>7, <2>1, <2>2 DEF Smaller
<1> PICK F : F = query'.found
  OBVIOUS
<1>10. F \in SUBSET Events /\ EventsOf(R[i]) \subseteq F /\ e \notin EventsOf(R[i])
  BY <1>1 DEF QueryState
<1>11. Cardinality(R[i]) = k /\ (k >= f.limit => Crowded(f, F, e))
  <2>1. stored \in SUBSET Events /\ e \in stored
    BY DEF Typed
  <2> QED BY <1>3, <1>8, <1>9, <1>10, <2>1, LeftOut
<1>12. CASE k >= f.limit
  BY <1>11, <1>12
<1>13. CASE ~(k >= f.limit)
  <2>1. k = room
    BY <1>3, <1>9, <1>13 DEF Smaller
  <2>2. Cardinality(taken \cup last) = Cardinality(taken) + Cardinality(last)
    <3>1. Cardinality(taken \cup last) = Cardinality(taken) + Cardinality(last) - Cardinality(taken \cap last)
      BY <1>6, <1>7, FS_Union
    <3>2. Cardinality(taken \cap last) = 0
      BY <1>5, FS_EmptySet
    <3> QED BY <1>6, <1>7, <3>1, <3>2
  <2>3. Cardinality(taken \cup last) <= Cardinality(P)
    BY <1>4, <1>5, FS_Subset
  <2>4. query.read + Cardinality(taken) + Cardinality(R[i]) = GlobalMax
    BY <1>2, <1>6, <1>9, <1>11, <2>1
  <2> QED BY <1>2, <1>4, <1>6, <1>7, <2>2, <2>3, <2>4
<1> QED BY <1>12, <1>13

LEMMA CompleteKept ==
    ASSUME Typed, Typed', Complete, UNCHANGED filters, kept' \subseteq kept, gaps \subseteq gaps',
           query.found \subseteq query'.found, query'.read >= query.read,
           \A e \in kept' \ query'.found, i \in DOMAIN filters \ gaps' :
              MatchesFilter(e, filters[i]) /\ AfterCursor(e, filters[i]) /\ Simple(filters[i]) /\ Unread(i, e) =>
                  Unread(i, e)' \/ query'.read >= GlobalMax \/ Crowded(filters[i], query'.found, e)
    PROVE  Complete'
<1> SUFFICES ASSUME NEW e \in kept' \ query'.found, NEW i \in DOMAIN filters \ gaps',
                    MatchesFilter(e, filters[i]), AfterCursor(e, filters[i]), Simple(filters[i])
             PROVE  Unread(i, e)' \/ query'.read >= GlobalMax \/ Crowded(filters[i], query'.found, e)
  BY DEF Complete, Full
<1>1. Unread(i, e) \/ Full \/ Crowded(filters[i], query.found, e)
  BY DEF Complete
<1>2. CASE Unread(i, e)
  BY <1>2
<1>3. CASE Full
  <2>1. query.read \in Nat /\ query'.read \in Nat /\ GlobalMax \in Nat
    BY QueryLimits DEF QueryLimits, Typed, QueryState
  <2> QED BY <1>3, <2>1 DEF Full
<1>4. CASE Crowded(filters[i], query.found, e)
  <2>1. FiniteFilter(filters[i])
    BY DEF Typed, Usable
  <2> PICK G : G = query'.found
    OBVIOUS
  <2>2. G \in SUBSET Events /\ query.found \in SUBSET G
    BY DEF Typed, QueryState
  <2> QED BY <1>4, <2>1, <2>2, CrowdGrows
<1> QED BY <1>1, <1>2, <1>3, <1>4

\* All that is asked is still to be read.
LEMMA AskedIsUnread ==
    ASSUME Typed, NEW fs, Usable(fs), Ask(fs)
    PROVE  Complete' /\ AllRead'
<1>1. /\ filters' = fs /\ phase' = "asked" /\ query'.found = {}
      /\ query'.todo = {i \in DOMAIN fs : Simple(fs[i]) /\ Large(fs[i]) # {}}
      /\ query'.batch = {i \in DOMAIN fs : Simple(fs[i]) /\ Large(fs[i]) = {}}
  BY AskStarts
<1>2. query'.asked = Nothing
  BY DEF Ask, Idle
<1>3. query'.asked["ids"] = {}
  BY <1>2 DEF Nothing, Dims, Columns
<1>4. AllRead'
  BY <1>1 DEF AllRead
<1>5. ASSUME NEW i \in DOMAIN fs, Simple(fs[i]), NEW e PROVE Unread(i, e)'
  BY <1>1, <1>3, <1>5 DEF Unread
<1> QED BY <1>1, <1>4, <1>5 DEF Complete

\* What the next chunk is asked for is all that a chunk takes from the rest.
LEMMA ChunkUnread ==
    ASSUME Typed, Loops, NEW i \in query.todo, First(i, query.todo), NEW chunk \in SUBSET Nat,
           chunk \subseteq Unasked(filters[i], "ids"),
           query'.todo = NextChunk(i, "ids", chunk).todo, query'.asked = NextChunk(i, "ids", chunk).asked,
           query'.batch = query.batch, query'.valid = query.valid,
           NEW e \in Events, NEW j \in DOMAIN filters, MatchesFilter(e, filters[j]), Unread(j, e)
    PROVE  Unread(j, e)' \/ (j = i /\ chunk \cap e.has["ids"] # {})
<1> PICK next : next = NextChunk(i, "ids", chunk)
  OBVIOUS
<1>1. \/ query'.todo = query.todo /\ query'.asked["ids"] = query.asked["ids"] \cup chunk
      \/ query'.todo = query.todo \ {i} /\ query'.asked["ids"] = {} /\ chunk = Unasked(filters[i], "ids")
  BY ChunkMoves
<1>2. query.todo \subseteq Nat /\ e.has["ids"] = {e.id}
  BY QueryData DEF QueryData, Typed, QueryState
<1>3. CASE j # i
  <2>1. ~First(j, query.todo)
    BY <1>2, <1>3 DEF First
  <2>2. CASE query'.todo = query.todo
    BY <1>3, <2>1, <2>2 DEF Unread
  <2>3. CASE query'.todo = query.todo \ {i} /\ query'.asked["ids"] = {}
    BY <1>3, <2>3 DEF Unread
  <2> QED BY <1>1, <2>2, <2>3
<1>4. CASE j = i
  <2>1. e.id \notin query.asked["ids"]
    BY <1>4 DEF Unread
  <2>2. CASE query'.todo = query.todo /\ query'.asked["ids"] = query.asked["ids"] \cup chunk
    <3>1. CASE e.id \in chunk
      BY <1>2, <1>4, <3>1
    <3>2. CASE e.id \notin chunk
      BY <1>4, <2>1, <2>2, <3>2 DEF Unread
    <3> QED BY <3>1, <3>2
  <2>3. CASE chunk = Unasked(filters[i], "ids")
    <3>1. FiniteFilter(filters[i]) /\ Simple(filters[i]) /\ Large(filters[i]) # {}
      BY DEF Typed, Usable, Loops
    <3>2. "ids" \in Large(filters[i])
      BY <3>1, OnlyIdsAreLarge
    <3>3. "ids" \in Dims /\ filters[i].arrays["ids"] # {}
      <4>1. "ids" \in Dims /\ Cardinality(filters[i].arrays["ids"]) > ChunkSize
        BY <3>2 DEF Large
      <4>2. ChunkSize \in Nat
        BY QueryLimits DEF QueryLimits
      <4>3. Cardinality({}) = 0
        BY FS_EmptySet
      <4> PICK ids : ids = filters[i].arrays["ids"]
        OBVIOUS
      <4>4. ~(0 > ChunkSize)
        BY <4>2
      <4>5. Cardinality(ids) > ChunkSize
        BY <4>1
      <4>6. ids # {}
        BY <4>3, <4>4, <4>5
      <4> QED BY <4>1, <4>6
    <3>4. e.id \in filters[i].arrays["ids"]
      BY <1>2, <1>4, <3>3 DEF MatchesFilter, Meets
    <3>5. e.id \in chunk
      BY <2>1, <2>3, <3>2, <3>4 DEF Unasked
    <3> QED BY <1>2, <1>4, <3>5
  <2> QED BY <1>1, <2>2, <2>3
<1> QED BY <1>3, <1>4

LEMMA CompleteStep == IInv /\ Complete /\ AllRead /\ [Next]_vars => Complete' /\ AllRead'
<1> SUFFICES ASSUME IInv, Complete, AllRead, [Next]_vars PROVE Complete' /\ AllRead'
  OBVIOUS
<1>0. Typed /\ Loops /\ Typed'
  BY NextIInv DEF IInv
<1>1. CASE Req
  <2>1. PICK fs \in Requests : Ask(Capped(fs))
    BY <1>1 DEF Req
  <2> QED BY <1>0, <2>1, CappedUsable, AskedIsUnread
<1>2. CASE NextPage
  <2>1. PICK last \in query.found : Ask([filters EXCEPT ![1].cursor = [at |-> last.at, id |-> last.id]])
    BY <1>2 DEF NextPage
  <2>2. [at |-> last.at, id |-> last.id] \in [at : Nat, id : Nat]
    BY <1>0, QueryData DEF QueryData, Typed, QueryState, Event
  <2> PICK fs : fs = [filters EXCEPT ![1].cursor = [at |-> last.at, id |-> last.id]]
    OBVIOUS
  <2>3. Usable(fs)
    BY <1>0, <1>2, <2>2, CursorUsable DEF NextPage, Typed
  <2> QED BY <1>0, <2>1, <2>3, AskedIsUnread
<1>3. CASE Chunk
  <2>1. PICK i \in query.todo, chunk \in SUBSET Nat, new \in SUBSET stored, n \in Nat : ChunkRead(i, chunk, new, n)
    BY <1>0, <1>3, ChunkReads
  <2>2. /\ First(i, query.todo) /\ i \in DOMAIN filters
        /\ query'.found = query.found \cup new /\ query'.read = query.read + n
        /\ query'.batch = query.batch /\ query'.valid = query.valid
        /\ query'.todo = NextChunk(i, "ids", chunk).todo /\ query'.asked = NextChunk(i, "ids", chunk).asked
        /\ chunk \subseteq Unasked(filters[i], "ids")
        /\ \A e \in stored \ query'.found :
             /\ chunk \cap e.has["ids"] # {} /\ MatchesFilter(e, filters[i]) /\ AfterCursor(e, filters[i])
             => query'.read >= GlobalMax \/ Crowded(filters[i], query'.found, e)
    BY <2>1 DEF ChunkRead
  <2>3. UNCHANGED <<filters, phase, kept, gaps>> /\ phase = "asked"
    BY <1>3 DEF Chunk, Waiting, history
  <2>4. query.read \in Nat /\ query'.read >= query.read /\ query.found \subseteq query'.found
    BY <1>0, <2>2 DEF Typed, QueryState
  <2>5. ASSUME NEW e \in kept' \ query'.found, NEW j \in DOMAIN filters \ gaps',
               MatchesFilter(e, filters[j]), AfterCursor(e, filters[j]), Unread(j, e)
        PROVE  Unread(j, e)' \/ query'.read >= GlobalMax \/ Crowded(filters[j], query'.found, e)
    <3>1. e \in stored /\ e \in Events
      BY <1>0, <2>3 DEF Typed
    <3>2. Unread(j, e)' \/ (j = i /\ chunk \cap e.has["ids"] # {})
      BY <1>0, <2>2, <2>5, <3>1, ChunkUnread
    <3> QED BY <2>2, <2>5, <3>1, <3>2
  <2>6. Complete'
    BY <1>0, <2>3, <2>4, <2>5, CompleteKept
  <2> QED BY <2>3, <2>6 DEF AllRead
<1>4. CASE ChunkFails
  <2>1. PICK i \in query.todo, d \in Dims :
          /\ First(i, query.todo) /\ Unasked(filters[i], d) # {}
          /\ \E chunk \in SUBSET Unasked(filters[i], d) :
              /\ Cardinality(chunk) = Smaller(ChunkSize, Cardinality(Unasked(filters[i], d)))
              /\ query' = NextChunk(i, d, chunk)
          /\ gaps' = gaps \cup {i}
    BY <1>4 DEF ChunkFails
  <2>2. PICK chunk \in SUBSET Unasked(filters[i], d) :
          /\ Cardinality(chunk) = Smaller(ChunkSize, Cardinality(Unasked(filters[i], d)))
          /\ query' = NextChunk(i, d, chunk)
    BY <2>1
  <2>3. d = "ids" /\ chunk \subseteq filters[i].arrays["ids"] /\ FiniteFilter(filters[i])
    BY <1>0, <2>1, <2>2, ChunkIsOfIds
  <2>4. chunk \in SUBSET Nat
    BY <2>3 DEF FiniteFilter, Filter, Dims, Columns
  <2>5. /\ query'.batch = query.batch /\ query'.valid = query.valid
        /\ query'.found = query.found /\ query'.read = query.read
    BY <1>0, <2>2, <2>4, NextChunkState
  <2>6. UNCHANGED <<filters, phase, kept>> /\ phase = "asked" /\ query.read \in Nat
    BY <1>0, <1>4 DEF ChunkFails, Waiting, Typed, QueryState
  <2>7. ASSUME NEW e \in kept' \ query'.found, NEW j \in DOMAIN filters \ gaps',
               MatchesFilter(e, filters[j]), AfterCursor(e, filters[j]), Unread(j, e)
        PROVE  Unread(j, e)'
    <3>1. e \in Events
      BY <1>0, <2>6 DEF Typed
    <3>2. query'.todo = NextChunk(i, "ids", chunk).todo /\ query'.asked = NextChunk(i, "ids", chunk).asked
      BY <2>2, <2>3
    <3>3. chunk \subseteq Unasked(filters[i], "ids") /\ First(i, query.todo) /\ j # i /\ j \in DOMAIN filters
      BY <2>1, <2>2, <2>3, <2>7
    <3> QED BY <1>0, <2>4, <2>5, <2>7, <3>1, <3>2, <3>3, ChunkUnread
  <2>8. gaps \subseteq gaps' /\ query.found \subseteq query'.found /\ query'.read >= query.read
    BY <2>1, <2>5, <2>6
  <2>9. Complete'
    BY <1>0, <2>6, <2>7, <2>8, CompleteKept
  <2> QED BY <2>6, <2>9 DEF AllRead
<1>5. CASE Precheck
  <2>1. PICK i \in query.batch :
          \/ query' = [query EXCEPT !.batch = @ \ {i}, !.valid = @ \cup {i}] /\ gaps' = gaps
          \/ query' = [query EXCEPT !.batch = @ \ {i}] /\ gaps' = gaps \cup {i}
    BY <1>5 DEF Precheck
  <2>2. /\ query'.todo = query.todo /\ query'.asked = query.asked
        /\ query'.found = query.found /\ query'.read = query.read /\ query.read \in Nat
        /\ gaps \subseteq gaps'
        /\ \/ query'.batch = query.batch \ {i} /\ query'.valid = query.valid \cup {i}
           \/ query'.batch = query.batch \ {i} /\ query'.valid = query.valid /\ i \in gaps'
    BY <1>0, <2>1 DEF Typed, QueryState
  <2>3. UNCHANGED <<filters, phase, kept>> /\ phase = "asked"
    BY <1>5 DEF Precheck, Waiting
  <2>4. ASSUME NEW e, NEW j \in DOMAIN filters \ gaps', Unread(j, e) PROVE Unread(j, e)'
    BY <2>2, <2>4 DEF Unread
  <2>5. Complete'
    BY <1>0, <2>2, <2>3, <2>4, CompleteKept
  <2> QED BY <2>3, <2>5 DEF AllRead
<1>6. CASE Batch
  <2>1. PICK R \in [query.valid -> SUBSET UNION {Rows(filters[i], stored) : i \in query.valid}] :
          /\ query'.todo = query.todo /\ query'.batch = query.batch
          /\ query'.found = query.found \cup UNION {EventsOf(R[i]) : i \in query.valid}
          /\ query'.read = query.read + Cardinality(UNION {{i} \X R[i] : i \in query.valid})
          /\ IsFiniteSet(UNION {{i} \X R[i] : i \in query.valid})
    BY <1>0, <1>6, BatchAdds
  <2>2. query.found \subseteq query'.found /\ query'.read >= query.read
    <3> PICK n : n = Cardinality(UNION {{i} \X R[i] : i \in query.valid})
      OBVIOUS
    <3>1. n \in Nat /\ query'.read = query.read + n
      BY <2>1, FS_CardinalityType
    <3>2. query.read \in Nat
      BY <1>0 DEF Typed, QueryState
    <3> QED BY <2>1, <3>1, <3>2
  <2>3. UNCHANGED <<filters, phase, kept, gaps>> /\ phase = "asked" /\ query'.asked = query.asked
    BY <1>0, <1>6 DEF Batch, Waiting, history, Typed, QueryState
  <2>4. ASSUME NEW e \in kept' \ query'.found, NEW j \in DOMAIN filters \ gaps',
               MatchesFilter(e, filters[j]), AfterCursor(e, filters[j]), Unread(j, e)
        PROVE  Unread(j, e)' \/ query'.read >= GlobalMax \/ Crowded(filters[j], query'.found, e)
    <3>1. CASE j \in query.valid
      <4>1. e \in stored
        BY <1>0, <2>3 DEF Typed
      <4> QED BY <1>0, <1>6, <2>4, <3>1, <4>1, BatchReads
    <3>2. CASE j \notin query.valid
      BY <2>1, <2>3, <2>4, <3>2 DEF Unread
    <3> QED BY <3>1, <3>2
  <2>5. Complete'
    BY <1>0, <2>2, <2>3, <2>4, CompleteKept
  <2> QED BY <2>3, <2>5 DEF AllRead
<1>7. CASE Answer
  <2>1. Complete'
    BY <1>7 DEF Answer, history, Complete, Unread, Full, First
  <2>2. AllRead'
    BY <1>7 DEF Answer, AllRead, InChunks, InCounts, InBatch, Full
  <2> QED BY <2>1, <2>2
<1>8. CASE QueryFails
  <2>1. query' = Idle /\ gaps' = DOMAIN filters /\ filters' = filters
    BY <1>8 DEF QueryFails
  <2> QED BY <2>1 DEF Complete, AllRead, Idle
<1>9. CASE Save \/ Remove \/ UNCHANGED vars
  <2>1. UNCHANGED <<filters, phase, query, gaps>> /\ kept' \subseteq kept
    BY <1>9 DEF Save, Remove, vars, history
  <2> QED BY <2>1 DEF Complete, AllRead, Unread, Full, First
<1> QED BY <1>1, <1>2, <1>3, <1>4, <1>5, <1>6, <1>7, <1>8, <1>9 DEF Next

\* NothingMissed, for any events, filters, weights and limits, and whatever is
\* saved and removed between the statements: what queryEvents skips or leaves
\* out it had no room for, in its answer or in the limit of the filter, or the
\* filter failed (relay-worker.ts).
THEOREM NothingMissedHolds == Spec => []NothingMissed
<1>1. Init => Complete /\ AllRead
  BY DEF Init, Idle, Complete, AllRead
<1>2. Complete /\ AllRead => NothingMissed
  <2> SUFFICES ASSUME Complete, AllRead, phase = "answered",
                      NEW e \in kept \ query.found, NEW i \in DOMAIN filters \ gaps,
                      MatchesFilter(e, filters[i]), AfterCursor(e, filters[i]), Simple(filters[i])
               PROVE  Full \/ Crowded(filters[i], query.found, e)
    BY DEF NothingMissed, Crowded
  <2>1. Full \/ ~Unread(i, e)
    BY DEF AllRead, Unread
  <2> QED BY <2>1 DEF Complete
<1> QED BY <1>1, <1>2, CompleteStep, IInvHolds, PTL DEF Spec
=============================================================================
