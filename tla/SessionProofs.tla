--------------------------- MODULE SessionProofs ---------------------------
(* Proofs about the sessions, their rate limits, the padding of replies    *)
(* and the media server, for every number of connections and messages in   *)
(* flight, every rate, every length and every bucket.                      *)
EXTENDS Session, RateLimiter, Blossom, GiftWrap, FiniteSetTheorems, TLAPS

-----------------------------------------------------------------------------
(* RateLimiter *)

(* Whole intervals in a stretch of time. *)
LEMMA Division ==
    ASSUME NEW m \in Nat, NEW d \in Nat \ {0}
    PROVE  /\ m \div d \in Nat
           /\ d * (m \div d) <= m /\ m < d * (m \div d) + d
BY SMT

(* Two stretches have no more whole intervals than the two together. *)
LEMMA DivisionAdds ==
    ASSUME NEW m \in Nat, NEW n \in Nat, NEW d \in Nat \ {0}
    PROVE  (m \div d) + (n \div d) <= (m + n) \div d
<1> DEFINE a == m \div d
           b == n \div d
           c == (m + n) \div d
<1>1. a \in Nat /\ b \in Nat /\ c \in Nat
  BY Division
<1>2. d * a <= m /\ d * b <= n /\ m + n < d * c + d
  BY Division
<1> HIDE DEF a, b, c
<1>3. d * (a + b) < d * (c + 1)
  BY <1>1, <1>2, SMT
<1>4. a + b < c + 1
  BY <1>1, <1>3, SMT
<1>5. a + b <= c
  BY <1>1, <1>4, SMT
<1> QED
  BY <1>5 DEF a, b, c

(* What a refill adds keeps the bucket within its brim. *)
LEMMA RefilledType ==
    ASSUME LimiterTypeOK
    PROVE  /\ (now - lastRefill) \div Interval \in Nat
           /\ Refilled \in 0..Capacity
           /\ Refilled <= tokens + ((now - lastRefill) \div Interval)
<1>1. now - lastRefill \in Nat
  BY DEF LimiterTypeOK
<1>2. (now - lastRefill) \div Interval \in Nat
  BY <1>1, LimiterRates, Division
<1> QED
  BY <1>2, LimiterRates DEF LimiterTypeOK, Refilled, Smaller

LEMMA LimiterTypeInductive == LimiterTypeOK /\ [LimiterNext]_limiterVars => LimiterTypeOK'
<1> SUFFICES ASSUME LimiterTypeOK, [LimiterNext]_limiterVars PROVE LimiterTypeOK'
  OBVIOUS
<1>1. Refilled \in 0..Capacity
  BY RefilledType
<1>2. CASE Attempt
  BY <1>1, <1>2, LimiterRates DEF Attempt, LimiterTypeOK
<1>3. CASE Refresh
  BY <1>3, LimiterRates DEF Refresh, LimiterTypeOK
<1>4. CASE Observe
  BY <1>4, LimiterRates DEF Observe, LimiterTypeOK, bucket
<1>5. CASE Elapse
  BY <1>5, LimiterRates DEF Elapse, LimiterTypeOK, bucket, window, Unset
<1>6. CASE UNCHANGED limiterVars
  BY <1>6 DEF LimiterTypeOK, limiterVars, bucket, window
<1> QED
  BY <1>2, <1>3, <1>4, <1>5, <1>6 DEF LimiterNext

LEMMA LimiterInitialType == LimiterInit => LimiterTypeOK
BY LimiterRates DEF LimiterInit, LimiterTypeOK, Unset

(* The types of the clock, the bucket and what is counted: the bucket      *)
(* never holds more than its capacity, and time never runs back for it.    *)
THEOREM LimiterTypeCorrect == LimiterSpec => []LimiterTypeOK
BY LimiterInitialType, LimiterTypeInductive, PTL DEF LimiterSpec

(* What is left in the bucket was handed out and has not passed: with the  *)
(* attempts let in it is no more than the full buckets and the intervals   *)
(* between the start of the window and the last refill.                    *)
Budget ==
    IF since = Unset \/ lastRefill < since
    THEN passed = 0 /\ (since # Unset => allowance >= Capacity)
    ELSE passed + tokens <= allowance + ((lastRefill - since) \div Interval)

(* The intervals of a window do not get fewer as it goes on. *)
LEMMA WindowGrows ==
    ASSUME LimiterTypeOK, since # Unset, lastRefill >= since
    PROVE  /\ (lastRefill - since) \div Interval \in Nat
           /\ (now - since) \div Interval \in Nat
           /\ ((lastRefill - since) \div Interval) + ((now - lastRefill) \div Interval)
                <= (now - since) \div Interval
<1>1. lastRefill - since \in Nat /\ now - lastRefill \in Nat
      /\ (lastRefill - since) + (now - lastRefill) = now - since
  BY DEF LimiterTypeOK, Unset
<1>2. now - since \in Nat
  BY <1>1
<1> QED
  BY <1>1, <1>2, LimiterRates, Division, DivisionAdds

LEMMA BudgetInductive ==
    LimiterTypeOK /\ Budget /\ [LimiterNext]_limiterVars => Budget'
<1> SUFFICES ASSUME LimiterTypeOK, Budget, [LimiterNext]_limiterVars PROVE Budget'
  OBVIOUS
<1>0. LimiterTypeOK'
  BY LimiterTypeInductive
<1>1. CASE Attempt
  <2>1. passed' + tokens' <= passed + Refilled /\ (since = Unset => passed' = passed)
    BY <1>1, RefilledType DEF Attempt, LimiterTypeOK
  <2>2. now' = now /\ since' = since /\ lastRefill' = now /\ allowance' = allowance
    BY <1>1 DEF Attempt
  <2>3. CASE since = Unset
    BY <2>1, <2>2, <2>3 DEF Budget
  <2>4. CASE since # Unset /\ lastRefill < since
    <3>1. (now - since) \div Interval \in Nat
      <4>1. now - since \in Nat
        BY <2>4 DEF LimiterTypeOK, Unset
      <4> QED
        BY <4>1, LimiterRates, Division
    <3>2. passed = 0 /\ allowance >= Capacity
      BY <2>4 DEF Budget
    <3>3. passed' + tokens' \in Int /\ Refilled \in Int /\ Refilled <= Capacity
      BY <1>0, RefilledType, LimiterRates DEF LimiterTypeOK
    <3>4. passed' + tokens' <= allowance
      BY <2>1, <3>2, <3>3, LimiterRates DEF LimiterTypeOK
    <3>5. now >= since
      BY <2>4 DEF LimiterTypeOK, Unset
    <3>6. passed' + tokens' <= allowance + ((now - since) \div Interval)
      BY <3>1, <3>3, <3>4 DEF LimiterTypeOK
    <3> QED
      BY <2>2, <2>4, <3>5, <3>6 DEF Budget, LimiterTypeOK, Unset
  <2>5. CASE since # Unset /\ lastRefill >= since
    <3>1. passed + tokens <= allowance + ((lastRefill - since) \div Interval)
      BY <2>5 DEF Budget, LimiterTypeOK, Unset
    <3>2. passed' + tokens' <= allowance + ((now - since) \div Interval)
      BY <2>1, <2>5, <3>1, RefilledType, WindowGrows, <1>0 DEF LimiterTypeOK
    <3> QED
      BY <2>2, <2>5, <3>2, <1>0 DEF Budget, LimiterTypeOK, Unset
  <2> QED
    BY <2>3, <2>4, <2>5 DEF LimiterTypeOK, Unset
<1>2. CASE Refresh
  <2>1. now' = now /\ since' = since /\ lastRefill' = now /\ passed' = passed /\ tokens' = Capacity
    BY <1>2 DEF Refresh
  <2>2. CASE since = Unset
    BY <2>1, <2>2 DEF Budget
  <2>3. CASE since # Unset /\ lastRefill < since
    <3>1. (now - since) \div Interval \in Nat
      <4>1. now - since \in Nat
        BY <2>3 DEF LimiterTypeOK, Unset
      <4> QED
        BY <4>1, LimiterRates, Division
    <3> QED
      BY <1>2, <2>1, <2>3, <3>1, LimiterRates DEF Refresh, Budget, LimiterTypeOK, Unset
  <2>4. CASE since # Unset /\ lastRefill >= since
    <3>1. passed + tokens <= allowance + ((lastRefill - since) \div Interval)
      BY <2>4 DEF Budget, LimiterTypeOK, Unset
    <3> QED
      BY <1>2, <2>1, <2>4, <3>1, WindowGrows, RefilledType, LimiterRates
         DEF Refresh, Budget, LimiterTypeOK, Unset
  <2> QED
    BY <2>2, <2>3, <2>4 DEF LimiterTypeOK, Unset
<1>3. CASE Observe
  <2>1. since' = now /\ allowance' = Capacity /\ passed' = 0 /\ tokens' = tokens
        /\ lastRefill' = lastRefill
    BY <1>3 DEF Observe, Budget, bucket
  <2>2. CASE lastRefill < now
    BY <2>1, <2>2, LimiterRates DEF Budget
  <2>3. CASE lastRefill = now
    <3>1. lastRefill - now = 0 /\ 0 \div Interval \in Nat
      BY <2>3, LimiterRates, Division DEF LimiterTypeOK
    <3> QED
      BY <2>1, <2>3, <3>1, LimiterRates DEF Budget, LimiterTypeOK, Unset
  <2> QED
    BY <2>2, <2>3 DEF LimiterTypeOK
<1>4. CASE Elapse \/ UNCHANGED limiterVars
  BY <1>4 DEF Elapse, limiterVars, bucket, window, Budget
<1> QED
  BY <1>1, <1>2, <1>3, <1>4 DEF LimiterNext

LEMMA BudgetBounds == LimiterTypeOK /\ Budget => RateBound
<1> SUFFICES ASSUME LimiterTypeOK, Budget, since # Unset
             PROVE  passed <= allowance + ((now - since) \div Interval)
  BY DEF RateBound
<1>1. (now - since) \div Interval \in Nat
  <2>1. now - since \in Nat
    BY DEF LimiterTypeOK, Unset
  <2> QED
    BY <2>1, LimiterRates, Division
<1>2. CASE lastRefill < since
  BY <1>1, <1>2 DEF Budget, LimiterTypeOK
<1>3. CASE lastRefill >= since
  BY <1>3, WindowGrows, RefilledType DEF Budget, LimiterTypeOK, Unset
<1> QED
  BY <1>2, <1>3 DEF LimiterTypeOK, Unset

(* The rate limit of a session, for every rate, every capacity and every   *)
(* window of time.                                                         *)
THEOREM RateBounded == LimiterSpec => []RateBound
<1>1. LimiterInit => Budget
  BY DEF LimiterInit, Budget
<1> QED
  BY <1>1, LimiterInitialType, LimiterTypeInductive, BudgetInductive, BudgetBounds, PTL
     DEF LimiterSpec

LEMMA RefusedOnlySoon ==
    ASSUME LimiterTypeOK, [LimiterNext]_limiterVars, refused' # refused
    PROVE  now - lastRefill < Interval
<1>1. Attempt /\ Refilled < 1
  BY DEF LimiterNext, Attempt, Refresh, Observe, Elapse, limiterVars, bucket, window
<1>2. now - lastRefill \in Nat
  BY DEF LimiterTypeOK
<1>3. (now - lastRefill) \div Interval = 0
  BY <1>1, RefilledType, LimiterRates DEF Refilled, Smaller, LimiterTypeOK
<1>4. now - lastRefill < Interval * ((now - lastRefill) \div Interval) + Interval
  BY <1>2, LimiterRates, Division
<1> QED
  BY <1>2, <1>3, <1>4, LimiterRates, SMT

(* Whoever has stayed away for an interval is let in, at every rate.       *)
THEOREM PatientServed == LimiterSpec => PatientIsServed
<1>1. LimiterTypeOK /\ [LimiterNext]_limiterVars
      => [refused' # refused => now - lastRefill < Interval]_limiterVars
  BY RefusedOnlySoon
<1> QED
  BY <1>1, LimiterTypeCorrect, PTL DEF LimiterSpec, PatientIsServed

-----------------------------------------------------------------------------
(* Blossom *)

ChangeJobs == [at : {"head", "put", "delete"}, auth : Auths]
ListJobs == [at : {"list", "entries"}, whose : Users, left : SUBSET Hashes,
             found : SUBSET Hashes, owned : SUBSET Hashes]

(* Which kind of request is at which step. *)
LEMMA JobKinds ==
    ASSUME BlossomTypeOK, NEW j \in Workers
    PROVE  /\ job[j].at \in {"head", "put", "delete"} => job[j] \in ChangeJobs
           /\ job[j].at \in {"list", "entries"} => job[j] \in ListJobs
<1>1. job[j] \in {NoJob} \cup ChangeJobs \cup ListJobs
  BY DEF BlossomTypeOK, Jobs, ChangeJobs, ListJobs
<1> QED
  BY <1>1 DEF NoJob, ChangeJobs, ListJobs

(* A blob that changes hands leaves the lists in progress lists. *)
LEMMA DisownedType ==
    ASSUME BlossomTypeOK, NEW h \in Hashes, NEW u
    PROVE  Disowned(h, u) \in [Workers -> Jobs]
<1> SUFFICES ASSUME NEW j \in Workers, job[j].at \in {"list", "entries"}
             PROVE  [job[j] EXCEPT !.owned = @ \ {h}] \in Jobs
  BY DEF Disowned, BlossomTypeOK
<1>1. job[j] \in ListJobs
  BY JobKinds
<1> QED
  BY <1>1 DEF ListJobs, Jobs

LEMMA BlossomTypeInductive == BlossomTypeOK /\ [BlossomNext]_blossomVars => BlossomTypeOK'
<1> SUFFICES ASSUME BlossomTypeOK, [BlossomNext]_blossomVars PROVE BlossomTypeOK'
  OBVIOUS
<1>1. ASSUME NEW a \in Signatures, Sign(a) \/ Expire(a) PROVE BlossomTypeOK'
  BY <1>1 DEF Sign, Expire, BlossomTypeOK
<1>2. ASSUME NEW a \in Signatures, NEW j \in Workers, Submit(j, a) PROVE BlossomTypeOK'
  BY <1>2, BlossomSizes DEF Submit, BlossomTypeOK, Jobs
<1>3. ASSUME NEW j \in Workers, HeadForUpload(j) \/ HeadForDelete(j) PROVE BlossomTypeOK'
  <2>1. job[j] \in ChangeJobs
    BY <1>3, JobKinds DEF HeadForUpload, HeadForDelete, Doing
  <2>2. [job[j] EXCEPT !.at = "put"] \in Jobs /\ [job[j] EXCEPT !.at = "delete"] \in Jobs
    BY <2>1 DEF ChangeJobs, Jobs
  <2>3. /\ UNCHANGED <<blobs, signed, uploaders>>
        /\ \E new \in Jobs : job' = [job EXCEPT ![j] = new]
    BY <1>3, <2>2 DEF HeadForUpload, HeadForDelete, EndJob, BlossomTypeOK, Jobs
  <2> QED
    BY <2>3 DEF BlossomTypeOK
<1>4. ASSUME NEW j \in Workers, Put(j) \/ Delete(j) PROVE BlossomTypeOK'
  <2>1. job[j].auth \in Auths
    BY <1>4, JobKinds DEF Put, Delete, Doing, ChangeJobs
  <2>2. job[j].auth.by \in Users /\ job[j].auth.hash \in Hashes
    BY <2>1 DEF Auths
  <2>3. \A u : Disowned(job[j].auth.hash, u) \in [Workers -> Jobs]
    BY <2>2, DisownedType
  <2>4. job' \in [Workers -> Jobs]
    BY <1>4, <2>3 DEF Put, Delete, Jobs
  <2> QED
    BY <1>4, <2>2, <2>4 DEF Put, Delete, BlossomTypeOK
<1>5. ASSUME NEW j \in Workers, NEW u \in Users, List(j, u) PROVE BlossomTypeOK'
  BY <1>5 DEF List, BlossomTypeOK, Jobs
<1>6. ASSUME NEW j \in Workers, ListBucket(j) PROVE BlossomTypeOK'
  <2>1. job[j] \in ListJobs
    BY <1>6, JobKinds DEF ListBucket, Doing
  <2> QED
    BY <1>6, <2>1 DEF ListBucket, BlossomTypeOK, Jobs, ListJobs, FirstOf, Present
<1>7. ASSUME NEW j \in Workers, NEW h \in Hashes, Entry(j, h) PROVE BlossomTypeOK'
  <2>1. job[j] \in ListJobs
    BY <1>7, JobKinds DEF Entry, Doing
  <2> QED
    BY <1>7, <2>1 DEF Entry, BlossomTypeOK, Jobs, ListJobs
<1>8. ASSUME NEW j \in Workers, Reply(j) \/ Break(j) PROVE BlossomTypeOK'
  BY <1>8 DEF Reply, Break, EndJob, BlossomTypeOK, Jobs
<1>9. CASE UNCHANGED blossomVars
  BY <1>9 DEF blossomVars, BlossomTypeOK
<1> QED
  BY <1>1, <1>2, <1>3, <1>4, <1>5, <1>6, <1>7, <1>8, <1>9 DEF BlossomNext

LEMMA BlossomInitialType == BlossomInit => BlossomTypeOK
BY DEF BlossomInit, BlossomTypeOK, Jobs

(* The types of the bucket, of the authorizations and of the requests.     *)
THEOREM BlossomTypeCorrect == BlossomSpec => []BlossomTypeOK
BY BlossomInitialType, BlossomTypeInductive, PTL DEF BlossomSpec

(* A blob belongs to somebody who stored it; who is about to remove one    *)
(* has stored it too.                                                      *)
Stored ==
    /\ \A h \in Hashes : blobs[h] # Nobody => <<blobs[h], h>> \in uploaders
    /\ OnlyUploadersDelete

LEMMA StoredInductive == BlossomTypeOK /\ Stored /\ [BlossomNext]_blossomVars => Stored'
<1> SUFFICES ASSUME BlossomTypeOK, Stored, [BlossomNext]_blossomVars PROVE Stored'
  OBVIOUS
<1> USE DEF Stored, OnlyUploadersDelete, Doing
<1>1. ASSUME NEW a \in Signatures, Sign(a) \/ Expire(a) PROVE Stored'
  BY <1>1 DEF Sign, Expire
<1>2. ASSUME NEW a \in Signatures, NEW j \in Workers, Submit(j, a) PROVE Stored'
  BY <1>2 DEF Submit, BlossomTypeOK
<1>3. ASSUME NEW j \in Workers, HeadForUpload(j) \/ HeadForDelete(j) PROVE Stored'
  <2>1. job[j] \in ChangeJobs
    BY <1>3, JobKinds DEF HeadForUpload, HeadForDelete
  <2>2. job[j].auth.by \in Users /\ job[j].auth.hash \in Hashes
    BY <2>1 DEF ChangeJobs, Auths
  <2>3. job'[j].at = "delete" =>
          job'[j].auth = job[j].auth /\ blobs[job[j].auth.hash] = job[j].auth.by
    BY <1>3, <2>1 DEF HeadForUpload, HeadForDelete, EndJob, NoJob, BlossomTypeOK, ChangeJobs
  <2>4. \A k \in Workers \ {j} : job'[k] = job[k]
    BY <1>3 DEF HeadForUpload, HeadForDelete, EndJob, BlossomTypeOK
  <2>5. blobs' = blobs /\ uploaders' = uploaders
    BY <1>3 DEF HeadForUpload, HeadForDelete
  <2>6. job'[j].at = "delete" => <<job'[j].auth.by, job'[j].auth.hash>> \in uploaders
    BY <2>2, <2>3, BlossomSizes
  <2> QED
    BY <2>4, <2>5, <2>6
<1>4. ASSUME NEW j \in Workers, Put(j) \/ Delete(j) PROVE Stored'
  <2>1. job[j].auth.by \in Users /\ job[j].auth.hash \in Hashes
    BY <1>4, JobKinds DEF Put, Delete, ChangeJobs, Auths
  <2>2. \A k \in Workers : job'[k].at = "delete" => job'[k] = job[k]
    <3> SUFFICES ASSUME NEW k \in Workers, job'[k].at = "delete" PROVE job'[k] = job[k]
      OBVIOUS
    <3>1. job'[k] = IF k = j THEN NoJob
                    ELSE IF job[k].at \in {"list", "entries"}
                            /\ job[k].whose # (IF Put(j) THEN job[j].auth.by ELSE Nobody)
                         THEN [job[k] EXCEPT !.owned = @ \ {job[j].auth.hash}] ELSE job[k]
      BY <1>4 DEF Put, Delete, Disowned
    <3>2. CASE k = j
      BY <3>1, <3>2 DEF NoJob
    <3>3. CASE k # j /\ job[k].at \in {"list", "entries"}
      <4>1. job[k] \in ListJobs
        BY <3>3, JobKinds
      <4>2. [job[k] EXCEPT !.owned = @ \ {job[j].auth.hash}].at = job[k].at
        BY <4>1 DEF ListJobs
      <4> QED
        BY <3>1, <3>3, <4>2
    <3> QED
      BY <3>1, <3>2, <3>3
  <2>3. uploaders \subseteq uploaders'
    BY <1>4 DEF Put, Delete
  <2>4. \A h \in Hashes : blobs'[h] # Nobody => <<blobs'[h], h>> \in uploaders'
    BY <1>4, <2>1, <2>3 DEF Put, Delete, BlossomTypeOK
  <2> QED
    BY <2>2, <2>3, <2>4
<1>5. ASSUME NEW j \in Workers,
             \/ \E u \in Users : List(j, u)
             \/ ListBucket(j) \/ Reply(j) \/ Break(j) \/ \E h \in Hashes : Entry(j, h)
      PROVE  Stored'
  <2>1. \A k \in Workers : job'[k].at = "delete" => job'[k] = job[k]
    <3>1. job \in [Workers -> Jobs]
      BY DEF BlossomTypeOK
    <3>2. \A k \in Workers \ {j} : job'[k] = job[k]
      BY <1>5, <3>1 DEF List, ListBucket, Reply, Break, Entry, EndJob
    <3>3. CASE ListBucket(j) \/ \E h \in Hashes : Entry(j, h)
      <4>1. job[j] \in ListJobs
        BY <3>3, JobKinds DEF ListBucket, Entry
      <4>2. CASE ListBucket(j)
        BY <3>1, <3>2, <4>1, <4>2 DEF ListBucket, ListJobs
      <4>3. ASSUME NEW h \in Hashes, Entry(j, h)
            PROVE  \A k \in Workers : job'[k].at = "delete" => job'[k] = job[k]
        <5>1. job'[j].at = "entries"
          BY <3>1, <4>1, <4>3 DEF Entry, ListJobs, Doing
        <5> QED
          BY <3>2, <5>1
      <4> QED
        BY <3>3, <4>2, <4>3
    <3>4. CASE Reply(j) \/ Break(j) \/ \E u \in Users : List(j, u)
      <4>1. job'[j].at \in {"none", "list"}
        BY <3>1, <3>4 DEF Reply, Break, List, EndJob, NoJob
      <4> QED
        BY <3>2, <4>1
    <3> QED
      BY <1>5, <3>3, <3>4
  <2>2. blobs' = blobs /\ uploaders' = uploaders
    BY <1>5 DEF List, ListBucket, Reply, Break, Entry
  <2> QED
    BY <2>1, <2>2
<1>6. CASE UNCHANGED blossomVars
  BY <1>6 DEF blossomVars
<1> QED
  BY <1>1, <1>2, <1>3, <1>4, <1>5, <1>6 DEF BlossomNext

(* Whatever is removed was stored by the one who removes it, for every     *)
(* number of members, blobs and requests in flight.                        *)
THEOREM UploadersDelete == BlossomSpec => []OnlyUploadersDelete
<1>1. BlossomInit => Stored
  BY DEF BlossomInit, Stored, OnlyUploadersDelete, Doing, NoJob
<1>2. Stored => OnlyUploadersDelete
  BY DEF Stored
<1> QED
  BY <1>1, <1>2, BlossomTypeCorrect, StoredInductive, PTL DEF BlossomSpec

(* A list in progress still misses only what is left to look at, and what  *)
(* it must have is its user's.                                             *)
Complete ==
    \A j \in Workers : job[j].at \in {"list", "entries"} =>
        /\ \A h \in job[j].owned : blobs[h] = job[j].whose
        /\ Doing(j, "entries") => job[j].owned \subseteq job[j].left \cup job[j].found
        /\ job[j].whose \in Users

\* A step of one request that leaves the others and the bucket alone.
LEMMA OneListMoves ==
    ASSUME Complete, NEW j \in Workers, blobs' = blobs,
           \A k \in Workers \ {j} : job'[k] = job[k],
           job'[j].at \in {"list", "entries"} =>
              /\ \A h \in job'[j].owned : blobs[h] = job'[j].whose
              /\ job'[j].at = "entries" => job'[j].owned \subseteq job'[j].left \cup job'[j].found
              /\ job'[j].whose \in Users
    PROVE  Complete'
BY DEF Complete, Doing

LEMMA CompleteInductive == BlossomTypeOK /\ Complete /\ [BlossomNext]_blossomVars => Complete'
<1> SUFFICES ASSUME BlossomTypeOK, Complete, [BlossomNext]_blossomVars PROVE Complete'
  OBVIOUS
<1>0. job \in [Workers -> Jobs]
  BY DEF BlossomTypeOK
<1>1. ASSUME NEW a \in Signatures, Sign(a) \/ Expire(a) PROVE Complete'
  BY <1>1 DEF Sign, Expire, Complete, Doing
<1>2. ASSUME NEW j \in Workers,
             \/ \E a \in Signatures : Submit(j, a)
             \/ HeadForUpload(j) \/ HeadForDelete(j) \/ Reply(j) \/ Break(j)
      PROVE  Complete'
  <2>1. blobs' = blobs /\ \A k \in Workers \ {j} : job'[k] = job[k]
    BY <1>0, <1>2 DEF Submit, HeadForUpload, HeadForDelete, Reply, Break, EndJob
  <2>2. job'[j].at \notin {"list", "entries"}
    <3>1. CASE HeadForUpload(j) \/ HeadForDelete(j)
      <4>1. job[j] \in ChangeJobs
        BY <3>1, JobKinds DEF HeadForUpload, HeadForDelete, Doing
      <4> QED
        BY <1>0, <3>1, <4>1 DEF HeadForUpload, HeadForDelete, EndJob, NoJob, ChangeJobs
    <3> QED
      BY <1>0, <1>2, <3>1 DEF Submit, Reply, Break, EndJob, NoJob
  <2> QED
    BY <2>1, <2>2, OneListMoves
<1>3. ASSUME NEW j \in Workers, NEW u \in Users, List(j, u) PROVE Complete'
  <2>1. job'[j] = [at |-> "list", whose |-> u, left |-> {}, found |-> {},
                   owned |-> {h \in Hashes : blobs[h] = u}]
    BY <1>0, <1>3 DEF List
  <2>2. blobs' = blobs /\ \A k \in Workers \ {j} : job'[k] = job[k]
    BY <1>0, <1>3 DEF List
  <2> QED
    BY <2>1, <2>2, OneListMoves
<1>4. ASSUME NEW j \in Workers, ListBucket(j) PROVE Complete'
  <2>1. job[j] \in ListJobs
    BY <1>4, JobKinds DEF ListBucket, Doing
  <2>2. blobs' = blobs /\ \A k \in Workers \ {j} : job'[k] = job[k]
    BY <1>0, <1>4 DEF ListBucket
  <2>3. /\ job'[j].at = "entries" /\ job'[j].whose = job[j].whose
        /\ job'[j].left = FirstOf(Present) /\ job'[j].found = job[j].found
        /\ job'[j].owned = IF FirstOf(Present) = Present THEN job[j].owned ELSE {}
    BY <1>0, <1>4, <2>1 DEF ListBucket, ListJobs
  <2>4. /\ \A h \in job[j].owned : blobs[h] = job[j].whose
        /\ job[j].whose \in Users
    BY <1>4 DEF Complete, ListBucket, Doing
  <2>5. job[j].owned \subseteq Present
    BY <2>1, <2>4, BlossomSizes DEF Present, ListJobs
  <2> QED
    BY <2>2, <2>3, <2>4, <2>5, OneListMoves
<1>5. ASSUME NEW j \in Workers, NEW g \in Hashes, Entry(j, g) PROVE Complete'
  <2>1. job[j] \in ListJobs
    BY <1>5, JobKinds DEF Entry, Doing
  <2>2. blobs' = blobs /\ \A k \in Workers \ {j} : job'[k] = job[k]
    BY <1>0, <1>5 DEF Entry
  <2>3. /\ job'[j].at = "entries" /\ job'[j].whose = job[j].whose /\ job'[j].owned = job[j].owned
        /\ job'[j].left = job[j].left \ {g}
        /\ job'[j].found = IF blobs[g] = job[j].whose THEN job[j].found \cup {g} ELSE job[j].found
    BY <1>0, <1>5, <2>1 DEF Entry, ListJobs, Doing
  <2>4. /\ \A h \in job[j].owned : blobs[h] = job[j].whose
        /\ job[j].owned \subseteq job[j].left \cup job[j].found
        /\ job[j].whose \in Users
    BY <1>5 DEF Complete, Entry, Doing
  <2> QED
    BY <2>2, <2>3, <2>4, OneListMoves
<1>6. ASSUME NEW j \in Workers, Put(j) \/ Delete(j) PROVE Complete'
  <2> DEFINE h == job[j].auth.hash
             u == IF Put(j) THEN job[j].auth.by ELSE Nobody
  <2>1. /\ blobs' = [blobs EXCEPT ![h] = u]
        /\ job' = [Disowned(h, u) EXCEPT ![j] = NoJob]
    <3>1. CASE Put(j)
      BY <3>1 DEF Put
    <3>2. CASE ~Put(j)
      BY <1>6, <3>2 DEF Delete
    <3> QED
      BY <3>1, <3>2
  <2> HIDE DEF h, u
  <2> SUFFICES ASSUME NEW k \in Workers, job'[k].at \in {"list", "entries"}
               PROVE  /\ \A g \in job'[k].owned : blobs'[g] = job'[k].whose
                      /\ job'[k].at = "entries" =>
                           job'[k].owned \subseteq job'[k].left \cup job'[k].found
                      /\ job'[k].whose \in Users
    BY DEF Complete, Doing
  <2>2. job'[k] = IF k = j THEN NoJob
                  ELSE IF job[k].at \in {"list", "entries"} /\ job[k].whose # u
                       THEN [job[k] EXCEPT !.owned = @ \ {h}] ELSE job[k]
    BY <2>1 DEF Disowned
  <2>3. k # j
    BY <2>2 DEF NoJob
  <2>4. job[k] \in ListJobs
    <3>1. CASE job[k].at \in {"list", "entries"}
      BY <3>1, JobKinds
    <3>2. CASE job[k].at \notin {"list", "entries"}
      BY <2>2, <2>3, <3>2
    <3> QED
      BY <3>1, <3>2
  <2>5. job[k].at \in {"list", "entries"}
    BY <2>4 DEF ListJobs
  <2>6. /\ \A g \in job[k].owned : blobs[g] = job[k].whose
        /\ job[k].at = "entries" => job[k].owned \subseteq job[k].left \cup job[k].found
        /\ job[k].whose \in Users
    BY <2>5 DEF Complete, Doing
  <2>7. \A g \in Hashes : blobs'[g] = IF g = h THEN u ELSE blobs[g]
    BY <2>1 DEF BlossomTypeOK
  <2>8. CASE job[k].whose # u
    <3>1. /\ job'[k].at = job[k].at /\ job'[k].whose = job[k].whose
          /\ job'[k].owned = job[k].owned \ {h}
          /\ job'[k].left = job[k].left /\ job'[k].found = job[k].found
      BY <2>2, <2>3, <2>4, <2>5, <2>8 DEF ListJobs
    <3>2. job[k].owned \subseteq Hashes
      BY <2>4 DEF ListJobs
    <3> QED
      BY <2>6, <2>7, <3>1, <3>2
  <2>9. CASE job[k].whose = u
    <3>1. job'[k] = job[k]
      BY <2>2, <2>3, <2>9
    <3>2. job[k].owned \subseteq Hashes
      BY <2>4 DEF ListJobs
    <3> QED
      BY <2>6, <2>7, <2>9, <3>1, <3>2
  <2> QED
    BY <2>8, <2>9
<1>7. CASE UNCHANGED blossomVars
  BY <1>7 DEF blossomVars, Complete, Doing
<1> QED
  BY <1>1, <1>2, <1>3, <1>4, <1>5, <1>6, <1>7 DEF BlossomNext

(* A member's list has all that was the member's throughout, for every     *)
(* limit of the listing.                                                   *)
THEOREM ListComplete == BlossomSpec => []OwnListed
<1>1. BlossomInit => Complete
  BY DEF BlossomInit, Complete, Doing, NoJob
<1>2. Complete => OwnListed
  BY DEF Complete, OwnListed, Doing
<1> QED
  BY <1>1, <1>2, BlossomTypeCorrect, CompleteInductive, PTL DEF BlossomSpec

-----------------------------------------------------------------------------
(* Session *)

(* A set of natural numbers that is not empty has a least one. *)
LEMMA Least ==
    ASSUME NEW T \in SUBSET Nat, T # {}
    PROVE  Min(T) \in T
<1> DEFINE R == {ss \in Nat \X Nat : ss[1] < ss[2]}
<1>1. IsWellFoundedOn(R, Nat)
  BY NatLessThanWellFounded DEF OpToRel
<1>2. PICK x \in T : \A y \in T : ~(<<y, x>> \in R)
  <2> HIDE DEF R
  <2> QED BY <1>1, WFMin
<1>3. \A y \in T : x =< y
  <2> TAKE y \in T
  <2>1. x \in Nat /\ y \in Nat /\ ~(y < x)
    BY <1>2
  <2> QED BY <2>1
<1> QED BY <1>2, <1>3 DEF Min

LEMMA SlotsAreMany ==
    /\ Slots \in SUBSET (Nat \ {0}) /\ None \notin Slots
    /\ IsFiniteSet(Slots) /\ Cardinality(Slots) > Cardinality(Procs)
<1>1. Cardinality(Procs) \in Nat
  BY SessionBounds, FS_CardinalityType
<1>2. IsFiniteSet(Slots) /\ Cardinality(Slots) = Cardinality(Procs) + 1
  BY <1>1, FS_Interval DEF Slots
<1> QED BY <1>1, <1>2 DEF Slots, None

(* A message in flight uses one slot of its connection, so one is left. *)
LEMMA SlotFree ==
    ASSUME NEW c
    PROVE  \E o \in Slots : \A p \in Procs : ~(On(handler[p], c) /\ handler[p].slot = o)
<1> SUFFICES ASSUME \A o \in Slots : \E p \in Procs : On(handler[p], c) /\ handler[p].slot = o
             PROVE  FALSE
  OBVIOUS
<1> DEFINE user == [o \in Slots |-> CHOOSE p \in Procs : On(handler[p], c) /\ handler[p].slot = o]
<1>1. \A o \in Slots : user[o] \in Procs /\ handler[user[o]].slot = o
  OBVIOUS
<1>2. user \in Injection(Slots, Procs)
  BY <1>1 DEF Injection, IsInjective
<1>3. Cardinality(Slots) <= Cardinality(Procs)
  BY <1>2, SessionBounds, FS_Injection
<1>4. Cardinality(Slots) \in Nat /\ Cardinality(Procs) \in Nat
  BY SlotsAreMany, SessionBounds, FS_CardinalityType
<1> QED BY <1>3, <1>4, SlotsAreMany

(* A new session object is put where no message in flight has one. *)
LEMMA SlotType ==
    ASSUME Shapes, NEW c \in Conns
    PROVE  /\ Slot(c) \in Slots
           /\ sessions[c] # None => Slot(c) = sessions[c]
           /\ sessions[c] = None =>
                \A p \in Procs : ~(On(handler[p], c) /\ handler[p].slot = Slot(c))
<1> DEFINE T == {o \in Slots : \A p \in Procs : ~(On(handler[p], c) /\ handler[p].slot = o)}
<1>1. CASE sessions[c] # None
  BY <1>1 DEF Shapes, Slot
<1>2. CASE sessions[c] = None
  <2>1. T # {} /\ T \in SUBSET Nat
    BY SlotFree, SlotsAreMany
  <2>2. Min(T) \in T
    BY <2>1, Least
  <2>3. Slot(c) = Min(T)
    BY <1>2 DEF Slot
  <2> QED BY <2>2, <2>3, <1>2
<1> QED BY <1>1, <1>2

(* Objects keep their shape, and those that are referred to their contents. *)
LEMMA HeapType ==
    ASSUME NEW heap \in [Conns -> [Slots -> Held]], NEW map, NEW running
    PROVE  Heap(heap, map, running) \in [Conns -> [Slots -> Held]]
<1>1. Blank \in Held
  BY SessionBounds DEF Blank, Held, Challenges, None
<1> QED BY <1>1 DEF Heap

LEMMA CurrentType ==
    ASSUME Shapes, NEW c \in Conns
    PROVE  Current(c) \in Held /\ Restored(c) \in Held
<1>1. Restored(c) \in Held
  BY DEF Shapes, Restored, Held
<1> QED BY <1>1 DEF Shapes, Current

LEMMA HandlerType ==
    ASSUME Shapes, NEW p \in Procs, InFlight(p)
    PROVE  /\ handler[p].conn \in Conns /\ handler[p].slot \in Slots
           /\ On(handler[p], handler[p].conn)
           /\ handler[p].at \in {"verify", "query", "save", "announce"}
           /\ handler[p].at = "verify" => handler[p].key \in Keys /\ handler[p].challenge \in Challenges
BY DEF Shapes, InFlight, On

LEMMA AtInFlight ==
    ASSUME NEW p, handler[p].at # "idle"
    PROVE  InFlight(p)
BY DEF InFlight, Idle

(* A message that is received, and the end of one, leave what is of their  *)
(* variables in shape.                                                     *)
LEMMA ReceiveShape ==
    ASSUME Shapes, NEW c \in Conns, NEW s \in Held, Receive(c, s)
    PROVE  /\ sessions' \in [Conns -> Slots \cup {None}]
           /\ objects' \in [Conns -> [Slots -> Held]]
           /\ sent' \in [Conns -> SUBSET Challenges]
<1> DEFINE placed == [objects EXCEPT ![c][Slot(c)] = s]
<1>1. Slot(c) \in Slots
  BY SlotType
<1>2. placed \in [Conns -> [Slots -> Held]]
  BY <1>1 DEF Shapes
<1>3. objects' = Heap(placed, sessions', handler')
  BY DEF Receive
<1>4. objects' \in [Conns -> [Slots -> Held]]
  <2> HIDE DEF placed
  <2> QED BY <1>2, <1>3, HeapType
<1>5. Restored(c).challenge \in Challenges
  BY DEF Shapes, Restored
<1> QED BY <1>1, <1>4, <1>5 DEF Receive, Shapes

LEMMA AttachShape ==
    ASSUME Shapes, NEW c \in Conns, NEW s \in Held, Attach(c, s)
    PROVE  attachment' \in [Conns -> [auth : SUBSET Keys, challenge : Challenges]]
BY DEF Attach, Shapes, Held

LEMMA AwakenShape ==
    ASSUME Shapes, NEW running, Awaken(running)
    PROVE  /\ sessions' \in [Conns -> Slots \cup {None}]
           /\ objects' \in [Conns -> [Slots -> Held]]
<1> DEFINE found == [c \in Conns |-> IF c \in Open THEN Slot(c) ELSE sessions[c]]
           placed == [c \in Conns |-> [o \in Slots |->
                         IF o = found[c] THEN Current(c) ELSE objects[c][o]]]
<1>1. found \in [Conns -> Slots \cup {None}]
  BY SlotType DEF Shapes
<1>2. placed \in [Conns -> [Slots -> Held]]
  <2>1. ASSUME NEW c \in Conns, NEW o \in Slots
        PROVE  (IF o = found[c] THEN Current(c) ELSE objects[c][o]) \in Held
    BY CurrentType DEF Shapes
  <2> HIDE DEF found
  <2> QED BY <2>1
<1>3. sessions' = found /\ objects' = Heap(placed, found, running)
  BY DEF Awaken
<1> QED
  <2> HIDE DEF found, placed
  <2> QED BY <1>1, <1>2, <1>3, HeapType

(* A challenge is generated with every AUTH that is accepted. *)
Counted == \A c \in Conns : accepted[c] <= issued[c]

LEMMA ShapesInductive == Shapes /\ Counted /\ [Next]_vars => Shapes'
<1> SUFFICES ASSUME Shapes, Counted, [Next]_vars PROVE Shapes'
  OBVIOUS
<1> USE DEF memory, durable, timer, history
<1>0. 1 \in Challenges /\ 0 \in Challenges /\ \A n \in Challenges : n < MaxChallenges => n + 1 \in Challenges
  BY SessionBounds DEF Challenges
<1>1. ASSUME NEW c \in Conns, Connect(c) PROVE Shapes'
  <2>1. Slot(c) \in Slots
    BY SlotType
  <2>2. [Blank EXCEPT !.challenge = 1] \in Held
    BY <1>0 DEF Blank, Held
  <2>3. objects' \in [Conns -> [Slots -> Held]]
    BY <1>1, <2>1, <2>2 DEF Connect, Shapes
  <2> QED BY <1>0, <1>1, <2>1, <2>3 DEF Connect, Shapes
<1>2. ASSUME NEW c \in Conns, Refuse(c) PROVE Shapes'
  <2>1. Current(c) \in Held
    BY CurrentType
  <2> QED BY <1>2, <2>1, ReceiveShape, AttachShape DEF Refuse, Shapes
<1>3. ASSUME NEW c \in Conns, Disconnect(c) PROVE Shapes'
  <2>1. objects' \in [Conns -> [Slots -> Held]]
    BY <1>3, HeapType DEF Disconnect, Shapes
  <2> QED BY <1>3, <2>1 DEF Disconnect, Shapes
<1>4. ASSUME NEW c \in Conns, Fail(c) PROVE Shapes'
  <2>1. objects' \in [Conns -> [Slots -> Held]]
    BY <1>4, HeapType DEF Fail, Shapes
  <2> QED BY <1>4, <2>1 DEF Fail, Shapes
<1>5. ASSUME NEW p \in Procs, NEW c \in Conns, NEW k \in Keys, NEW n \in sent[c], Auth(p, c, k, n)
      PROVE  Shapes'
  <2>1. Current(c) \in Held /\ Slot(c) \in Slots /\ n \in Challenges
    BY CurrentType, SlotType DEF Shapes
  <2>2. handler' \in [Procs -> {Idle}
           \cup [at : {"verify"}, conn : Conns, slot : Slots, key : Keys, challenge : Challenges]
           \cup [at : {"query", "save", "announce"}, conn : Conns, slot : Slots]]
    BY <1>5, <2>1 DEF Auth, Shapes
  <2>3. UNCHANGED <<durable, timer, issued, accepted, granted, asked, split>> /\ Receive(c, Current(c))
    BY <1>5 DEF Auth
  <2> QED BY <2>1, <2>2, <2>3, ReceiveShape DEF Shapes
<1>6. ASSUME NEW p \in Procs, NEW c \in Conns, NEW sub \in Subs, Req(p, c, sub) PROVE Shapes'
  <2> DEFINE s == [Current(c) EXCEPT !.subs = @ \cup {sub}]
  <2>1. Current(c) \in Held /\ Slot(c) \in Slots
    BY CurrentType, SlotType
  <2>2. s \in Held
    BY <2>1 DEF Held
  <2>3. handler' \in [Procs -> {Idle}
           \cup [at : {"verify"}, conn : Conns, slot : Slots, key : Keys, challenge : Challenges]
           \cup [at : {"query", "save", "announce"}, conn : Conns, slot : Slots]]
    BY <1>6, <2>1 DEF Req, Shapes
  <2>4. stored' \in [Conns -> SUBSET Subs] /\ asked' \in [Conns -> SUBSET Subs]
    BY <1>6, <2>2 DEF Req, Shapes, Held
  <2>5. UNCHANGED <<socket, attachment, timer, issued, accepted, granted, split>> /\ Receive(c, s)
    BY <1>6 DEF Req
  <2> HIDE DEF s
  <2> QED BY <2>2, <2>3, <2>4, <2>5, ReceiveShape DEF Shapes
<1>7. ASSUME NEW c \in Conns, NEW sub \in Subs, CloseSubscription(c, sub) PROVE Shapes'
  <2> DEFINE s == [Current(c) EXCEPT !.subs = @ \ {sub}]
  <2>1. Current(c) \in Held
    BY CurrentType
  <2>2. s \in Held
    BY <2>1 DEF Held
  <2>3. stored' \in [Conns -> SUBSET Subs] /\ asked' \in [Conns -> SUBSET Subs]
    BY <1>7, <2>2 DEF CloseSubscription, Shapes, Held
  <2>4. /\ UNCHANGED <<socket, handler, timer, issued, accepted, granted, split>>
        /\ Receive(c, s) /\ Attach(c, s)
    BY <1>7 DEF CloseSubscription
  <2> HIDE DEF s
  <2> QED BY <2>2, <2>3, <2>4, ReceiveShape, AttachShape DEF Shapes
<1>8. ASSUME NEW p \in Procs, NEW c \in Conns, Event(p, c) PROVE Shapes'
  <2>1. Current(c) \in Held /\ Slot(c) \in Slots
    BY CurrentType, SlotType
  <2>2. handler' \in [Procs -> {Idle}
           \cup [at : {"verify"}, conn : Conns, slot : Slots, key : Keys, challenge : Challenges]
           \cup [at : {"query", "save", "announce"}, conn : Conns, slot : Slots]]
    BY <1>8, <2>1 DEF Event, Shapes
  <2>3. UNCHANGED <<durable, timer, issued, accepted, granted, asked, split>> /\ Receive(c, Current(c))
    BY <1>8 DEF Event
  <2> QED BY <2>1, <2>2, <2>3, ReceiveShape DEF Shapes
<1>9. ASSUME NEW p \in Procs, Grant(p) PROVE Shapes'
  <2> DEFINE c == handler[p].conn
             k == handler[p].key
             s == [objects[c][handler[p].slot] EXCEPT !.auth = @ \cup {k}, !.challenge = issued[c] + 1]
             placed == [objects EXCEPT ![c][handler[p].slot] = s]
  <2>1. InFlight(p)
    BY <1>9, AtInFlight DEF Grant
  <2>2. c \in Conns /\ handler[p].slot \in Slots /\ k \in Keys
    BY <1>9, <2>1, HandlerType DEF Grant
  <2>3. issued[c] + 1 \in Challenges /\ accepted[c] + 1 \in Challenges
    <3>1. issued[c] \in Challenges /\ accepted[c] \in Challenges /\ accepted[c] <= issued[c]
      BY <2>2 DEF Shapes, Counted
    <3>2. issued[c] < MaxChallenges
      BY <1>9 DEF Grant
    <3> QED BY <3>1, <3>2, SessionBounds DEF Challenges
  <2>4. s \in Held
    <3>1. objects[c][handler[p].slot] \in Held
      BY <2>2 DEF Shapes
    <3> HIDE DEF c, k
    <3> QED BY <2>2, <2>3, <3>1 DEF Held
  <2>5. placed \in [Conns -> [Slots -> Held]] /\ Attach(c, s)
    BY <1>9, <2>2, <2>4 DEF Grant, Shapes
  <2>6. objects' \in [Conns -> [Slots -> Held]]
    BY <1>9, <2>5, HeapType DEF Grant
  <2>7. attachment' \in [Conns -> [auth : SUBSET Keys, challenge : Challenges]]
    <3> HIDE DEF c, s
    <3> QED BY <2>2, <2>4, <2>5, AttachShape
  <2>8. /\ handler' = [handler EXCEPT ![p] = Idle]
        /\ issued' = [issued EXCEPT ![c] = @ + 1] /\ accepted' = [accepted EXCEPT ![c] = @ + 1]
        /\ granted' = [granted EXCEPT ![c] = @ \cup {k}]
        /\ UNCHANGED <<socket, stored, sessions, timer, sent, asked, split>>
    BY <1>9 DEF Grant
  <2> HIDE DEF c, k, s, placed
  <2> QED BY <2>2, <2>3, <2>6, <2>7, <2>8 DEF Shapes
<1>10. ASSUME NEW p \in Procs, Announce(p) PROVE Shapes'
  <2>1. InFlight(p)
    BY <1>10, AtInFlight DEF Announce
  <2>2. handler' \in [Procs -> {Idle}
           \cup [at : {"verify"}, conn : Conns, slot : Slots, key : Keys, challenge : Challenges]
           \cup [at : {"query", "save", "announce"}, conn : Conns, slot : Slots]]
    <3>1. handler[p] \in [at : {"query", "save", "announce"}, conn : Conns, slot : Slots]
      BY <1>10 DEF Announce, Shapes, Idle
    <3>2. [handler[p] EXCEPT !.at = "announce"]
            \in [at : {"query", "save", "announce"}, conn : Conns, slot : Slots]
      BY <3>1
    <3> QED BY <1>10, <3>2 DEF Announce, Shapes
  <2>3. UNCHANGED <<durable, timer, history>> /\ Awaken(handler')
    BY <1>10 DEF Announce
  <2> QED BY <2>2, <2>3, AwakenShape DEF Shapes
<1>11. ASSUME NEW p \in Procs, Finish(p) PROVE Shapes'
  <2> DEFINE s == objects[handler[p].conn][handler[p].slot]
  <2>1. handler[p].conn \in Conns /\ handler[p].slot \in Slots
    BY <1>11, HandlerType DEF Finish
  <2>2. s \in Held
    BY <2>1 DEF Shapes
  <2>3. /\ UNCHANGED <<socket, stored, sessions, timer, history>>
        /\ Attach(handler[p].conn, s)
        /\ handler' = [handler EXCEPT ![p] = Idle]
    BY <1>11 DEF Finish
  <2>4. objects' \in [Conns -> [Slots -> Held]]
    BY <1>11, HeapType DEF Finish, Shapes
  <2> HIDE DEF s
  <2> QED BY <2>1, <2>2, <2>3, <2>4, AttachShape DEF Shapes
<1>12. CASE DOBroadcast
  BY <1>12, AwakenShape DEF DOBroadcast, Shapes
<1>13. CASE Hibernate
  <2>1. objects' \in [Conns -> [Slots -> Held]]
    BY <1>13, HeapType DEF Hibernate, Shapes
  <2> QED BY <1>13, <2>1 DEF Hibernate, Shapes
<1>14. CASE Crash
  <2>1. objects' \in [Conns -> [Slots -> Held]]
    BY <1>14, HeapType DEF Crash, Shapes
  <2>2. (tick # "idle") \in BOOLEAN
    OBVIOUS
  <2> QED BY <1>14, <2>1, <2>2 DEF Crash, Shapes
<1>15. CASE AlarmFires
  BY <1>15 DEF AlarmFires, Shapes
<1>16. CASE Reschedule
  BY <1>16 DEF Reschedule, Shapes
<1>17. CASE Cleanup
  <2>1. objects' \in [Conns -> [Slots -> Held]]
    BY <1>17, HeapType DEF Cleanup, Shapes
  <2>2. split' \subseteq Conns
    BY <1>17 DEF Cleanup, Shapes, Open
  <2> QED BY <1>17, <2>1, <2>2 DEF Cleanup, Shapes
<1>18. CASE UNCHANGED vars
  BY <1>18 DEF Shapes, vars
<1> QED
  BY <1>1, <1>2, <1>3, <1>4, <1>5, <1>6, <1>7, <1>8, <1>9, <1>10, <1>11, <1>12, <1>13, <1>14,
     <1>15, <1>16, <1>17, <1>18 DEF Next

-----------------------------------------------------------------------------
(* Somebody refers to an object of a connection: the map, or a message. *)
Refers(c, o) == sessions[c] = o \/ \E p \in Procs : On(handler[p], c) /\ handler[p].slot = o

(* Nothing is known of a connection that was never opened. *)
Untouched(c) ==
    socket[c] = "new" =>
        /\ sessions[c] = None /\ \A p \in Procs : ~On(handler[p], c)
        /\ stored[c] = {} /\ sent[c] = {} /\ granted[c] = {} /\ asked[c] = {}
        /\ attachment[c].auth = {}
        /\ issued[c] = 0 /\ accepted[c] = 0 /\ c \notin split

(* What holds of every connection: the subscriptions are the same in the   *)
(* map's object, in the storage and with the client, no object that        *)
(* somebody refers to is without a challenge, and no key is known that was *)
(* not granted.                                                            *)
Kept(c) ==
    /\ sessions[c] # None => socket[c] = "open" /\ objects[c][sessions[c]].subs = asked[c]
    /\ socket[c] = "open" => attachment[c].challenge # None /\ stored[c] = asked[c]
    /\ socket[c] # "new" => issued[c] = accepted[c] + 1
    /\ attachment[c].auth \subseteq granted[c]
    /\ \A o \in Slots : Refers(c, o) =>
          objects[c][o].challenge # None /\ objects[c][o].auth \subseteq granted[c]

(* And of those whose session was never dropped during a message: at most  *)
(* one object, the map's while the connection is open; it agrees with the  *)
(* attachment, has the keys that were granted and the newest challenge; of *)
(* all challenges the client knows only the first.                         *)
OneObject(c) ==
    /\ \A o1, o2 \in Slots : Refers(c, o1) /\ Refers(c, o2) => o1 = o2
    /\ socket[c] = "open" /\ sessions[c] = None => \A p \in Procs : ~On(handler[p], c)

Agrees(c) ==
    /\ \A o \in Slots : Refers(c, o) =>
          objects[c][o].auth = granted[c] /\ objects[c][o].challenge = issued[c]
    /\ socket[c] = "open" => attachment[c].auth = granted[c] /\ attachment[c].challenge = issued[c]

OnlyFirst(c) ==
    /\ sent[c] \subseteq {1}
    /\ granted[c] = {} <=> accepted[c] = 0
    /\ accepted[c] <= 1
    /\ \A p \in Procs :
          On(handler[p], c) /\ handler[p].at = "verify" => handler[p].challenge \in sent[c]

Good(c) == Untouched(c) /\ Kept(c) /\ (c \notin split => OneObject(c) /\ Agrees(c) /\ OnlyFirst(c))

(* What a step does to one connection is one of four things. A message in  *)
(* flight goes on with the object it has, or is over.                      *)
GoesOn(p, d) ==
    /\ On(handler[p], d) /\ handler'[p].slot = handler[p].slot
    /\ handler'[p].at = "verify" => handler[p].at = "verify" /\ handler'[p].challenge = handler[p].challenge

(* It is opened. *)
Opens(d) ==
    /\ socket[d] = "new" /\ socket'[d] = "open"
    /\ sessions'[d] \in Slots /\ objects'[d][sessions'[d]] = [Blank EXCEPT !.challenge = 1]
    /\ attachment'[d] = [auth |-> {}, challenge |-> 1]
    /\ handler' = handler /\ split' = split
    /\ issued'[d] = 1 /\ sent'[d] = {1}
    /\ stored'[d] = stored[d] /\ asked'[d] = asked[d]
    /\ accepted'[d] = accepted[d] /\ granted'[d] = granted[d]

(* It lets go of objects, or leaves them as they are; the attachment may   *)
(* be written from one of them.                                            *)
LetsGo(d) ==
    /\ \A p \in Procs : On(handler'[p], d) => GoesOn(p, d)
    /\ sessions'[d] \in {sessions[d], None}
    /\ \A o \in Slots : Refers(d, o)' => objects'[d][o] = objects[d][o]
    /\ socket'[d] = socket[d] \/ (socket[d] = "open" /\ socket'[d] = "closed" /\ sessions'[d] = None)
    /\ \/ attachment'[d] = attachment[d]
       \/ \E o \in Slots : /\ Refers(d, o)
                           /\ attachment'[d].auth = objects[d][o].auth
                           /\ attachment'[d].challenge = objects[d][o].challenge
    /\ stored'[d] = stored[d] \/ (socket'[d] # "open" /\ stored'[d] = {})
    /\ asked'[d] = asked[d] /\ issued'[d] = issued[d] /\ sent'[d] = sent[d]
    /\ accepted'[d] = accepted[d] /\ granted'[d] = granted[d]
    /\ d \in split => d \in split'
    /\ d \in split' => d \in split \/ socket[d] = "open"
    /\ socket'[d] = "open" /\ sessions[d] # None /\ sessions'[d] = None /\ d \notin split' =>
          \A p \in Procs : ~On(handler'[p], d)

(* It is found, in the map or restored, for a message or a broadcast; only *)
(* its subscriptions may change.                                           *)
Arrives(d) ==
    /\ socket[d] = "open" /\ socket'[d] = "open"
    /\ sessions'[d] = Slot(d)
    /\ \A p \in Procs : On(handler'[p], d) =>
          \/ GoesOn(p, d)
          \/ /\ handler'[p].slot = Slot(d)
             /\ handler'[p].at = "verify" => handler'[p].challenge \in sent[d]
    /\ objects'[d][Slot(d)].auth = Current(d).auth
    /\ objects'[d][Slot(d)].challenge = Current(d).challenge
    /\ objects'[d][Slot(d)].subs = asked'[d]
    /\ \A o \in Slots : Refers(d, o)' /\ o # Slot(d) => objects'[d][o] = objects[d][o]
    /\ \/ attachment'[d] = attachment[d]
       \/ attachment'[d].auth = Current(d).auth /\ attachment'[d].challenge = Current(d).challenge
    /\ stored'[d] = asked'[d]
    /\ \/ sent'[d] = sent[d]
       \/ /\ sessions[d] = None /\ attachment[d].auth = {}
          /\ sent'[d] = sent[d] \cup {attachment[d].challenge}
    /\ issued'[d] = issued[d] /\ accepted'[d] = accepted[d] /\ granted'[d] = granted[d]
    /\ d \in split' <=> d \in split

(* An AUTH is accepted. *)
Accepts(d) ==
    \E p \in Procs, k \in Keys :
        /\ On(handler[p], d) /\ handler[p].at = "verify" /\ handler[p].slot \in Slots
        /\ handler[p].challenge = objects[d][handler[p].slot].challenge
        /\ handler' = [handler EXCEPT ![p] = Idle]
        /\ \A o \in Slots : Refers(d, o)' =>
              IF o = handler[p].slot
              THEN /\ objects'[d][o].auth = objects[d][o].auth \cup {k}
                   /\ objects'[d][o].challenge = issued[d] + 1
                   /\ objects'[d][o].subs = objects[d][o].subs
              ELSE objects'[d][o] = objects[d][o]
        /\ IF socket[d] = "open"
           THEN /\ attachment'[d].auth = objects[d][handler[p].slot].auth \cup {k}
                /\ attachment'[d].challenge = issued[d] + 1
           ELSE attachment'[d] = attachment[d]
        /\ issued'[d] = issued[d] + 1 /\ accepted'[d] = accepted[d] + 1
        /\ granted'[d] = granted[d] \cup {k}
        /\ socket'[d] = socket[d] /\ stored'[d] = stored[d] /\ sessions'[d] = sessions[d]
        /\ sent'[d] = sent[d] /\ asked'[d] = asked[d]
        /\ d \in split' <=> d \in split

LEMMA OpensGood == ASSUME Shapes, NEW d \in Conns, Good(d), Opens(d) PROVE Good(d)'
<1>1. Untouched(d)' /\ d \notin split'
  BY DEF Good, Opens, Untouched
<1>2. \A o \in Slots : Refers(d, o)' <=> o = sessions'[d]
  BY DEF Good, Untouched, Opens, Refers
<1>3. objects'[d][sessions'[d]].auth = {} /\ objects'[d][sessions'[d]].challenge = 1
      /\ objects'[d][sessions'[d]].subs = {}
  BY DEF Opens, Blank
<1>4. Kept(d)'
  <2>1. /\ socket'[d] = "open" /\ asked'[d] = {} /\ stored'[d] = {} /\ granted'[d] = {}
        /\ issued'[d] = 1 /\ accepted'[d] = 0
        /\ attachment'[d].auth = {} /\ attachment'[d].challenge = 1
    BY DEF Good, Untouched, Opens
  <2> QED BY <1>2, <1>3, <2>1 DEF Kept, None
<1>5. OneObject(d)'
  BY <1>2 DEF OneObject, Opens, Good, Untouched
<1>6. Agrees(d)'
  <2>1. /\ granted'[d] = {} /\ issued'[d] = 1
        /\ attachment'[d].auth = {} /\ attachment'[d].challenge = 1
    BY DEF Good, Untouched, Opens
  <2> QED BY <1>2, <1>3, <2>1 DEF Agrees
<1>7. OnlyFirst(d)'
  BY DEF OnlyFirst, Opens, Good, Untouched
<1> QED BY <1>1, <1>4, <1>5, <1>6, <1>7 DEF Good

LEMMA LetsGoGood == ASSUME Shapes, NEW d \in Conns, Good(d), LetsGo(d) PROVE Good(d)'
<1>1. \A o \in Slots : Refers(d, o)' => Refers(d, o) /\ objects'[d][o] = objects[d][o]
  BY SlotsAreMany DEF LetsGo, Refers, GoesOn
<1>2. Untouched(d)'
  <2> SUFFICES ASSUME socket'[d] = "new" PROVE Untouched(d)'
    BY DEF Untouched
  <2>1. socket[d] = "new"
    BY DEF LetsGo
  <2>2. /\ sessions[d] = None /\ \A p \in Procs : ~On(handler[p], d)
        /\ stored[d] = {} /\ sent[d] = {} /\ granted[d] = {} /\ asked[d] = {}
        /\ attachment[d].auth = {}
        /\ issued[d] = 0 /\ accepted[d] = 0 /\ d \notin split
    BY <2>1 DEF Good, Untouched
  <2>3. \A o \in Slots : ~Refers(d, o)
    BY <2>2, SlotsAreMany DEF Refers
  <2> QED BY <2>1, <2>2, <2>3 DEF LetsGo, Untouched, GoesOn
<1>3. Kept(d)'
  <2>1. Kept(d)
    BY DEF Good
  <2>2. attachment'[d].auth \subseteq granted'[d]
    BY <2>1 DEF LetsGo, Kept
  <2>3. sessions'[d] # None =>
          socket'[d] = "open" /\ objects'[d][sessions'[d]].subs = asked'[d]
    BY <2>1 DEF LetsGo, Kept, Refers, Shapes
  <2>4. socket'[d] = "open" => attachment'[d].challenge # None /\ stored'[d] = asked'[d]
    BY <2>1 DEF LetsGo, Kept
  <2>5. socket'[d] # "new" => issued'[d] = accepted'[d] + 1
    BY <2>1 DEF LetsGo, Kept
  <2> QED BY <1>1, <2>1, <2>2, <2>3, <2>4, <2>5 DEF LetsGo, Kept
<1>4. ASSUME d \notin split' PROVE OneObject(d)' /\ Agrees(d)' /\ OnlyFirst(d)'
  <2>1. OneObject(d) /\ Agrees(d) /\ OnlyFirst(d)
    BY <1>4 DEF Good, LetsGo
  <2>2. OneObject(d)'
    BY <1>1, <1>4, <2>1 DEF OneObject, LetsGo, GoesOn
  <2>3. Agrees(d)'
    BY <1>1, <2>1 DEF Agrees, LetsGo
  <2>4. OnlyFirst(d)'
    BY <1>1, <2>1 DEF OnlyFirst, LetsGo, GoesOn
  <2> QED BY <2>2, <2>3, <2>4
<1> QED BY <1>2, <1>3, <1>4 DEF Good

LEMMA ArrivesGood == ASSUME Shapes, NEW d \in Conns, Good(d), Arrives(d) PROVE Good(d)'
<1>1. Slot(d) \in Slots /\ Slot(d) # None
  BY SlotType, SlotsAreMany
<1>2. \A o \in Slots : Refers(d, o)' => o = Slot(d) \/ (Refers(d, o) /\ objects'[d][o] = objects[d][o])
  BY DEF Arrives, Refers, GoesOn
<1>3. Current(d).challenge # None /\ Current(d).auth \subseteq granted[d]
  BY SlotsAreMany DEF Current, Restored, Good, Kept, Arrives, Refers, Shapes
<1>4. Untouched(d)'
  BY DEF Arrives, Untouched
<1>5. Kept(d)'
  BY <1>1, <1>2, <1>3 DEF Good, Arrives, Kept
<1>6. ASSUME d \notin split' PROVE OneObject(d)' /\ Agrees(d)' /\ OnlyFirst(d)'
  <2>1. OneObject(d) /\ Agrees(d) /\ OnlyFirst(d)
    BY <1>6 DEF Good, Arrives
  <2>2. \A o \in Slots : Refers(d, o) => o = Slot(d)
    <3>1. CASE sessions[d] = None
      BY <3>1, <2>1, SlotsAreMany DEF OneObject, Refers, Arrives
    <3>2. CASE sessions[d] # None
      BY <3>2, <2>1, <1>1, SlotType DEF OneObject, Refers
    <3> QED BY <3>1, <3>2
  <2>3. OneObject(d)'
    BY <1>1, <1>2, <2>2 DEF OneObject, Arrives
  <2>4. Current(d).auth = granted[d] /\ Current(d).challenge = issued[d]
    BY <2>1, SlotsAreMany DEF Current, Restored, Agrees, Arrives, Refers, Shapes
  <2>5. Agrees(d)'
    BY <1>2, <2>2, <2>4, <2>1 DEF Agrees, Arrives
  <2>6. sent'[d] \subseteq {1} /\ sent[d] \subseteq sent'[d]
    BY <2>1 DEF OnlyFirst, Arrives, Agrees, Good, Kept
  <2>7. OnlyFirst(d)'
    BY <2>1, <2>6 DEF OnlyFirst, Arrives, GoesOn
  <2> QED BY <2>3, <2>5, <2>7
<1> QED BY <1>4, <1>5, <1>6 DEF Good

LEMMA AcceptsGood == ASSUME Shapes, NEW d \in Conns, Good(d), Accepts(d) PROVE Good(d)'
<1> PICK p \in Procs, k \in Keys :
        /\ On(handler[p], d) /\ handler[p].at = "verify" /\ handler[p].slot \in Slots
        /\ handler[p].challenge = objects[d][handler[p].slot].challenge
        /\ handler' = [handler EXCEPT ![p] = Idle]
        /\ \A o \in Slots : Refers(d, o)' =>
              IF o = handler[p].slot
              THEN /\ objects'[d][o].auth = objects[d][o].auth \cup {k}
                   /\ objects'[d][o].challenge = issued[d] + 1
                   /\ objects'[d][o].subs = objects[d][o].subs
              ELSE objects'[d][o] = objects[d][o]
        /\ IF socket[d] = "open"
           THEN /\ attachment'[d].auth = objects[d][handler[p].slot].auth \cup {k}
                /\ attachment'[d].challenge = issued[d] + 1
           ELSE attachment'[d] = attachment[d]
        /\ issued'[d] = issued[d] + 1 /\ accepted'[d] = accepted[d] + 1
        /\ granted'[d] = granted[d] \cup {k}
        /\ socket'[d] = socket[d] /\ stored'[d] = stored[d] /\ sessions'[d] = sessions[d]
        /\ sent'[d] = sent[d] /\ asked'[d] = asked[d]
        /\ d \in split' <=> d \in split
  BY DEF Accepts
<1>0. issued[d] \in Nat /\ accepted[d] \in Nat
  BY SessionBounds DEF Shapes, Challenges
<1>1. \A q \in Procs : On(handler'[q], d) => On(handler[q], d) /\ handler'[q] = handler[q]
  BY DEF On, Shapes
<1>2. \A o \in Slots : Refers(d, o)' => Refers(d, o)
  BY <1>1 DEF Refers
<1>3. Refers(d, handler[p].slot) /\ socket[d] # "new"
  BY DEF Refers, Good, Untouched
<1>4. Untouched(d)'
  BY <1>3 DEF Untouched
<1>5. issued[d] + 1 # None
  BY <1>0 DEF None
<1>6. Kept(d)'
  <2>1. \A o \in Slots : Refers(d, o)' =>
           /\ objects'[d][o].challenge # None /\ objects'[d][o].auth \subseteq granted'[d]
           /\ objects'[d][o].subs = objects[d][o].subs
    BY <1>2, <1>5 DEF Good, Kept
  <2>2. attachment'[d].auth \subseteq granted'[d]
    BY <1>3 DEF Good, Kept
  <2>3. sessions'[d] # None => socket'[d] = "open" /\ objects'[d][sessions'[d]].subs = asked'[d]
    BY <2>1 DEF Good, Kept, Refers, Shapes
  <2>4. socket'[d] = "open" => attachment'[d].challenge # None /\ stored'[d] = asked'[d]
    BY <1>5 DEF Good, Kept
  <2>5. issued'[d] = accepted'[d] + 1
    BY <1>3, <1>0 DEF Good, Kept
  <2> QED BY <2>1, <2>2, <2>3, <2>4, <2>5 DEF Kept
<1>7. ASSUME d \notin split' PROVE OneObject(d)' /\ Agrees(d)' /\ OnlyFirst(d)'
  <2>1. OneObject(d) /\ Agrees(d) /\ OnlyFirst(d)
    BY <1>7 DEF Good
  <2>2. OneObject(d)'
    BY <1>1, <1>2, <2>1 DEF OneObject
  <2>3. Agrees(d)'
    BY <1>2, <1>3, <2>1 DEF Agrees, OneObject
  <2>4. handler[p].challenge = 1 /\ objects[d][handler[p].slot].challenge = issued[d]
    BY <1>3, <2>1 DEF OnlyFirst, Agrees
  <2>5. accepted[d] = 0
    <3>1. issued[d] = 1 /\ issued[d] = accepted[d] + 1
      BY <1>3, <2>4 DEF Good, Kept
    <3> QED BY <1>0, <3>1
  <2>6. OnlyFirst(d)'
    BY <1>1, <2>1, <2>5 DEF OnlyFirst
  <2> QED BY <2>2, <2>3, <2>6
<1> QED BY <1>4, <1>6, <1>7 DEF Good

(* What an object is after the others were forgotten. *)
LEMMA HeapAt ==
    ASSUME NEW heap, NEW d \in Conns, NEW o \in Slots, objects' = Heap(heap, sessions', handler')
    PROVE  Refers(d, o)' => objects'[d][o] = heap[d][o]
BY DEF Heap, Refers

LEMMA NothingInFlight ==
    ASSUME NEW d
    PROVE  ~On(Idle, d)
BY DEF On, Idle

(* How the messages in flight change when p starts one, or is done. *)
LEMMA StartsOne ==
    ASSUME Shapes, NEW p \in Procs, ~InFlight(p), NEW h, handler' = [handler EXCEPT ![p] = h], NEW d
    PROVE  \A q \in Procs : On(handler'[q], d) =>
              GoesOn(q, d) \/ (d = h.conn /\ handler'[q] = h)
BY DEF Shapes, On, GoesOn

LEMMA EndsOne ==
    ASSUME Shapes, NEW p \in Procs, handler' = [handler EXCEPT ![p] = Idle],
           NEW d, NEW q \in Procs, On(handler'[q], d)
    PROVE  GoesOn(q, d) /\ q # p
BY NothingInFlight DEF Shapes, On, GoesOn

(* A message that is received arrives at its connection, and nothing       *)
(* happens to the others.                                                  *)
LEMMA ReceiveArrives ==
    ASSUME Shapes, NEW c \in Conns, NEW s, Receive(c, s), NEW d \in Conns, Good(d),
           \A q \in Procs : On(handler'[q], d) =>
              \/ GoesOn(q, d)
              \/ /\ d = c /\ handler'[q].slot = Slot(c)
                 /\ handler'[q].at = "verify" => handler'[q].challenge \in sent[c],
           s.auth = Current(c).auth, s.challenge = Current(c).challenge,
           asked' = [asked EXCEPT ![c] = s.subs],
           d # c => stored'[d] = stored[d] /\ attachment'[d] = attachment[d],
           stored'[c] = s.subs,
           \/ attachment'[c] = attachment[c]
           \/ attachment'[c].auth = s.auth /\ attachment'[c].challenge = s.challenge,
           UNCHANGED <<socket, issued, accepted, granted, split>>
    PROVE  Good(d)'
<1> DEFINE placed == [objects EXCEPT ![c][Slot(c)] = s]
<1>1. Slot(c) \in Slots /\ socket[c] = "open"
  BY SlotType DEF Receive, Open
<1>2. \A e \in Conns, o \in Slots : Refers(e, o)' => objects'[e][o] = placed[e][o]
  <2>1. objects' = Heap(placed, sessions', handler')
    BY DEF Receive
  <2> HIDE DEF placed
  <2> QED BY <2>1, HeapAt
<1>3. sessions' = [sessions EXCEPT ![c] = Slot(c)]
  BY DEF Receive
<1>4. placed[c][Slot(c)] = s /\ \A e \in Conns, o \in Slots :
         e # c \/ o # Slot(c) => placed[e][o] = objects[e][o]
  BY <1>1 DEF Shapes
<1>5. CASE d = c
  <2>1. \A o \in Slots : o = Slot(c) => Refers(c, o)'
    BY <1>3 DEF Refers, Shapes
  <2>2. objects'[c][Slot(c)] = s
    BY <1>1, <1>2, <1>4, <2>1
  <2>3. asked'[c] = s.subs
    BY DEF Shapes
  <2>4. sent'[c] = sent[c] \/ (sessions[c] = None /\ attachment[c].auth = {}
                              /\ sent'[c] = sent[c] \cup {attachment[c].challenge})
    BY DEF Receive, Restored, Shapes
  <2>5. sessions'[c] = Slot(c)
    BY <1>3 DEF Shapes
  <2>6. \A o \in Slots : Refers(c, o)' /\ o # Slot(c) => objects'[c][o] = objects[c][o]
    BY <1>2, <1>4
  <2>7. Arrives(c)
    <3> HIDE DEF placed
    <3> QED BY <1>1, <1>5, <2>2, <2>3, <2>4, <2>5, <2>6 DEF Arrives
  <2> QED BY <1>5, <2>7, ArrivesGood
<1>6. CASE d # c
  <2>1. sessions'[d] = sessions[d] /\ asked'[d] = asked[d] /\ sent'[d] = sent[d]
    BY <1>3, <1>6 DEF Receive, Shapes
  <2>2. \A o \in Slots : Refers(d, o)' => objects'[d][o] = objects[d][o]
    BY <1>2, <1>4, <1>6
  <2>3. LetsGo(d)
    <3> HIDE DEF placed
    <3> QED BY <1>6, <2>1, <2>2 DEF LetsGo
  <2> QED BY <2>3, LetsGoGood
<1> QED BY <1>5, <1>6

(* Connections that are only let go of: no message in flight starts or     *)
(* changes its object, and what is kept is the same.                       *)
LEMMA ForgetsGood ==
    ASSUME Shapes, NEW d \in Conns, Good(d), objects' = Heap(objects, sessions', handler'),
           \A p \in Procs : On(handler'[p], d) => GoesOn(p, d),
           sessions'[d] \in {sessions[d], None},
           socket'[d] = socket[d] \/ (socket[d] = "open" /\ socket'[d] = "closed" /\ sessions'[d] = None),
           stored'[d] = stored[d] \/ (socket'[d] # "open" /\ stored'[d] = {}),
           UNCHANGED <<attachment, asked, issued, sent, accepted, granted>>,
           d \in split => d \in split',
           d \in split' => d \in split \/ socket[d] = "open",
           socket'[d] = "open" /\ sessions[d] # None /\ sessions'[d] = None /\ d \notin split' =>
             \A p \in Procs : ~On(handler'[p], d)
    PROVE  Good(d)'
<1>1. \A o \in Slots : Refers(d, o)' => objects'[d][o] = objects[d][o]
  BY HeapAt
<1>2. LetsGo(d)
  BY <1>1 DEF LetsGo
<1> QED BY <1>2, LetsGoGood

LEMMA AwakenGood ==
    ASSUME Shapes, NEW d \in Conns, Good(d), Awaken(handler'),
           \A p \in Procs : On(handler'[p], d) => GoesOn(p, d), UNCHANGED <<durable, history>>
    PROVE  Good(d)'
<1> DEFINE found == [c \in Conns |-> IF c \in Open THEN Slot(c) ELSE sessions[c]]
           placed == [c \in Conns |-> [o \in Slots |->
                         IF o = found[c] THEN Current(c) ELSE objects[c][o]]]
<1> USE DEF durable, history
<1>1. sessions' = found /\ objects' = Heap(placed, sessions', handler')
  BY DEF Awaken
<1>2. \A o \in Slots : Refers(d, o)' => objects'[d][o] = placed[d][o]
  <2> HIDE DEF placed, found
  <2> QED BY <1>1, HeapAt
<1>3. Slot(d) \in Slots
  BY SlotType
<1>4. CASE d \in Open
  <2>1. sessions'[d] = Slot(d) /\ found[d] = Slot(d) /\ socket[d] = "open"
    BY <1>1, <1>4 DEF Open
  <2>2. objects'[d][Slot(d)] = Current(d)
    BY <1>2, <1>3, <2>1 DEF Refers
  <2>3. \A o \in Slots : Refers(d, o)' /\ o # Slot(d) => objects'[d][o] = objects[d][o]
    BY <1>2, <2>1
  <2>4. Current(d).subs = asked[d] /\ stored[d] = asked[d]
    BY <2>1 DEF Good, Kept, Current, Restored
  <2>5. Arrives(d)
    <3> HIDE DEF placed, found
    <3> QED BY <2>1, <2>2, <2>3, <2>4 DEF Arrives
  <2> QED BY <2>5, ArrivesGood
<1>5. CASE d \notin Open
  <2>1. socket[d] # "open" /\ sessions[d] = None /\ sessions'[d] = None /\ found[d] = None
    BY <1>1, <1>5 DEF Open, Good, Kept
  <2>2. \A o \in Slots : Refers(d, o)' => objects'[d][o] = objects[d][o]
    BY <1>2, <2>1, SlotsAreMany
  <2>3. LetsGo(d)
    <3> HIDE DEF placed, found
    <3> QED BY <2>1, <2>2 DEF LetsGo
  <2> QED BY <2>3, LetsGoGood
<1> QED BY <1>4, <1>5

LEMMA ConnectionStep ==
    ASSUME Shapes, [Next]_vars, NEW d \in Conns, \A c \in Conns : Good(c)
    PROVE  Good(d)'
<1> USE DEF memory, durable, timer, history
<1>0. Good(d) /\ \A q \in Procs : handler'[q] = handler[q] /\ On(handler'[q], d) => GoesOn(q, d)
  BY DEF GoesOn
<1>1. ASSUME NEW c \in Conns, Connect(c) PROVE Good(d)'
  <2>1. Slot(c) \in Slots
    BY SlotType
  <2>2. CASE d = c
    <3>1. objects'[c][Slot(c)] = [Blank EXCEPT !.challenge = 1] /\ sessions'[c] = Slot(c)
      BY <1>1, <2>1 DEF Connect, Shapes
    <3>2. /\ socket[c] = "new" /\ socket'[c] = "open"
          /\ attachment'[c] = [auth |-> {}, challenge |-> 1]
          /\ issued'[c] = 1 /\ sent'[c] = {1}
          /\ UNCHANGED <<stored, handler, accepted, granted, asked, split>>
      BY <1>1 DEF Connect, Shapes
    <3>3. Opens(c)
      BY <2>1, <3>1, <3>2 DEF Opens
    <3> QED BY <1>0, <2>2, <3>3, OpensGood
  <2>3. CASE d # c
    <3>1. /\ UNCHANGED <<stored, handler, accepted, granted, asked, split>>
          /\ socket'[d] = socket[d] /\ attachment'[d] = attachment[d] /\ sessions'[d] = sessions[d]
          /\ objects'[d] = objects[d] /\ issued'[d] = issued[d] /\ sent'[d] = sent[d]
      BY <1>1, <2>3 DEF Connect, Shapes
    <3>2. LetsGo(d)
      BY <1>0, <3>1 DEF LetsGo
    <3> QED BY <1>0, <3>2, LetsGoGood
  <2> QED BY <2>2, <2>3
<1>2. ASSUME NEW c \in Conns, Refuse(c) PROVE Good(d)'
  <2> DEFINE s == Current(c)
  <2>1. s.subs = asked[c] /\ stored[c] = asked[c] /\ c \in Open
    BY <1>2 DEF Good, Kept, Current, Restored, Refuse, Receive, Open
  <2>2. Receive(c, s) /\ UNCHANGED <<socket, stored, handler, issued, accepted, granted, asked, split>>
    BY <1>2 DEF Refuse
  <2>3. /\ attachment'[c].auth = s.auth /\ attachment'[c].challenge = s.challenge
        /\ d # c => attachment'[d] = attachment[d]
    BY <1>2, <2>1 DEF Refuse, Attach, Shapes
  <2>4. asked' = [asked EXCEPT ![c] = s.subs]
    BY <2>1, <2>2 DEF Shapes
  <2> HIDE DEF s
  <2>5. s = Current(c)
    BY DEF s
  <2> QED BY <1>0, <2>1, <2>2, <2>3, <2>4, <2>5, ReceiveArrives
<1>3. ASSUME NEW c \in Conns, Disconnect(c) PROVE Good(d)'
  <2>1. /\ objects' = Heap(objects, sessions', handler')
        /\ UNCHANGED <<handler, attachment, asked, issued, sent, accepted, granted, split>>
    BY <1>3 DEF Disconnect
  <2>2. \/ sessions'[d] = sessions[d] /\ socket'[d] = socket[d] /\ stored'[d] = stored[d]
        \/ sessions'[d] = None /\ socket[d] = "open" /\ socket'[d] = "closed" /\ stored'[d] = {}
    BY <1>3 DEF Disconnect, Shapes, Open
  <2> QED BY <1>0, <2>1, <2>2, ForgetsGood
<1>4. ASSUME NEW c \in Conns, Fail(c) PROVE Good(d)'
  <2>1. /\ objects' = Heap(objects, sessions', handler')
        /\ UNCHANGED <<handler, attachment, stored, asked, issued, sent, accepted, granted, split>>
    BY <1>4 DEF Fail
  <2>2. \/ sessions'[d] = sessions[d] /\ socket'[d] = socket[d]
        \/ sessions'[d] = None /\ socket[d] = "open" /\ socket'[d] = "closed"
    BY <1>4 DEF Fail, Shapes, Open
  <2> QED BY <1>0, <2>1, <2>2, ForgetsGood
<1>5. ASSUME NEW p \in Procs, NEW c \in Conns, NEW k \in Keys, NEW n \in sent[c], Auth(p, c, k, n)
      PROVE  Good(d)'
  <2> DEFINE s == Current(c)
             h == [at |-> "verify", conn |-> c, slot |-> Slot(c), key |-> k, challenge |-> n]
  <2>1. s.subs = asked[c] /\ stored[c] = asked[c]
    BY <1>5 DEF Good, Kept, Current, Restored, Auth, Receive, Open
  <2>2. /\ Receive(c, s) /\ UNCHANGED <<socket, attachment, stored, issued, accepted, granted, asked, split>>
        /\ handler' = [handler EXCEPT ![p] = h] /\ ~InFlight(p)
    BY <1>5 DEF Auth
  <2>3. \A q \in Procs : On(handler'[q], d) =>
           \/ GoesOn(q, d)
           \/ d = c /\ handler'[q].slot = Slot(c) /\ handler'[q].challenge \in sent[c]
    <3>1. h.conn = c /\ h.slot = Slot(c) /\ h.challenge \in sent[c]
      OBVIOUS
    <3> HIDE DEF h
    <3>2. \A q \in Procs : On(handler'[q], d) => GoesOn(q, d) \/ (d = h.conn /\ handler'[q] = h)
      BY <2>2, StartsOne
    <3> QED BY <3>1, <3>2
  <2>4. asked' = [asked EXCEPT ![c] = s.subs]
    BY <2>1, <2>2 DEF Shapes
  <2> HIDE DEF s
  <2>5. s = Current(c)
    BY DEF s
  <2> QED BY <1>0, <2>1, <2>2, <2>3, <2>4, <2>5, ReceiveArrives
<1>6. ASSUME NEW p \in Procs, NEW c \in Conns, NEW sub \in Subs, Req(p, c, sub) PROVE Good(d)'
  <2> DEFINE s == [Current(c) EXCEPT !.subs = @ \cup {sub}]
             h == [at |-> "query", conn |-> c, slot |-> Slot(c)]
  <2>1. Current(c).subs = asked[c] /\ Current(c) \in Held
    BY <1>6, CurrentType DEF Good, Kept, Current, Restored, Req, Receive, Open
  <2>2. s.auth = Current(c).auth /\ s.challenge = Current(c).challenge /\ s.subs = asked[c] \cup {sub}
    BY <2>1 DEF Held
  <2>3. /\ Receive(c, s) /\ UNCHANGED <<socket, attachment, issued, accepted, granted, split>>
        /\ handler' = [handler EXCEPT ![p] = h] /\ ~InFlight(p)
        /\ stored' = [stored EXCEPT ![c] = s.subs]
        /\ asked' = [asked EXCEPT ![c] = @ \cup {sub}]
    BY <1>6 DEF Req
  <2>4. \A q \in Procs : On(handler'[q], d) =>
           GoesOn(q, d) \/ (d = c /\ handler'[q].slot = Slot(c) /\ handler'[q].at # "verify")
    <3>1. h.conn = c /\ h.slot = Slot(c) /\ h.at # "verify"
      OBVIOUS
    <3> HIDE DEF h
    <3>2. \A q \in Procs : On(handler'[q], d) => GoesOn(q, d) \/ (d = h.conn /\ handler'[q] = h)
      BY <2>3, StartsOne
    <3> QED BY <3>1, <3>2
  <2> HIDE DEF s
  <2>5. /\ asked' = [asked EXCEPT ![c] = s.subs]
        /\ stored'[c] = s.subs
        /\ d # c => stored'[d] = stored[d] /\ attachment'[d] = attachment[d]
    BY <2>2, <2>3 DEF Shapes
  <2>6. Receive(c, s) /\ UNCHANGED <<socket, attachment, issued, accepted, granted, split>>
    BY <2>3
  <2>7. s.auth = Current(c).auth /\ s.challenge = Current(c).challenge
    BY <2>2
  <2> QED BY <1>0, <2>4, <2>5, <2>6, <2>7, ReceiveArrives
<1>7. ASSUME NEW c \in Conns, NEW sub \in Subs, CloseSubscription(c, sub) PROVE Good(d)'
  <2> DEFINE s == [Current(c) EXCEPT !.subs = @ \ {sub}]
  <2>1. Current(c).subs = asked[c] /\ stored[c] = asked[c] /\ Current(c) \in Held /\ c \in Open
    BY <1>7, CurrentType DEF Good, Kept, Current, Restored, CloseSubscription, Receive, Open
  <2>2. s.auth = Current(c).auth /\ s.challenge = Current(c).challenge /\ s.subs = asked[c] \ {sub}
    BY <2>1 DEF Held
  <2>3. /\ Receive(c, s) /\ Attach(c, s) /\ UNCHANGED <<socket, handler, issued, accepted, granted, split>>
        /\ stored' = IF sub \in Current(c).subs THEN [stored EXCEPT ![c] = s.subs] ELSE stored
        /\ asked' = [asked EXCEPT ![c] = @ \ {sub}]
    BY <1>7 DEF CloseSubscription
  <2> HIDE DEF s
  <2>4. /\ asked' = [asked EXCEPT ![c] = s.subs]
        /\ stored'[c] = s.subs
        /\ d # c => stored'[d] = stored[d]
    BY <2>1, <2>2, <2>3 DEF Shapes
  <2>5. /\ attachment'[c].auth = s.auth /\ attachment'[c].challenge = s.challenge
        /\ d # c => attachment'[d] = attachment[d]
    BY <2>1, <2>3 DEF Attach, Shapes
  <2>6. /\ Receive(c, s) /\ UNCHANGED <<socket, issued, accepted, granted, split>>
        /\ \A q \in Procs : On(handler'[q], d) => GoesOn(q, d)
    BY <1>0, <2>3
  <2>7. s.auth = Current(c).auth /\ s.challenge = Current(c).challenge
    BY <2>2
  <2>8. d # c => stored'[d] = stored[d] /\ attachment'[d] = attachment[d]
    BY <2>4, <2>5
  <2> QED BY <2>4, <2>5, <2>6, <2>7, <2>8, <1>0, ReceiveArrives
<1>8. ASSUME NEW p \in Procs, NEW c \in Conns, Event(p, c) PROVE Good(d)'
  <2> DEFINE s == Current(c)
             h == [at |-> "save", conn |-> c, slot |-> Slot(c)]
  <2>1. s.subs = asked[c] /\ stored[c] = asked[c]
    BY <1>8 DEF Good, Kept, Current, Restored, Event, Receive, Open
  <2>2. /\ Receive(c, s) /\ UNCHANGED <<socket, attachment, stored, issued, accepted, granted, asked, split>>
        /\ handler' = [handler EXCEPT ![p] = h] /\ ~InFlight(p)
    BY <1>8 DEF Event
  <2>3. \A q \in Procs : On(handler'[q], d) =>
           GoesOn(q, d) \/ (d = c /\ handler'[q].slot = Slot(c) /\ handler'[q].at # "verify")
    <3>1. h.conn = c /\ h.slot = Slot(c) /\ h.at # "verify"
      OBVIOUS
    <3> HIDE DEF h
    <3>2. \A q \in Procs : On(handler'[q], d) => GoesOn(q, d) \/ (d = h.conn /\ handler'[q] = h)
      BY <2>2, StartsOne
    <3> QED BY <3>1, <3>2
  <2>4. asked' = [asked EXCEPT ![c] = s.subs]
    BY <2>1, <2>2 DEF Shapes
  <2> HIDE DEF s
  <2>5. s = Current(c)
    BY DEF s
  <2> QED BY <1>0, <2>1, <2>2, <2>3, <2>4, <2>5, ReceiveArrives
<1>9. ASSUME NEW p \in Procs, Grant(p) PROVE Good(d)'
  <2> DEFINE c == handler[p].conn
             k == handler[p].key
             o == handler[p].slot
             s == [objects[c][o] EXCEPT !.auth = @ \cup {k}, !.challenge = issued[c] + 1]
             placed == [objects EXCEPT ![c][o] = s]
  <2>1. InFlight(p)
    BY <1>9, AtInFlight DEF Grant
  <2>2. c \in Conns /\ o \in Slots /\ k \in Keys /\ On(handler[p], c)
    BY <1>9, <2>1, HandlerType DEF Grant
  <2>3. objects[c][o] \in Held
    BY <2>2 DEF Shapes
  <2>4. /\ s.auth = objects[c][o].auth \cup {k} /\ s.challenge = issued[c] + 1
        /\ s.subs = objects[c][o].subs
    <3> HIDE DEF c, k, o
    <3> QED BY <2>3 DEF Held
  <2>5. /\ handler[p].at = "verify" /\ handler[p].challenge = objects[c][o].challenge
        /\ handler' = [handler EXCEPT ![p] = Idle]
        /\ objects' = Heap(placed, sessions', handler') /\ Attach(c, s)
        /\ issued' = [issued EXCEPT ![c] = @ + 1] /\ accepted' = [accepted EXCEPT ![c] = @ + 1]
        /\ granted' = [granted EXCEPT ![c] = @ \cup {k}]
        /\ UNCHANGED <<socket, stored, sessions, sent, asked, split>>
    BY <1>9 DEF Grant, Passes
  <2>6. \A e \in Conns, i \in Slots :
           placed[e][i] = IF e = c /\ i = o THEN s ELSE objects[e][i]
    <3> HIDE DEF s, c, o
    <3> QED BY <2>2 DEF Shapes
  <2> HIDE DEF c, k, o, s, placed
  <2>7. \A e \in Conns, i \in Slots : Refers(e, i)' => objects'[e][i] = placed[e][i]
    BY <2>5, HeapAt
  <2>8. CASE d = c
    <3>1. /\ issued'[d] = issued[d] + 1 /\ accepted'[d] = accepted[d] + 1
          /\ granted'[d] = granted[d] \cup {k}
      BY <2>5, <2>8 DEF Shapes
    <3>2. IF socket[d] = "open"
          THEN attachment'[d].auth = s.auth /\ attachment'[d].challenge = s.challenge
          ELSE attachment'[d] = attachment[d]
      BY <2>5, <2>8 DEF Attach, Open, Shapes
    <3>3. \A i \in Slots : Refers(d, i)' => objects'[d][i] = IF i = o THEN s ELSE objects[d][i]
      BY <2>6, <2>7, <2>8
    <3>4. handler[p].slot = o
      BY DEF o
    <3>5. \A i \in Slots : Refers(d, i)' =>
             IF i = handler[p].slot
             THEN /\ objects'[d][i].auth = objects[d][i].auth \cup {k}
                  /\ objects'[d][i].challenge = issued[d] + 1
                  /\ objects'[d][i].subs = objects[d][i].subs
             ELSE objects'[d][i] = objects[d][i]
      BY <2>4, <2>8, <3>3, <3>4
    <3>6. IF socket[d] = "open"
          THEN /\ attachment'[d].auth = objects[d][handler[p].slot].auth \cup {k}
               /\ attachment'[d].challenge = issued[d] + 1
          ELSE attachment'[d] = attachment[d]
      BY <2>4, <2>8, <3>2, <3>4
    <3>7. /\ On(handler[p], d) /\ handler[p].at = "verify" /\ handler[p].slot \in Slots /\ k \in Keys
          /\ handler[p].challenge = objects[d][handler[p].slot].challenge
          /\ handler' = [handler EXCEPT ![p] = Idle]
          /\ socket'[d] = socket[d] /\ stored'[d] = stored[d] /\ sessions'[d] = sessions[d]
          /\ sent'[d] = sent[d] /\ asked'[d] = asked[d]
          /\ d \in split' <=> d \in split
      BY <2>2, <2>5, <2>8, <3>4
    <3>8. Accepts(d)
      BY <3>1, <3>5, <3>6, <3>7 DEF Accepts
    <3> QED BY <1>0, <3>8, AcceptsGood
  <2>9. CASE d # c
    <3>1. /\ issued'[d] = issued[d] /\ accepted'[d] = accepted[d] /\ granted'[d] = granted[d]
          /\ attachment'[d] = attachment[d]
      BY <2>5, <2>9 DEF Attach, Shapes
    <3>2. \A i \in Slots : Refers(d, i)' => objects'[d][i] = objects[d][i]
      BY <2>6, <2>7, <2>9
    <3>3. \A q \in Procs : On(handler'[q], d) => GoesOn(q, d)
      BY <2>5, EndsOne
    <3>4. LetsGo(d)
      BY <2>5, <3>1, <3>2, <3>3 DEF LetsGo
    <3> QED BY <1>0, <3>4, LetsGoGood
  <2> QED BY <2>8, <2>9
<1>10. ASSUME NEW p \in Procs, Announce(p) PROVE Good(d)'
  <2>1. Awaken(handler') /\ UNCHANGED <<durable, history>>
    BY <1>10 DEF Announce
  <2>2. \A q \in Procs : On(handler'[q], d) => GoesOn(q, d)
    <3>1. handler[p] \in [at : {"query", "save", "announce"}, conn : Conns, slot : Slots]
      BY <1>10 DEF Announce, Shapes, Idle
    <3>2. /\ [handler[p] EXCEPT !.at = "announce"].conn = handler[p].conn
          /\ [handler[p] EXCEPT !.at = "announce"].slot = handler[p].slot
          /\ [handler[p] EXCEPT !.at = "announce"].at = "announce"
      BY <3>1
    <3>3. handler'[p] = [handler[p] EXCEPT !.at = "announce"] /\ handler[p] # Idle
      BY <1>10 DEF Announce, Shapes, Idle
    <3>4. \A q \in Procs : q # p => handler'[q] = handler[q]
      BY <1>10 DEF Announce, Shapes
    <3> QED BY <3>2, <3>3, <3>4 DEF GoesOn, On
  <2> QED BY <1>0, <2>1, <2>2, AwakenGood
<1>11. ASSUME NEW p \in Procs, Finish(p) PROVE Good(d)'
  <2> DEFINE c == handler[p].conn
             o == handler[p].slot
  <2>1. c \in Conns /\ o \in Slots /\ On(handler[p], c)
    BY <1>11, HandlerType DEF Finish
  <2>2. /\ handler' = [handler EXCEPT ![p] = Idle] /\ Attach(c, objects[c][o])
        /\ objects' = Heap(objects, sessions', handler')
        /\ UNCHANGED <<socket, stored, sessions, issued, sent, accepted, granted, asked, split>>
    BY <1>11 DEF Finish
  <2>3. \A q \in Procs : On(handler'[q], d) => GoesOn(q, d)
    BY <2>2, EndsOne
  <2>4. \A i \in Slots : Refers(d, i)' => objects'[d][i] = objects[d][i]
    BY <2>2, HeapAt
  <2>5. \/ attachment'[d] = attachment[d]
        \/ \E i \in Slots : /\ Refers(d, i)
                            /\ attachment'[d].auth = objects[d][i].auth
                            /\ attachment'[d].challenge = objects[d][i].challenge
    <3>1. Refers(c, o)
      BY <2>1 DEF Refers
    <3> HIDE DEF c, o
    <3>2. CASE d = c
      BY <2>1, <2>2, <3>1, <3>2 DEF Attach, Shapes
    <3>3. CASE d # c
      BY <2>1, <2>2, <3>3 DEF Attach, Shapes
    <3> QED BY <3>2, <3>3
  <2>6. LetsGo(d)
    BY <2>2, <2>3, <2>4, <2>5 DEF LetsGo
  <2> QED BY <1>0, <2>6, LetsGoGood
<1>12. CASE DOBroadcast
  BY <1>0, <1>12, AwakenGood DEF DOBroadcast
<1>13. CASE Hibernate
  <2>1. /\ sessions'[d] = None /\ \A q \in Procs : ~On(handler'[q], d)
        /\ objects' = Heap(objects, sessions', handler')
        /\ UNCHANGED <<handler, durable, history>>
    BY <1>13 DEF Hibernate, InFlight, On
  <2> QED BY <1>0, <2>1, ForgetsGood
<1>14. CASE Crash
  <2>1. /\ sessions'[d] = None /\ \A q \in Procs : ~On(handler'[q], d)
        /\ objects' = Heap(objects, sessions', handler')
        /\ \/ socket'[d] = socket[d]
           \/ socket[d] = "open" /\ socket'[d] = "closed"
        /\ socket'[d] # "open"
        /\ UNCHANGED <<attachment, stored, history>>
    BY <1>14, NothingInFlight DEF Crash, Open
  <2> QED BY <1>0, <2>1, ForgetsGood
<1>15. CASE AlarmFires \/ Reschedule \/ UNCHANGED vars
  <2>1. UNCHANGED <<memory, durable, history>>
    BY <1>15 DEF AlarmFires, Reschedule, vars
  <2>2. LetsGo(d)
    BY <1>0, <2>1 DEF LetsGo
  <2> QED BY <1>0, <2>2, LetsGoGood
<1>16. CASE Cleanup
  <2>1. /\ sessions'[d] = None /\ objects' = Heap(objects, sessions', handler')
        /\ stored'[d] = stored[d] \/ (socket'[d] # "open" /\ stored'[d] = {})
        /\ d \in split' <=> d \in split \/ (socket[d] = "open" /\ \E q \in Procs : On(handler[q], d))
        /\ UNCHANGED <<socket, attachment, handler, issued, sent, accepted, granted, asked>>
    BY <1>16 DEF Cleanup, Orphans, Open
  <2> QED BY <1>0, <2>1, ForgetsGood
<1> QED
  BY <1>1, <1>2, <1>3, <1>4, <1>5, <1>6, <1>7, <1>8, <1>9, <1>10, <1>11, <1>12, <1>13, <1>14,
     <1>15, <1>16 DEF Next

LEMMA AlarmStep == Shapes /\ AlarmIsSet /\ [Next]_vars => AlarmIsSet'
<1> SUFFICES ASSUME Shapes, AlarmIsSet, [Next]_vars PROVE AlarmIsSet'
  OBVIOUS
<1> USE DEF durable, timer
<1>1. CASE UNCHANGED <<socket, timer>>
  BY <1>1 DEF AlarmIsSet, Open
<1>2. ASSUME NEW c \in Conns, Connect(c) PROVE AlarmIsSet'
  BY <1>2 DEF Connect, AlarmIsSet
<1>3. ASSUME NEW c \in Conns, Disconnect(c) PROVE AlarmIsSet'
  <2>1. Open' = Open \ {c} /\ tick' = tick /\ alarm' \in IF Open = {c} THEN {alarm, FALSE} ELSE {alarm}
    BY <1>3 DEF Disconnect, Open, Shapes
  <2>2. CASE Open = {c}
    BY <2>1, <2>2 DEF AlarmIsSet
  <2>3. CASE Open # {c}
    BY <2>1, <2>3 DEF AlarmIsSet
  <2> QED BY <2>2, <2>3
<1>4. ASSUME NEW c \in Conns, Fail(c) PROVE AlarmIsSet'
  <2>1. Open' \subseteq Open /\ UNCHANGED timer
    BY <1>4 DEF Fail, Open, Shapes
  <2> QED BY <2>1 DEF AlarmIsSet
<1>5. CASE Crash
  <2>1. Open' = {}
    BY <1>5 DEF Crash, Open
  <2> QED BY <2>1 DEF AlarmIsSet
<1>6. CASE AlarmFires
  BY <1>6 DEF AlarmFires, AlarmIsSet, Open
<1>7. CASE Reschedule
  BY <1>7 DEF Reschedule, AlarmIsSet
<1>8. CASE Cleanup
  BY <1>8 DEF Cleanup, AlarmIsSet, Open
<1> QED
  BY <1>1, <1>2, <1>3, <1>4, <1>5, <1>6, <1>7, <1>8
  DEF Next, Refuse, Auth, Req, CloseSubscription, Event, Grant, Announce, Finish, DOBroadcast,
      Hibernate, vars

(* The inductive invariant: the shapes, every connection as it should be,  *)
(* and the alarm.                                                          *)
SessionInv == Shapes /\ (\A c \in Conns : Good(c)) /\ AlarmIsSet

LEMMA SessionInitial == Init => SessionInv
<1> SUFFICES ASSUME Init PROVE SessionInv
  OBVIOUS
<1>1. 0 \in Challenges /\ Blank \in Held
  BY SessionBounds DEF Challenges, Blank, Held, None
<1>2. Shapes
  BY <1>1 DEF Init, Shapes, None
<1>3. ASSUME NEW c \in Conns PROVE Good(c)
  <2>1. /\ sessions[c] = None /\ socket[c] = "new" /\ \A p \in Procs : ~On(handler[p], c)
        /\ attachment[c].auth = {} /\ stored[c] = {} /\ sent[c] = {} /\ granted[c] = {} /\ asked[c] = {}
        /\ issued[c] = 0 /\ accepted[c] = 0 /\ c \notin split
    BY NothingInFlight DEF Init
  <2>2. \A o \in Slots : ~Refers(c, o)
    BY <2>1, SlotsAreMany DEF Refers
  <2>3. Untouched(c) /\ Kept(c)
    BY <2>1, <2>2 DEF Untouched, Kept
  <2>4. OneObject(c) /\ Agrees(c) /\ OnlyFirst(c)
    BY <2>1, <2>2 DEF OneObject, Agrees, OnlyFirst
  <2> QED BY <2>3, <2>4 DEF Good
<1>4. AlarmIsSet
  BY DEF Init, AlarmIsSet, Open
<1> QED BY <1>2, <1>3, <1>4 DEF SessionInv

LEMMA GoodCounts == Shapes /\ (\A c \in Conns : Good(c)) => Counted
<1> SUFFICES ASSUME Shapes, \A c \in Conns : Good(c), NEW c \in Conns PROVE accepted[c] <= issued[c]
  BY DEF Counted
<1>1. issued[c] \in Nat /\ accepted[c] \in Nat
  BY SessionBounds DEF Shapes, Challenges
<1> QED BY <1>1 DEF Good, Untouched, Kept

LEMMA SessionStep == SessionInv /\ [Next]_vars => SessionInv'
<1> SUFFICES ASSUME SessionInv, [Next]_vars PROVE SessionInv'
  OBVIOUS
<1>1. Shapes'
  BY GoodCounts, ShapesInductive DEF SessionInv
<1>2. \A c \in Conns : Good(c)'
  BY ConnectionStep DEF SessionInv
<1>3. AlarmIsSet'
  BY AlarmStep DEF SessionInv
<1> QED BY <1>1, <1>2, <1>3 DEF SessionInv

LEMMA SessionInvariant == Spec => []SessionInv
BY SessionInitial, SessionStep, PTL DEF Spec

LEMMA SessionImplies == SessionInv => TypeOK /\ Remembered /\ AcceptedOnce /\ AlarmIsSet
<1> SUFFICES ASSUME SessionInv PROVE TypeOK /\ Remembered /\ AcceptedOnce
  BY DEF SessionInv
<1>1. \A c \in Conns : sessions[c] # None => sessions[c] \in Slots /\ Refers(c, sessions[c])
  BY DEF SessionInv, Shapes, Refers
<1>2. ASSUME NEW c \in Open
      PROVE  /\ Current(c).challenge # None
             /\ Current(c).subs = asked[c] /\ Current(c).auth \subseteq granted[c]
             /\ c \notin split => Current(c).auth = granted[c]
  <2>1. c \in Conns /\ socket[c] = "open" /\ Good(c)
    BY DEF Open, SessionInv
  <2>2. CASE sessions[c] = None
    BY <2>1, <2>2 DEF Current, Restored, Good, Kept, Agrees
  <2>3. CASE sessions[c] # None
    BY <2>1, <2>3, <1>1 DEF Current, Good, Kept, Agrees
  <2> QED BY <2>2, <2>3
<1>3. AcceptedOnce
  BY DEF AcceptedOnce, SessionInv, Good, OnlyFirst
<1> QED BY <1>2, <1>3 DEF TypeOK, Remembered, SessionInv

(* The variables of the sessions keep their shapes, and the session that   *)
(* the next message of an open connection meets has a challenge: the one   *)
(* that ensureSession would make up for want of it is never needed.        *)
THEOREM SessionTypeCorrect == Spec => []TypeOK
BY SessionInvariant, SessionImplies, PTL

(* Through hibernation, the clearing of the map and any interleaving of    *)
(* messages, the next session of an open connection has the subscriptions  *)
(* its client holds and the keys it was granted; one that was dropped      *)
(* during a message has no key that was not granted.                       *)
THEOREM RememberedHolds == Spec => []Remembered
BY SessionInvariant, SessionImplies, PTL

(* Of the AUTHs of a connection, however many wait for their signature     *)
(* check, one at most is accepted, unless alarm() dropped the session.     *)
THEOREM AcceptedOnceHolds == Spec => []AcceptedOnce
BY SessionInvariant, SessionImplies, PTL

(* While a socket is open the alarm is set, or alarm() is running and will *)
(* set it: the last socket to close is the only one that drops it.         *)
THEOREM AlarmIsSetHolds == Spec => []AlarmIsSet
BY SessionInvariant, SessionImplies, PTL

-----------------------------------------------------------------------------
(* GiftWrap *)

LEMMA Doubling ==
    ASSUME NEW p \in Powers, NEW q \in Powers, q < p
    PROVE  2 * q <= p
BY SMT DEF Powers

LEMMA HalfMemory == Memory \in Nat /\ 2 * Memory = 268435456
BY SMT DEF Memory

LEMMA Doubled ==
    ASSUME NEW p \in Powers, p <= 2 * Memory
    PROVE  2 * p \in Powers
BY HalfMemory, SMT DEF Powers

LEMMA NextPowerIs ==
    ASSUME NEW n \in Nat, NEW p \in Powers, n <= p, p < 2 * n
    PROVE  NextPower(n) = p
<1>1. p \in Nat /\ \A q \in Powers : q \in Nat
  BY DEF Powers
<1>2. \A q \in Powers : n <= q => p <= q
  <2> SUFFICES ASSUME NEW q \in Powers, n <= q, q < p PROVE FALSE
    BY <1>1
  <2> QED
    BY <1>1, Doubling
<1>3. \A q \in Powers : n <= q /\ (\A r \in Powers : n <= r => q <= r) => q = p
  BY <1>1, <1>2
<1> QED
  BY <1>2, <1>3 DEF NextPower

(* What is longer than MinPadded lies between two powers. *)
LEMMA Between ==
    ASSUME NEW n \in Nat, MinPadded < n, n <= 2 * Memory
    PROVE  \E p \in Powers : n <= p /\ p < 2 * n /\ p <= 2 * Memory
<1> DEFINE Holds(p) == n <= p /\ p < 2 * n /\ p <= 2 * Memory
<1> SUFFICES ASSUME \A p \in Powers : ~Holds(p) PROVE FALSE
  OBVIOUS
<1>1. /\ ~Holds(64) /\ ~Holds(128) /\ ~Holds(256) /\ ~Holds(512) /\ ~Holds(1024) /\ ~Holds(2048)
      /\ ~Holds(4096) /\ ~Holds(8192) /\ ~Holds(16384) /\ ~Holds(32768) /\ ~Holds(65536)
      /\ ~Holds(131072) /\ ~Holds(262144) /\ ~Holds(524288) /\ ~Holds(1048576) /\ ~Holds(2097152)
      /\ ~Holds(4194304) /\ ~Holds(8388608) /\ ~Holds(16777216) /\ ~Holds(33554432)
      /\ ~Holds(67108864) /\ ~Holds(134217728) /\ ~Holds(268435456)
  <2> HIDE DEF Holds
  <2> QED BY SMT DEF Powers
<1> QED
  BY <1>1, SMT DEF Memory, MinPadded

(* A length in the k-th chunk of c bytes is padded to its end. *)
LEMMA PaddedTo ==
    ASSUME NEW c \in Nat \ {0}, NEW k \in Nat, NEW n \in Nat, n > MinPadded, Chunk(n) = c,
           c * (k - 1) < n, n <= c * k
    PROVE  PaddedLen(n) = c * k
<1> DEFINE q == (n - 1) \div c
<1>1. n - 1 \in Nat /\ MinPadded = 32
  BY DEF MinPadded
<1>2. q \in Nat /\ c * q <= n - 1 /\ n - 1 < c * q + c
  BY <1>1, Division
<1>3. PaddedLen(n) = c * (q + 1)
  BY <1>1 DEF PaddedLen
<1> HIDE DEF q
<1>4. c * q < c * k /\ c * (k - 1) < c * (q + 1)
  BY <1>2, SMT
<1>5. q < k /\ k - 1 < q + 1
  BY <1>2, <1>4, SMT
<1>6. q + 1 = k
  BY <1>2, <1>5
<1> QED
  BY <1>3, <1>6

LEMMA Chunks ==
    ASSUME NEW n \in Nat, NEW p \in Powers, n <= p, p < 2 * n, NEW c \in Nat,
           IF p <= 256 THEN c = 32 ELSE p = 8 * c
    PROVE  Chunk(n) = c
<1>1. NextPower(n) = p /\ p \in Nat
  BY NextPowerIs DEF Powers
<1>2. p > 256 => p \div 8 = c
  BY <1>1
<1> QED
  BY <1>1, <1>2 DEF Chunk, MinPadded

(* What a padded plaintext can be as long as: one to eight chunks of 32    *)
(* bytes, or five to eight larger ones.                                    *)
Chunked(L, c, k) ==
    /\ c \in Nat /\ k \in Nat /\ L = c * k
    /\ \/ c = 32 /\ k \in 1..8
       \/ 64 <= c /\ 8 * c \in Powers /\ 8 * c <= 2 * Memory /\ k \in 5..8

LEMMA PaddedIsChunked ==
    ASSUME NEW n \in Nat, 0 < n, n <= 2 * Memory
    PROVE  \E c, k : Chunked(PaddedLen(n), c, k) /\ n <= PaddedLen(n)
<1>1. CASE n <= MinPadded
  <2>1. Chunked(PaddedLen(n), 32, 1) /\ n <= PaddedLen(n)
    BY <1>1, SMT DEF PaddedLen, MinPadded, Chunked
  <2> QED
    BY <2>1
<1>2. CASE n > MinPadded
  <2>1. PICK p \in Powers : n <= p /\ p < 2 * n /\ p <= 2 * Memory
    BY <1>2, Between
  <2>2. PICK c \in Nat : (IF p <= 256 THEN c = 32 ELSE p = 8 * c) /\ 32 <= c
    <3> DEFINE c == IF p <= 256 THEN 32 ELSE p \div 8
    <3>1. c \in Nat /\ (IF p <= 256 THEN c = 32 ELSE p = 8 * c) /\ 32 <= c
      BY SMT DEF Powers
    <3> QED
      BY <3>1
  <2>3. Chunk(n) = c
    BY <2>1, <2>2, Chunks
  <2> DEFINE q == (n - 1) \div c
  <2>4. q \in Nat /\ c * q <= n - 1 /\ n - 1 < c * q + c
    BY <2>2, Division
  <2>5. PaddedLen(n) = c * (q + 1)
    BY <1>2, <2>3, SMT DEF PaddedLen, MinPadded
  <2> HIDE DEF q
  <2>6. p \in Nat
    BY DEF Powers
  <2>7. CASE p <= 256
    <3>1. c = 32
      BY <2>2, <2>7
    <3>2. q + 1 \in 1..8 /\ n <= 32 * (q + 1)
      BY <2>1, <2>4, <2>6, <2>7, <3>1, SMT
    <3>3. Chunked(PaddedLen(n), c, q + 1) /\ n <= PaddedLen(n)
      BY <2>4, <2>5, <3>1, <3>2 DEF Chunked
    <3> QED
      BY <3>3
  <2>8. CASE p > 256
    <3>1. p = 8 * c /\ 64 <= c
      BY <2>2, <2>6, <2>8, SMT DEF Powers
    <3>2. c * 3 < c * q /\ c * q < c * 8 /\ n <= c * (q + 1)
      BY <2>1, <2>2, <2>4, <3>1, SMT
    <3>3. 3 < q /\ q < 8
      BY <2>2, <2>4, <3>2, SMT
    <3>4. Chunked(PaddedLen(n), c, q + 1) /\ n <= PaddedLen(n)
      BY <2>1, <2>4, <2>5, <3>1, <3>2, <3>3, SMT DEF Chunked
    <3> QED
      BY <3>4
  <2> QED
    BY <2>6, <2>7, <2>8
<1> QED
  BY <1>1, <1>2, SMT DEF MinPadded

(* The seal of a rumor that is padded to L bytes ends in the j-th chunk of *)
(* d bytes, with room for either prefix.                                   *)
Takes(L, d, j) ==
    /\ d \in Nat /\ 64 <= d /\ 8 * d \in Powers /\ j \in 5..8
    /\ 3 * (d * (j - 1)) < 4 * L + 1289
    /\ 4 * L + 1315 <= 3 * (d * j)

\* The seal of a rumor of n bytes fits.
Sealable(n) == SealLen(n) \in Nat \ {0} /\ PaddedLen(SealLen(n)) \in Nat /\ Fits(SealLen(n))

LEMMA Room ==
    ASSUME NEW n, NEW d, NEW j, PaddedLen(n) \in Nat, Takes(PaddedLen(n), d, j)
    PROVE  Sealable(n)
<1> DEFINE s == SealLen(n)
<1>1. s \in Nat /\ 4 * PaddedLen(n) + 1289 <= 3 * s /\ 3 * s <= 4 * PaddedLen(n) + 1297
  BY SMT DEF SealLen, Base64Len, PayloadLen
<1> HIDE DEF s
<1>2. d \in Nat /\ 64 <= d /\ 8 * d \in Powers /\ j \in 5..8
  BY DEF Takes
<1>3. d * (j - 1) \in Nat /\ d * j \in Nat /\ d * 4 <= d * (j - 1) /\ d * j <= d * 8
  BY <1>2, SMT
<1>4. d * (j - 1) < s /\ s + 6 <= d * j
  BY <1>1, <1>3, SMT DEF Takes
<1>5. Chunk(s) = d
  <2>1. s <= 8 * d /\ 8 * d < 2 * s /\ 8 * d > 256
    BY <1>1, <1>2, <1>3, <1>4, SMT
  <2> QED
    BY <1>1, <1>2, <2>1, Chunks
<1>6. s > MinPadded
  BY <1>1, <1>2, <1>3, <1>4, SMT DEF MinPadded
<1>7. PaddedLen(s) = d * j
  BY <1>1, <1>2, <1>3, <1>4, <1>5, <1>6, PaddedTo
<1>8. Prefix(s) \in 0..6
  BY SMT DEF Prefix
<1>9. Prefix(s) + s <= PaddedLen(s)
  BY <1>1, <1>3, <1>4, <1>7, <1>8
<1>10. s # 0 /\ PaddedLen(s) \in Nat
  BY <1>1, <1>3, <1>6, <1>7, SMT DEF MinPadded
<1> QED
  BY <1>1, <1>9, <1>10 DEF Fits, Sealable, s

(* The seal of a rumor always fits. *)
LEMMA SealFits ==
    ASSUME NEW n \in 1..Memory
    PROVE  Sealable(n)
<1>1. PICK c, k : Chunked(PaddedLen(n), c, k)
  <2>1. Memory \in Nat
    BY HalfMemory, SMT
  <2>2. n \in Nat /\ 0 < n /\ n <= 2 * Memory
    BY <2>1, SMT
  <2> QED
    BY <2>1, <2>2, PaddedIsChunked
<1> DEFINE L == PaddedLen(n)
<1>2. SUFFICES \E d, j : Takes(L, d, j)
  <2>1. L \in Nat
    BY <1>1, SMT DEF Chunked
  <2> QED
    BY <1>2, <2>1, Room
<1>3. c \in Nat /\ k \in Nat /\ L = c * k
  BY <1>1 DEF Chunked
<1> HIDE DEF L
<1>4. CASE c = 32 /\ k \in 1..8
  <2>1. /\ Takes(32, 64, 8) /\ Takes(64, 128, 5) /\ Takes(96, 128, 5) /\ Takes(128, 128, 5)
        /\ Takes(160, 128, 6) /\ Takes(192, 128, 6) /\ Takes(224, 128, 6) /\ Takes(256, 128, 7)
    BY SMT DEF Takes, Powers
  <2>2. L \in {32, 64, 96, 128, 160, 192, 224, 256}
    BY <1>3, <1>4, SMT
  <2> QED
    BY <2>1, <2>2
<1>5. CASE 64 <= c /\ 8 * c \in Powers /\ 8 * c <= 2 * Memory /\ k \in 5..8
  <2>1. L \in {5 * c, 6 * c, 7 * c, 8 * c}
    BY <1>3, <1>5, SMT
  <2>2. c \in {64, 128, 256, 512, 1024} \/ 2048 <= c
    BY <1>3, <1>5, SMT DEF Powers
  <2>3. CASE c = 64
    <3>1. Takes(5 * c, 128, 7) /\ Takes(6 * c, 128, 8) /\ Takes(7 * c, 256, 5) /\ Takes(8 * c, 256, 5)
      BY <2>3, SMT DEF Takes, Powers
    <3> QED
      BY <2>1, <3>1
  <2>4. CASE c = 128
    <3>1. Takes(5 * c, 256, 6) /\ Takes(6 * c, 256, 6) /\ Takes(7 * c, 256, 7) /\ Takes(8 * c, 256, 8)
      BY <2>4, SMT DEF Takes, Powers
    <3> QED
      BY <2>1, <3>1
  <2>5. CASE c = 256
    <3>1. Takes(5 * c, 512, 5) /\ Takes(6 * c, 512, 5) /\ Takes(7 * c, 512, 6) /\ Takes(8 * c, 512, 7)
      BY <2>5, SMT DEF Takes, Powers
    <3> QED
      BY <2>1, <3>1
  <2>6. CASE c = 512
    <3>1. Takes(5 * c, 512, 8) /\ Takes(6 * c, 1024, 5) /\ Takes(7 * c, 1024, 6) /\ Takes(8 * c, 1024, 6)
      BY <2>6, SMT DEF Takes, Powers
    <3> QED
      BY <2>1, <3>1
  <2>7. CASE c = 1024
    <3>1. Takes(5 * c, 1024, 8) /\ Takes(6 * c, 2048, 5) /\ Takes(7 * c, 2048, 5) /\ Takes(8 * c, 2048, 6)
      BY <2>7, SMT DEF Takes, Powers
    <3> QED
      BY <2>1, <3>1
  <2>8. CASE 2048 <= c
    <3>1. 8 * (2 * c) \in Powers
      <4>1. 2 * (8 * c) \in Powers
        BY <1>5, Doubled
      <4> QED
        BY <1>3, <4>1, SMT
    <3>2. Takes(5 * c, c, 7)
      BY <1>3, <1>5, <2>8, SMT DEF Takes
    <3>3. Takes(6 * c, 2 * c, 5) /\ Takes(7 * c, 2 * c, 5) /\ Takes(8 * c, 2 * c, 6)
      BY <1>3, <2>8, <3>1, SMT DEF Takes
    <3> QED
      BY <2>1, <3>2, <3>3
  <2> QED
    BY <2>2, <2>3, <2>4, <2>5, <2>6, <2>7, <2>8
<1> QED
  BY <1>1, <1>4, <1>5, SMT DEF Chunked

(* What pad writes of a plaintext that fits, unpad returns. *)
LEMMA UnpadsWhole ==
    ASSUME NEW n \in Nat \ {0}, Fits(n), PaddedLen(n) \in Nat
    PROVE  Unpad(Frame(n)) = n
<1> DEFINE L == PaddedLen(n)
<1>1. CASE n < 65536
  <2>1. Frame(n) = [short |-> n, long |-> 0, length |-> L] /\ n <= L - 2
    BY <1>1, SMT DEF Frame, Fits, Prefix
  <2> HIDE DEF L
  <2> QED
    BY <2>1, SMT DEF Unpad
<1>2. CASE ~(n < 65536)
  <2>1. Frame(n) = [short |-> 0, long |-> n, length |-> L] /\ n <= L - 6
    BY <1>2, SMT DEF Frame, Fits, Prefix
  <2> HIDE DEF L
  <2> QED
    BY <2>1, SMT DEF Unpad
<1> QED
  BY <1>1, <1>2, SMT

LEMMA RumorLen ==
    ASSUME NEW n \in Sizes
    PROVE  n \in Nat \ {0} /\ PaddedLen(n) \in Nat /\ Sealable(n)
<1>1. Memory \in Nat
  BY HalfMemory, SMT
<1>2. n \in 1..Memory
  BY WrapSizes
<1>3. n \in Nat \ {0} /\ 0 < n /\ n <= 2 * Memory
  BY <1>1, <1>2, SMT
<1>4. PICK c, k : Chunked(PaddedLen(n), c, k)
  BY <1>3, PaddedIsChunked, SMT
<1>5. PaddedLen(n) \in Nat
  BY <1>4, SMT DEF Chunked
<1> QED
  BY <1>2, <1>3, <1>5, SealFits

(* How far a reply of n bytes has come, and what it is wrapped in so far. *)
Layered(n) ==
    /\ reply.at = "rumor" => frames = <<>> /\ reply.size = n
    /\ reply.at = "seal" => frames = <<Frame(n)>> /\ reply.size = SealLen(n) /\ Encrypts(n)
    /\ Wrapped => /\ frames[1] = Frame(n) /\ frames[2] = Frame(SealLen(n)) /\ reply.size = SealLen(n)
                  /\ Encrypts(n) /\ Encrypts(SealLen(n))
    /\ reply.at = "lost" => \/ frames = <<>> /\ reply.size = n /\ ~Encrypts(n)
                            \/ reply.size = SealLen(n) /\ ~Encrypts(SealLen(n))

WrapInv ==
    /\ reply \in [at : {"none", "rumor", "seal", "wrapped", "publish", "done", "lost"}, size : Nat]
    /\ reply.at = "none" => frames = <<>>
    /\ reply.at # "none" => \E n \in Sizes : Layered(n)

LEMMA WrapInductive == WrapInv /\ [WrapNext]_wrapVars => WrapInv'
<1> SUFFICES ASSUME WrapInv, [WrapNext]_wrapVars PROVE WrapInv'
  OBVIOUS
<1> DEFINE Replies == [at : {"none", "rumor", "seal", "wrapped", "publish", "done", "lost"}, size : Nat]
<1>0. reply \in Replies
  BY DEF WrapInv
<1>1. ASSUME NEW n \in Sizes, Respond(n) PROVE WrapInv'
  <2>1. reply'.at = "rumor" /\ reply'.size = n /\ frames' = <<>> /\ n \in Nat
    BY <1>1, RumorLen DEF Respond, WrapInv, ReplyAt
  <2>2. Layered(n)'
    BY <2>1 DEF Layered, Wrapped
  <2> QED
    BY <1>1, <2>1, <2>2 DEF WrapInv, Respond
<1>2. ASSUME NEW n \in Sizes, Layered(n), reply.at # "none",
             Throw \/ Seal \/ Wrap \/ Persist \/ PublishReply \/ Fetch
      PROVE  WrapInv'
  <2>0. n \in Nat /\ SealLen(n) \in Nat
    BY RumorLen DEF Sealable
  <2>1. CASE Throw
    <3>1. reply' \in Replies /\ reply'.at = "lost" /\ reply'.size = reply.size /\ frames' = frames
      BY <1>0, <2>1 DEF Throw
    <3>2. Layered(n)'
      BY <1>2, <2>1, <3>1 DEF Layered, Throw, ReplyAt, Wrapped
    <3> QED
      BY <3>1, <3>2 DEF WrapInv
  <2>2. CASE Seal
    <3>1. /\ reply' \in Replies /\ reply'.at = "seal" /\ reply'.size = SealLen(n)
          /\ frames' = <<Frame(n)>> /\ Encrypts(n)
      BY <1>2, <2>0, <2>2 DEF Seal, Layered, ReplyAt
    <3>2. Layered(n)'
      BY <3>1 DEF Layered, Wrapped
    <3> QED
      BY <3>1, <3>2 DEF WrapInv
  <2>3. CASE Wrap
    <3>1. reply' \in Replies /\ reply'.at = "wrapped" /\ reply'.size = reply.size
      BY <1>0, <2>3 DEF Wrap
    <3>2. /\ frames'[1] = Frame(n) /\ frames'[2] = Frame(SealLen(n)) /\ reply.size = SealLen(n)
          /\ Encrypts(n) /\ Encrypts(SealLen(n))
      <4>1. /\ frames = <<Frame(n)>> /\ reply.size = SealLen(n) /\ Encrypts(n) /\ Encrypts(SealLen(n))
            /\ frames' = Append(frames, Frame(reply.size))
        BY <1>2, <2>3 DEF Wrap, Layered, ReplyAt
      <4>2. \A a, b : Append(<<a>>, b)[1] = a /\ Append(<<a>>, b)[2] = b
        <5> SUFFICES ASSUME NEW a, NEW b PROVE Append(<<a>>, b)[1] = a /\ Append(<<a>>, b)[2] = b
          OBVIOUS
        <5>1. <<a>> \in Seq({a, b}) /\ Len(<<a>>) = 1
          OBVIOUS
        <5> QED
          BY <5>1
      <4> QED
        BY <4>1, <4>2
    <3>3. Layered(n)'
      BY <3>1, <3>2 DEF Layered, Wrapped
    <3> QED
      BY <3>1, <3>3 DEF WrapInv
  <2>4. CASE Persist \/ PublishReply \/ Fetch
    <3>1. /\ reply' \in Replies /\ Wrapped /\ reply'.at \in {"publish", "done"} /\ reply'.size = reply.size
          /\ frames' = frames
      BY <1>0, <2>4 DEF Persist, PublishReply, Fetch, ReplyAt, Wrapped
    <3>2. Layered(n)'
      BY <1>2, <3>1 DEF Layered, Wrapped
    <3> QED
      BY <3>1, <3>2 DEF WrapInv
  <2> QED
    BY <1>2, <2>1, <2>2, <2>3, <2>4
<1>3. CASE UNCHANGED wrapVars
  BY <1>3 DEF wrapVars, WrapInv, Layered, Wrapped
<1>4. Throw \/ Seal \/ Wrap \/ Persist \/ PublishReply \/ Fetch => reply.at # "none"
  BY DEF Throw, Seal, Wrap, Persist, PublishReply, Fetch, ReplyAt
<1> QED
  BY <1>1, <1>2, <1>3, <1>4 DEF WrapNext, WrapInv

(* For every reply that a Worker can hold, and whatever the engine takes:  *)
(* what is unwrapped is what was wrapped, and what is lost ended within a  *)
(* prefix of the end of its bucket or was too long for the engine.  Of the *)
(* two layers only the inner one can end there: the seal around what fits  *)
(* always fits (SealFits).                                                 *)
THEOREM WholeOrLost == WrapSpec => []WholeOrLostAtTheEdge
<1>1. WrapInit => WrapInv
  BY SMT DEF WrapInit, WrapInv
<1>2. WrapInv => WholeOrLostAtTheEdge
  <2> SUFFICES ASSUME WrapInv, reply.at # "none" PROVE WholeOrLostAtTheEdge
    BY DEF WholeOrLostAtTheEdge, Wrapped
  <2>1. PICK n \in Sizes : Layered(n)
    BY DEF WrapInv
  <2>2. n \in Nat \ {0} /\ PaddedLen(n) \in Nat /\ Sealable(n)
    BY RumorLen
  <2>3. ASSUME Wrapped
        PROVE  Unpad(frames[2]) = reply.size /\ SealLen(Unpad(frames[1])) = reply.size
    <3>1. /\ frames[1] = Frame(n) /\ frames[2] = Frame(SealLen(n)) /\ reply.size = SealLen(n)
          /\ Encrypts(n) /\ Encrypts(SealLen(n))
      BY <2>1, <2>3 DEF Layered
    <3>2. Unpad(Frame(n)) = n /\ Unpad(Frame(SealLen(n))) = SealLen(n)
      BY <2>2, <3>1, UnpadsWhole DEF Encrypts, Sealable
    <3> QED
      BY <3>1, <3>2
  <2>4. ASSUME reply.at = "lost"
        PROVE  \/ frames = <<>> /\ PaddedLen(reply.size) - reply.size < Prefix(reply.size)
               \/ PayloadLen(reply.size) > SpreadLimit
    <3>1. \A m \in Nat : PaddedLen(m) \in Nat /\ ~Encrypts(m)
             => PaddedLen(m) - m < Prefix(m) \/ PayloadLen(m) > SpreadLimit
      <4> SUFFICES ASSUME NEW m \in Nat, PaddedLen(m) \in Nat, ~Encrypts(m), ~(PayloadLen(m) > SpreadLimit)
                   PROVE  PaddedLen(m) - m < Prefix(m)
        OBVIOUS
      <4>1. PayloadLen(m) \in Nat /\ Prefix(m) \in Nat
        BY SMT DEF PayloadLen, Prefix
      <4> QED
        BY <4>1, WrapSizes, SMT DEF Encrypts, Fits
    <3>2. CASE frames = <<>> /\ reply.size = n /\ ~Encrypts(n)
      BY <2>2, <3>1, <3>2
    <3>3. CASE reply.size = SealLen(n) /\ ~Encrypts(SealLen(n))
      <4>1. PayloadLen(SealLen(n)) \in Nat /\ SpreadLimit \in Nat
        BY <2>2, WrapSizes, SMT DEF PayloadLen, Sealable
      <4> QED
        BY <2>2, <3>3, <4>1 DEF Encrypts, Sealable
    <3> QED
      BY <2>1, <2>4, <3>2, <3>3 DEF Layered
  <2> QED
    BY <2>3, <2>4 DEF WholeOrLostAtTheEdge
<1> QED
  BY <1>1, <1>2, WrapInductive, PTL DEF WrapSpec
=============================================================================
