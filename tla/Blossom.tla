------------------------------ MODULE Blossom ------------------------------
(***************************************************************************)
(* The media server: blobs in an R2 bucket under the digest of their       *)
(* bytes, with their uploader in the metadata.  Uploads and deletions are  *)
(* authorized by a signed event for a verb and a blob, which serves again  *)
(* until it expires; handlers look at the bucket and then change it.       *)
(***************************************************************************)
EXTENDS Integers, FiniteSets

CONSTANTS
    Workers,    \* requests that can be in flight at once
    Users,      \* pubkeys
    Hashes,     \* digests; they are listed in this order
    Signatures, \* authorizations that are signed in this instance
    ListLimit   \* objects of one bucket.list

Nobody == "nobody"

Verbs == {"upload", "delete"}
Auths == [by : Users, verb : Verbs, hash : Hashes]

ASSUME BlossomSizes ==
    /\ Hashes \subseteq Nat /\ IsFiniteSet(Hashes)
    /\ Signatures \subseteq Auths
    /\ ListLimit \in Nat /\ Nobody \notin Users

VARIABLES
    blobs,      \* the bucket: the uploader of each blob, or Nobody
    signed,     \* authorizations that are valid now
    job,        \* the requests in flight
    uploaders   \* history: who has uploaded what

blossomVars == <<blobs, signed, job, uploaders>>

NoJob == [at |-> "none"]
Jobs == {NoJob}
    \cup [at : {"head", "put", "delete"}, auth : Auths]
    \cup [at : {"list", "entries"}, whose : Users, left : SUBSET Hashes,
          found : SUBSET Hashes, owned : SUBSET Hashes]

Doing(j, step) == job[j].at = step
EndJob(j) == job' = [job EXCEPT ![j] = NoJob]

BlossomInit ==
    /\ blobs = [h \in Hashes |-> Nobody]
    /\ signed = {}
    /\ job = [j \in Workers |-> NoJob]
    /\ uploaders = {}

\* Lists in progress, after blob h has become u's, or nobody's.
Disowned(h, u) ==
    [j \in Workers |->
        IF job[j].at \in {"list", "entries"} /\ job[j].whose # u
        THEN [job[j] EXCEPT !.owned = @ \ {h}] ELSE job[j]]

-----------------------------------------------------------------------------
(* A client signs an authorization; it expires, ten minutes later at most. *)
Sign(a) ==
    /\ a \notin signed
    /\ signed' = signed \cup {a}
    /\ UNCHANGED <<blobs, job, uploaders>>

Expire(a) ==
    /\ a \in signed
    /\ signed' = signed \ {a}
    /\ UNCHANGED <<blobs, job, uploaders>>

(* verifyAuth: the signature is good and names the verb and the blob of    *)
(* the request, and ends within ten minutes.                               *)
VerifyAuth(a) == a \in signed

(* handleUpload and handleDelete, up to the first look at the bucket. *)
Submit(j, a) ==
    /\ job[j] = NoJob
    /\ VerifyAuth(a)
    /\ job' = [job EXCEPT ![j] = [at |-> "head", auth |-> a]]
    /\ UNCHANGED <<blobs, signed, uploaders>>

\* The owner stays who it is; the answer is the same 201.
HeadForUpload(j) ==
    /\ Doing(j, "head") /\ job[j].auth.verb = "upload"
    /\ IF blobs[job[j].auth.hash] = Nobody
       THEN job' = [job EXCEPT ![j].at = "put"] ELSE EndJob(j)
    /\ UNCHANGED <<blobs, signed, uploaders>>

Put(j) ==
    /\ Doing(j, "put")
    /\ LET a == job[j].auth IN
         /\ blobs' = [blobs EXCEPT ![a.hash] = a.by]
         /\ uploaders' = uploaders \cup {<<a.by, a.hash>>}
         /\ job' = [Disowned(a.hash, a.by) EXCEPT ![j] = NoJob]
    /\ UNCHANGED signed

\* Mutant: anyone with an authorization of their own.
HeadForAnyDelete(j) ==
    /\ Doing(j, "head") /\ job[j].auth.verb = "delete"
    /\ IF blobs[job[j].auth.hash] # Nobody
       THEN job' = [job EXCEPT ![j].at = "delete"] ELSE EndJob(j)
    /\ UNCHANGED <<blobs, signed, uploaders>>

\* 404 when there is no blob, 403 when it is another's.
HeadForDelete(j) ==
    /\ Doing(j, "head") /\ job[j].auth.verb = "delete"
    /\ IF blobs[job[j].auth.hash] = job[j].auth.by
       THEN job' = [job EXCEPT ![j].at = "delete"] ELSE EndJob(j)
    /\ UNCHANGED <<blobs, signed, uploaders>>

(* Whoever's it is by now. *)
Delete(j) ==
    /\ Doing(j, "delete")
    /\ LET h == job[j].auth.hash IN
         /\ blobs' = [blobs EXCEPT ![h] = Nobody]
         /\ job' = [Disowned(h, Nobody) EXCEPT ![j] = NoJob]
    /\ UNCHANGED <<signed, uploaders>>

-----------------------------------------------------------------------------
(* handleList *)

List(j, u) ==
    /\ job[j] = NoJob
    /\ job' = [job EXCEPT ![j] =
         [at |-> "list", whose |-> u, left |-> {}, found |-> {},
          owned |-> {h \in Hashes : blobs[h] = u}]]
    /\ UNCHANGED <<blobs, signed, uploaders>>

Present == {h \in Hashes : blobs[h] # Nobody}
FirstOf(S) == {h \in S : Cardinality({g \in S : g < h}) < ListLimit}

ListBucket(j) ==
    /\ Doing(j, "list")
    /\ job' = [job EXCEPT ![j].at = "entries", ![j].left = FirstOf(Present),
                          ![j].owned = IF FirstOf(Present) = Present THEN @ ELSE {}]
    /\ UNCHANGED <<blobs, signed, uploaders>>

\* Mutant: a blob that is gone ends the list.
EntryOrEnd(j, h) ==
    /\ Doing(j, "entries") /\ h \in job[j].left /\ \A g \in job[j].left : h <= g
    /\ job' = [job EXCEPT ![j].left = IF blobs[h] = Nobody THEN {} ELSE @ \ {h},
                          ![j].found = IF blobs[h] = job[j].whose THEN @ \cup {h} ELSE @]
    /\ UNCHANGED <<blobs, signed, uploaders>>

\* The head of one object; one that is gone, or another's, is left out.
Entry(j, h) ==
    /\ Doing(j, "entries") /\ h \in job[j].left /\ \A g \in job[j].left : h <= g
    /\ job' = [job EXCEPT ![j].left = @ \ {h},
                          ![j].found = IF blobs[h] = job[j].whose THEN @ \cup {h} ELSE @]
    /\ UNCHANGED <<blobs, signed, uploaders>>

Reply(j) ==
    /\ Doing(j, "entries") /\ job[j].left = {}
    /\ EndJob(j)
    /\ UNCHANGED <<blobs, signed, uploaders>>

-----------------------------------------------------------------------------
\* R2 fails, or the worker is gone; the client does not know what was done.
Break(j) ==
    /\ job[j] # NoJob
    /\ EndJob(j)
    /\ UNCHANGED <<blobs, signed, uploaders>>

BlossomNext ==
    \/ \E a \in Signatures : Sign(a) \/ Expire(a) \/ \E j \in Workers : Submit(j, a)
    \/ \E j \in Workers :
         \/ HeadForUpload(j) \/ Put(j) \/ HeadForDelete(j) \/ Delete(j)
         \/ ListBucket(j) \/ Reply(j) \/ Break(j)
         \/ \E h \in Hashes : Entry(j, h)
         \/ \E u \in Users : List(j, u)

BlossomSpec == BlossomInit /\ [][BlossomNext]_blossomVars

-----------------------------------------------------------------------------
BlossomTypeOK ==
    /\ blobs \in [Hashes -> Users \cup {Nobody}]
    /\ signed \subseteq Signatures
    /\ job \in [Workers -> Jobs]
    /\ uploaders \subseteq Users \X Hashes

(* server.ts:276-277: nobody erases another's photos.  Whatever is about   *)
(* to be removed was uploaded by the one who asks, who may find by then    *)
(* that it is gone and that another has uploaded the same bytes: the owner *)
(* is looked up before, and that is as much as the lookup is worth.        *)
OnlyUploadersDelete ==
    \A j \in Workers : Doing(j, "delete") => <<job[j].auth.by, job[j].auth.hash>> \in uploaders

(* A list has every blob that was its user's from the first look to the    *)
(* last, whatever is uploaded and removed meanwhile, unless the bucket     *)
(* holds more than one listing takes.                                      *)
OwnListed ==
    \A j \in Workers : Doing(j, "entries") /\ job[j].left = {} => job[j].owned \subseteq job[j].found
=============================================================================
