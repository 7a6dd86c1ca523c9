------------------------------- MODULE Blast -------------------------------
(***************************************************************************)
(* The blast relay (send-it.js), a worker of its own: it stores nothing    *)
(* and passes every EVENT on to the relays it knows of.  A list of them is *)
(* asked of a few bootstrap relays, each of which may answer, fail, close  *)
(* or say nothing until a timer ends the query.  Then a semaphore lets a   *)
(* few connections at a time be tried, each with a timer that limits it    *)
(* and one that gives the relay a moment after the event was sent.         *)
(*                                                                         *)
(* An await, a timer and an event of a socket are one action each.  The    *)
(* token bucket is that of RateLimiter: here an EVENT may be refused at    *)
(* any time.  An entry of the cache may expire at any time.                *)
(***************************************************************************)
EXTENDS Integers, FiniteSets

CONSTANTS
    Messages,   \* EVENT messages that clients send, each once
    Id,         \* message -> the event id it carries
    Forged,     \* messages whose signature is wrong
    Denied,     \* ids whose pubkey, kind or content is blocked
    Bootstrap,  \* relays that are asked for others
    Others,     \* relays they may tell of
    Slots       \* connections a blast tries at a time (5)

ASSUME BlastData ==
    /\ Forged \subseteq Messages /\ Denied \subseteq {Id[m] : m \in Messages}
    /\ IsFiniteSet(Bootstrap) /\ Bootstrap # {} /\ IsFiniteSet(Others)
    /\ Slots \in Nat \ {0}

AllRelays == Bootstrap \cup Others

VARIABLES
    seen,      \* ids in relayCache
    list,      \* relay_list in relayCache, {} when it is not there
    work,      \* per message: the step its handler is at
    asked,     \* per message: bootstrap relays whose query is not settled
    found,     \* per message: relays it was told of, then the relays of its blast
    attempt,   \* per message and relay: where the attempt is
    socket,    \* per message and relay: the connection
    running,   \* per message: currentlyRunning of its semaphore
    counted,   \* per message: relays counted as successes
    \* history
    sent,      \* per message: relays the event was sent to
    dropped,   \* ids answered "Duplicate"
    stranded   \* ids accepted for a client that was gone

cache == <<seen, list>>
query == <<asked, found>>
tries == <<attempt, socket, running, counted, sent>>
blastVars == <<cache, work, query, tries, dropped, stranded>>

Tried == {"acquired", "connecting", "sending"}
BlastInit ==
    /\ seen = {} /\ list = {}
    /\ work = [m \in Messages |-> "unsent"]
    /\ asked = [m \in Messages |-> {}] /\ found = [m \in Messages |-> {}]
    /\ attempt = [m \in Messages |-> [r \in AllRelays |-> "none"]]
    /\ socket = [m \in Messages |-> [r \in AllRelays |-> "none"]]
    /\ running = [m \in Messages |-> 0]
    /\ counted = [m \in Messages |-> {}] /\ sent = [m \in Messages |-> {}]
    /\ dropped = {} /\ stranded = {}

Becomes(m, step) == work' = [work EXCEPT ![m] = step]
-----------------------------------------------------------------------------
(* processEvent *)

\* Mutant: the id is remembered before the signature is known to be right.
ReceiveEager(m) ==
    /\ work[m] = "unsent"
    /\ IF Id[m] \in seen
       THEN dropped' = dropped \cup {Id[m]} /\ Becomes(m, "over") /\ UNCHANGED seen
       ELSE Becomes(m, "verify") /\ seen' = seen \cup {Id[m]} /\ UNCHANGED dropped
    /\ UNCHANGED <<list, query, tries, stranded>>

\* An id that is remembered is dropped; else its signature is checked.
Receive(m) ==
    /\ work[m] = "unsent"
    /\ IF Id[m] \in seen
       THEN dropped' = dropped \cup {Id[m]} /\ Becomes(m, "over")
       ELSE Becomes(m, "verify") /\ UNCHANGED dropped
    /\ UNCHANGED <<cache, query, tries, stranded>>

Limit(m) ==
    /\ work[m] = "unsent"
    /\ Becomes(m, "over")
    /\ UNCHANGED <<cache, query, tries, dropped, stranded>>

\* Remembered, answered with OK, and then the list is looked up.
Accept(m) ==
    /\ work[m] = "verify" /\ m \notin Forged
    /\ seen' = seen \cup {Id[m]}
    /\ IF list # {}
       THEN Becomes(m, "blast") /\ found' = [found EXCEPT ![m] = list] /\ UNCHANGED asked
       ELSE Becomes(m, "monitors") /\ asked' = [asked EXCEPT ![m] = Bootstrap] /\ UNCHANGED found
    /\ UNCHANGED <<list, tries, dropped, stranded>>

\* The OK meets a socket that is closed: send throws, and so does the catch.
AcceptForNobody(m) ==
    /\ work[m] = "verify" /\ m \notin Forged
    /\ seen' = seen \cup {Id[m]} /\ stranded' = stranded \cup {Id[m]}
    /\ Becomes(m, "over")
    /\ UNCHANGED <<list, query, tries, dropped>>

Reject(m) ==
    /\ work[m] = "verify" /\ m \in Forged
    /\ Becomes(m, "over")
    /\ UNCHANGED <<cache, query, tries, dropped, stranded>>

\* Sixty seconds for an event, ten minutes for the list.
Expire ==
    \/ \E id \in seen : seen' = seen \ {id} /\ UNCHANGED <<list, work, query, tries, dropped, stranded>>
    \/ list # {} /\ list' = {} /\ UNCHANGED <<seen, work, query, tries, dropped, stranded>>
-----------------------------------------------------------------------------
(* fetchRelays *)

\* queryRelay settles once: with what had come when EOSE, an error, the
\* close or the timer ended it.  Monitors only say whose lists to ask for.
Settle(m, b) ==
    /\ work[m] \in {"monitors", "relays"} /\ b \in asked[m]
    /\ asked' = [asked EXCEPT ![m] = @ \ {b}]
    /\ \E told \in SUBSET Others :
         found' = IF work[m] = "relays" THEN [found EXCEPT ![m] = @ \cup told] ELSE found
    /\ UNCHANGED <<cache, work, tries, dropped, stranded>>

\* All monitors are known: the same relays are asked again.
AskForRelays(m) ==
    /\ work[m] = "monitors" /\ asked[m] = {}
    /\ asked' = [asked EXCEPT ![m] = Bootstrap]
    /\ Becomes(m, "relays")
    /\ UNCHANGED <<cache, found, tries, dropped, stranded>>

\* A short list would be filled up with known relays, members of Others.
KeepList(m) ==
    /\ work[m] = "relays" /\ asked[m] = {}
    /\ \E known \in {{}, Others} :
         /\ found' = [found EXCEPT ![m] = @ \cup Bootstrap \cup known]
         /\ list' = found[m] \cup Bootstrap \cup known
    /\ Becomes(m, "blast")
    /\ UNCHANGED <<seen, asked, tries, dropped, stranded>>
-----------------------------------------------------------------------------
(* blastEventToRelays *)

Deny(m) ==
    /\ work[m] = "blast" /\ Id[m] \in Denied
    /\ Becomes(m, "over")
    /\ UNCHANGED <<cache, query, tries, dropped, stranded>>

\* All attempts ask for the semaphore at once: some get it, the others wait.
Begin(m) ==
    /\ work[m] = "blast" /\ Id[m] \notin Denied
    /\ \E first \in SUBSET found[m] :
         /\ first = found[m] \/ Cardinality(first) = Slots
         /\ Cardinality(first) <= Slots
         /\ attempt' = [attempt EXCEPT ![m] = [r \in AllRelays |->
                IF r \in first THEN "acquired" ELSE IF r \in found[m] THEN "waiting" ELSE "none"]]
         /\ running' = [running EXCEPT ![m] = Cardinality(first)]
    /\ Becomes(m, "blasting")
    /\ UNCHANGED <<cache, query, socket, counted, sent, dropped, stranded>>

\* Mutant: everybody who waits is woken.
ReleaseAll(m, r) ==
    /\ running' = [running EXCEPT ![m] = @ - 1]
    /\ attempt' = [attempt EXCEPT ![m] = [q \in AllRelays |->
           IF q = r THEN "done" ELSE IF @[q] = "waiting" THEN "woken" ELSE @[q]]]

\* release: the slot is given back, and one of those who wait is woken.
Release(m, r) ==
    /\ running' = [running EXCEPT ![m] = @ - 1]
    /\ LET waiting == {q \in AllRelays : attempt[m][q] = "waiting"} IN
       IF waiting = {}
       THEN attempt' = [attempt EXCEPT ![m][r] = "done"]
       ELSE \E next \in waiting :
              attempt' = [attempt EXCEPT ![m][r] = "done", ![m][next] = "woken"]

\* acquire goes on after it waited, without another look at the count.
Wake(m, r) ==
    /\ attempt[m][r] = "woken"
    /\ running' = [running EXCEPT ![m] = @ + 1]
    /\ attempt' = [attempt EXCEPT ![m][r] = "acquired"]
    /\ UNCHANGED <<cache, work, query, socket, counted, sent, dropped, stranded>>
-----------------------------------------------------------------------------
(* blastToSingleRelay; resolving and the release after it are one step. *)

Connect(m, r) ==
    /\ attempt[m][r] = "acquired"
    /\ attempt' = [attempt EXCEPT ![m][r] = "connecting"]
    /\ socket' = [socket EXCEPT ![m][r] = "connecting"]
    /\ UNCHANGED <<cache, work, query, running, counted, sent, dropped, stranded>>

\* The listener of "open" does not ask whether the attempt is still wanted.
Open(m, r) ==
    /\ socket[m][r] = "connecting"
    /\ socket' = [socket EXCEPT ![m][r] = "open"]
    /\ sent' = [sent EXCEPT ![m] = @ \cup {r}]
    /\ attempt' = IF attempt[m][r] = "connecting"
                  THEN [attempt EXCEPT ![m][r] = "sending"] ELSE attempt
    /\ UNCHANGED <<cache, work, query, running, counted, dropped, stranded>>

\* A hundred milliseconds after the event was sent, whatever the relay says.
Succeed(m, r) ==
    /\ attempt[m][r] = "sending"
    /\ socket' = [socket EXCEPT ![m][r] = "closed"]
    /\ counted' = [counted EXCEPT ![m] = @ \cup {r}]
    /\ Release(m, r)
    /\ UNCHANGED <<cache, work, query, sent, dropped, stranded>>

\* Three seconds: a socket that is not open yet is not closed either.
TimeOut(m, r) ==
    /\ attempt[m][r] \in {"connecting", "sending"}
    /\ socket' = [socket EXCEPT ![m][r] = IF @ = "open" THEN "closed" ELSE @]
    /\ Release(m, r)
    /\ UNCHANGED <<cache, work, query, counted, sent, dropped, stranded>>

\* "error" or "close"; or the constructor, or send, throws.
Break(m, r) ==
    /\ socket[m][r] \in {"connecting", "open"} \/ attempt[m][r] = "acquired"
    /\ socket' = [socket EXCEPT ![m][r] = "closed"]
    /\ IF attempt[m][r] \in Tried
       THEN Release(m, r)
       ELSE UNCHANGED <<running, attempt>>
    /\ UNCHANGED <<cache, work, query, counted, sent, dropped, stranded>>

Done(m) == {r \in found[m] : attempt[m][r] = "done"}

\* "Event blasted to ..."
Answer(m) ==
    /\ work[m] = "blasting" /\ Done(m) = found[m]
    /\ Becomes(m, "over")
    /\ UNCHANGED <<cache, query, tries, dropped, stranded>>

\* Twenty-eight seconds: the attempts go on as long as the worker lives.
AnswerLate(m) ==
    /\ work[m] = "blasting"
    /\ Becomes(m, "late")
    /\ UNCHANGED <<cache, query, tries, dropped, stranded>>

BlastNext ==
    \/ \E m \in Messages :
         \/ Receive(m) \/ Limit(m) \/ Accept(m) \/ AcceptForNobody(m) \/ Reject(m)
         \/ AskForRelays(m) \/ KeepList(m) \/ Deny(m) \/ Begin(m) \/ Answer(m) \/ AnswerLate(m)
         \/ \E b \in Bootstrap : Settle(m, b)
         \/ \E r \in AllRelays :
              Wake(m, r) \/ Connect(m, r) \/ Open(m, r) \/ Succeed(m, r) \/ TimeOut(m, r) \/ Break(m, r)
    \/ Expire

BlastSpec == BlastInit /\ [][BlastNext]_blastVars

-----------------------------------------------------------------------------
BlastTypeOK ==
    /\ seen \subseteq {Id[m] : m \in Messages} /\ list \subseteq AllRelays
    /\ work \in [Messages -> {"unsent", "verify", "monitors", "relays", "blast", "blasting", "late", "over"}]
    /\ asked \in [Messages -> SUBSET Bootstrap] /\ found \in [Messages -> SUBSET AllRelays]
    /\ attempt \in [Messages -> [AllRelays -> {"none", "waiting", "woken", "done"} \cup Tried]]
    /\ socket \in [Messages -> [AllRelays -> {"none", "connecting", "open", "closed"}]]
    /\ running \in [Messages -> Int]
    /\ counted \in [Messages -> SUBSET AllRelays] /\ sent \in [Messages -> SUBSET AllRelays]
    /\ dropped \subseteq {Id[m] : m \in Messages} /\ stranded \subseteq {Id[m] : m \in Messages}

(* A blast never tries more connections at a time than the semaphore has   *)
(* slots, although a waiter that is woken takes its slot a moment after it *)
(* was given back (Semaphore).                                             *)
SlotsHold ==
    \A m \in Messages :
        Cardinality({r \in AllRelays : attempt[m][r] \in Tried \cup {"woken"}}) <= Slots

(* "Duplicate. Event dropped." is only said of an event that is, or has    *)
(* been, on its way to the relays, or is denied; except one whose client   *)
(* was gone when it was accepted, which nobody passes on.                  *)
DroppedIsOnItsWay ==
    \A id \in dropped \ (stranded \cup Denied) : \E m \in Messages :
        /\ Id[m] = id /\ m \notin Forged
        /\ \/ work[m] \in {"monitors", "relays", "blast", "blasting", "late"}
           \/ found[m] # {} /\ Done(m) = found[m]
=============================================================================
