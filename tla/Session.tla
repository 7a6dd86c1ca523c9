------------------------------ MODULE Session ------------------------------
(* The connections of one regional Durable Object                          *)
(* (src/src/durable-object.ts): what it knows of a client, and where.      *)
(*                                                                         *)
(* A session is an object in the map "sessions". Handlers keep a reference *)
(* to the object they started with, also when the map lets go of it. What  *)
(* survives hibernation is the attachment of the socket, written when a    *)
(* message is done, and the subscriptions in storage. One alarm runs the   *)
(* housekeeper and, when nobody is connected, clears the map.              *)
(*                                                                         *)
(* While a storage operation is awaited no other event is delivered (input *)
(* gates): such stretches are one step. Awaits of the database, of other   *)
(* objects and of the signature check are where handlers interleave.       *)
EXTENDS Integers, FiniteSetsExt

CONSTANTS
    Conns,          \* connections; each has a session id of its own
    Procs,          \* messages that may be in flight at once
    Keys,           \* pubkeys that clients authenticate with
    Subs,           \* subscription ids
    MaxChallenges   \* bound: challenges generated for one connection

ASSUME SessionBounds ==
    /\ IsFiniteSet(Procs)
    /\ MaxChallenges \in Nat \ {0}

VARIABLES
    socket,      \* getWebSockets has those that are "open"
    attachment,  \* what is serialized to the socket
    stored,      \* "subs:<sessionId>" in the storage
    sessions,    \* the map: a slot of objects, or None
    objects,     \* the session objects somebody refers to
    handler,     \* the messages in flight
    alarm,       \* an alarm is set
    tick,        \* alarm() is not running, or how many sockets it counted
    \* history, for the properties
    issued,      \* challenges generated for a connection
    sent,        \* those its client was told
    accepted,    \* the AUTHs that were answered with OK true
    granted,     \* and their pubkeys
    asked,       \* the subscriptions the client holds
    split        \* connections whose session was dropped during a message

memory == <<sessions, objects, handler>>
durable == <<socket, attachment, stored>>
timer == <<alarm, tick>>
history == <<issued, sent, accepted, granted, asked, split>>
vars == <<memory, durable, timer, history>>

None == 0
Idle == [at |-> "idle"]
Slots == 1 .. Cardinality(Procs) + 1
Blank == [auth |-> {}, challenge |-> None, subs |-> {}]
Open == {c \in Conns : socket[c] = "open"}

InFlight(p) == handler[p] # Idle
On(h, c) == h # Idle /\ h.conn = c

(* Objects that neither the map nor a message refers to are forgotten. *)
Heap(heap, map, running) ==
    [c \in Conns |-> [o \in Slots |->
        IF map[c] = o \/ \E p \in Procs : On(running[p], c) /\ running[p].slot = o
        THEN heap[c][o] ELSE Blank]]

Init ==
    /\ socket = [c \in Conns |-> "new"]
    /\ attachment = [c \in Conns |-> [auth |-> {}, challenge |-> None]]
    /\ stored = [c \in Conns |-> {}]
    /\ sessions = [c \in Conns |-> None]
    /\ objects = [c \in Conns |-> [o \in Slots |-> Blank]]
    /\ handler = [p \in Procs |-> Idle]
    /\ alarm = FALSE /\ tick = "idle"
    /\ issued = [c \in Conns |-> 0] /\ accepted = [c \in Conns |-> 0]
    /\ sent = [c \in Conns |-> {}] /\ granted = [c \in Conns |-> {}]
    /\ asked = [c \in Conns |-> {}] /\ split = {}

-----------------------------------------------------------------------------
(* The session of a connection: the map's object, or a new one from the    *)
(* attachment and the storage.                                             *)
Restored(c) ==
    [auth |-> attachment[c].auth, challenge |-> attachment[c].challenge, subs |-> stored[c]]

Current(c) == IF sessions[c] = None THEN Restored(c) ELSE objects[c][sessions[c]]

Slot(c) ==
    IF sessions[c] # None THEN sessions[c]
    ELSE Min({o \in Slots : \A p \in Procs : ~(On(handler[p], c) /\ handler[p].slot = o)})

(* A message arrives: its session is found or restored, and is s when the  *)
(* handler first awaits. A restored client that is not authenticated is    *)
(* sent its challenge again.                                               *)
Receive(c, s) ==
    /\ c \in Open
    /\ sessions' = [sessions EXCEPT ![c] = Slot(c)]
    /\ objects' = Heap([objects EXCEPT ![c][Slot(c)] = s], sessions', handler')
    /\ sent' = IF sessions[c] = None /\ Restored(c).auth = {}
               THEN [sent EXCEPT ![c] = @ \cup {Restored(c).challenge}] ELSE sent

(* The end of a message: its session is written to the attachment. *)
Attach(c, s) ==
    attachment' = IF c \in Open
                  THEN [attachment EXCEPT ![c] = [auth |-> s.auth, challenge |-> s.challenge]]
                  ELSE attachment

-----------------------------------------------------------------------------
(* fetch: a new connection, its session, its challenge, and the alarm if   *)
(* there is none; while alarm() runs there is none.                        *)
Connect(c) ==
    LET s == [Blank EXCEPT !.challenge = 1] IN
    /\ socket[c] = "new"
    /\ socket' = [socket EXCEPT ![c] = "open"]
    /\ attachment' = [attachment EXCEPT ![c] = [auth |-> {}, challenge |-> 1]]
    /\ sessions' = [sessions EXCEPT ![c] = Slot(c)]
    /\ objects' = [objects EXCEPT ![c][Slot(c)] = s]
    /\ issued' = [issued EXCEPT ![c] = 1]
    /\ sent' = [sent EXCEPT ![c] = {1}]
    /\ alarm' = TRUE
    /\ UNCHANGED <<stored, handler, tick, accepted, granted, asked, split>>

(* A message that is refused before anything is awaited: not valid, not    *)
(* authenticated, or too many of them.                                     *)
Refuse(c) ==
    /\ UNCHANGED <<socket, stored, handler, timer, issued, accepted, granted, asked, split>>
    /\ Receive(c, Current(c))
    /\ Attach(c, Current(c))

(* AUTH, with a challenge the client knows, up to the signature check. *)
Auth(p, c, k, n) ==
    /\ ~InFlight(p) /\ n \in sent[c]
    /\ handler' = [handler EXCEPT ![p] =
         [at |-> "verify", conn |-> c, slot |-> Slot(c), key |-> k, challenge |-> n]]
    /\ Receive(c, Current(c))
    /\ UNCHANGED <<durable, timer, issued, accepted, granted, asked, split>>

\* Mutant: the challenge is compared before the signature check is awaited.
PassesEarly(p) == handler[p].challenge \in sent[handler[p].conn]

(* The rest of AUTH, on the session it started with. The challenge is the  *)
(* session's own at this moment; its successor is not sent.                *)
Passes(p) == handler[p].challenge = objects[handler[p].conn][handler[p].slot].challenge

Grant(p) ==
    LET c == handler[p].conn
        k == handler[p].key
        s == [objects[c][handler[p].slot] EXCEPT !.auth = @ \cup {k}, !.challenge = issued[c] + 1] IN
    /\ handler[p].at = "verify"
    /\ Passes(p)
    /\ issued[c] < MaxChallenges
    /\ handler' = [handler EXCEPT ![p] = Idle]
    /\ objects' = Heap([objects EXCEPT ![c][handler[p].slot] = s], sessions, handler')
    /\ Attach(c, s)
    /\ issued' = [issued EXCEPT ![c] = @ + 1]
    /\ accepted' = [accepted EXCEPT ![c] = @ + 1]
    /\ granted' = [granted EXCEPT ![c] = @ \cup {k}]
    /\ UNCHANGED <<socket, stored, sessions, timer, sent, asked, split>>

(* REQ: the subscription is set and stored before the query is awaited. *)
Req(p, c, sub) ==
    LET s == [Current(c) EXCEPT !.subs = @ \cup {sub}] IN
    /\ ~InFlight(p)
    /\ s.auth # {}
    /\ handler' = [handler EXCEPT ![p] = [at |-> "query", conn |-> c, slot |-> Slot(c)]]
    /\ Receive(c, s)
    /\ stored' = [stored EXCEPT ![c] = s.subs]
    /\ asked' = [asked EXCEPT ![c] = @ \cup {sub}]
    /\ UNCHANGED <<socket, attachment, timer, issued, accepted, granted, split>>

(* CLOSE: awaits the storage only, and asks for no authentication. *)
CloseSubscription(c, sub) ==
    LET s == [Current(c) EXCEPT !.subs = @ \ {sub}] IN
    /\ UNCHANGED <<socket, handler, timer, issued, accepted, granted, split>>
    /\ Receive(c, s)
    /\ stored' = IF sub \in Current(c).subs THEN [stored EXCEPT ![c] = s.subs] ELSE stored
    /\ Attach(c, s)
    /\ asked' = [asked EXCEPT ![c] = @ \ {sub}]

(* EVENT of an authenticated client, up to the first await. *)
Event(p, c) ==
    /\ ~InFlight(p)
    /\ Current(c).auth # {}
    /\ handler' = [handler EXCEPT ![p] = [at |-> "save", conn |-> c, slot |-> Slot(c)]]
    /\ Receive(c, Current(c))
    /\ UNCHANGED <<durable, timer, issued, accepted, granted, asked, split>>

(* broadcastToLocalSessions: every open socket gets its session back, and  *)
(* no challenge is sent.                                                   *)
Awaken(running) ==
    LET found == [c \in Conns |-> IF c \in Open THEN Slot(c) ELSE sessions[c]] IN
    /\ sessions' = found
    /\ objects' = Heap([c \in Conns |-> [o \in Slots |->
                         IF o = found[c] THEN Current(c) ELSE objects[c][o]]], found, running)

(* The event, or the answer of an extension, is saved and announced here;  *)
(* then the other objects are called.                                      *)
Announce(p) ==
    /\ handler[p].at = "save"
    /\ handler' = [handler EXCEPT ![p].at = "announce"]
    /\ Awaken(handler')
    /\ UNCHANGED <<durable, timer, history>>

(* What another object announces. *)
DOBroadcast ==
    /\ Awaken(handler)
    /\ UNCHANGED <<handler, durable, timer, history>>

(* The end of a message that changes nothing more of its session: an AUTH  *)
(* that fails a check, a REQ, an EVENT that is refused or done.            *)
Finish(p) ==
    /\ InFlight(p)
    /\ handler' = [handler EXCEPT ![p] = Idle]
    /\ Attach(handler[p].conn, objects[handler[p].conn][handler[p].slot])
    /\ objects' = Heap(objects, sessions, handler')
    /\ UNCHANGED <<socket, stored, sessions, timer, history>>

-----------------------------------------------------------------------------
\* Mutant: the sessions in memory are counted instead of the sockets.
DisconnectCountsMap(c) ==
    /\ c \in Open
    /\ socket' = [socket EXCEPT ![c] = "closed"]
    /\ sessions' = [sessions EXCEPT ![c] = None]
    /\ objects' = Heap(objects, sessions', handler)
    /\ stored' = [stored EXCEPT ![c] = {}]
    /\ alarm' = (alarm /\ \E d \in Conns : sessions'[d] # None)
    /\ UNCHANGED <<handler, attachment, tick, history>>

(* webSocketClose: the session and its subscriptions go, and the alarm     *)
(* with the last socket. Whether the closing one is still listed is open.  *)
Disconnect(c) ==
    /\ c \in Open
    /\ socket' = [socket EXCEPT ![c] = "closed"]
    /\ sessions' = [sessions EXCEPT ![c] = None]
    /\ objects' = Heap(objects, sessions', handler)
    /\ stored' = [stored EXCEPT ![c] = {}]
    /\ alarm' \in IF Open = {c} THEN {alarm, FALSE} ELSE {alarm}
    /\ UNCHANGED <<handler, attachment, tick, history>>

(* webSocketError: only the map lets go of the session. *)
Fail(c) ==
    /\ c \in Open
    /\ socket' = [socket EXCEPT ![c] = "closed"]
    /\ sessions' = [sessions EXCEPT ![c] = None]
    /\ objects' = Heap(objects, sessions', handler)
    /\ UNCHANGED <<handler, attachment, stored, timer, history>>

(* An object without work in flight leaves memory; its sockets stay open. *)
Hibernate ==
    /\ \A p \in Procs : ~InFlight(p)
    /\ tick = "idle"
    /\ sessions' = [c \in Conns |-> None]
    /\ objects' = Heap(objects, sessions', handler)
    /\ UNCHANGED <<handler, durable, timer, history>>

(* A crash or a new version of the code: the sockets are closed without a  *)
(* call of webSocketClose, and an alarm that was running is run again.     *)
Crash ==
    /\ sessions' = [c \in Conns |-> None]
    /\ handler' = [p \in Procs |-> Idle]
    /\ objects' = Heap(objects, sessions', handler')
    /\ socket' = [c \in Conns |-> IF c \in Open THEN "closed" ELSE socket[c]]
    /\ alarm' = (alarm \/ tick # "idle")
    /\ tick' = "idle"
    /\ UNCHANGED <<attachment, stored, history>>

-----------------------------------------------------------------------------
(* alarm(): the sockets are counted, then the housekeeper is awaited. *)
AlarmFires ==
    /\ alarm /\ tick = "idle"
    /\ alarm' = FALSE
    /\ tick' = IF Open = {} THEN "empty" ELSE "busy"
    /\ UNCHANGED <<memory, durable, history>>

(* Somebody was connected: the next alarm is set, whoever still is. *)
Reschedule ==
    /\ tick = "busy"
    /\ alarm' = TRUE
    /\ tick' = "idle"
    /\ UNCHANGED <<memory, durable, history>>

\* Mutant: of the sessions that are not in the map, which was just cleared.
OrphansOfMap == {c \in Conns : sessions'[c] = None}

(* cleanupOrphanedSubscriptions: of the sessions without a socket now. *)
Orphans == Conns \ Open

(* cleanup(): nobody was connected when the sockets were counted. Who is   *)
(* now loses the object in the map, and keeps it in the messages in flight. *)
Cleanup ==
    /\ tick = "empty"
    /\ tick' = "idle"
    /\ sessions' = [c \in Conns |-> None]
    /\ objects' = Heap(objects, sessions', handler)
    /\ stored' = [c \in Conns |-> IF c \in Orphans THEN {} ELSE stored[c]]
    /\ split' = split \cup {c \in Open : \E p \in Procs : On(handler[p], c)}
    /\ UNCHANGED <<socket, attachment, handler, alarm, issued, sent, accepted, granted, asked>>

Next ==
    \/ \E c \in Conns : Connect(c) \/ Refuse(c) \/ Disconnect(c) \/ Fail(c)
    \/ \E p \in Procs, c \in Conns, k \in Keys : \E n \in sent[c] : Auth(p, c, k, n)
    \/ \E p \in Procs, c \in Conns, sub \in Subs : Req(p, c, sub)
    \/ \E c \in Conns, sub \in Subs : CloseSubscription(c, sub)
    \/ \E p \in Procs, c \in Conns : Event(p, c)
    \/ \E p \in Procs : Grant(p) \/ Announce(p) \/ Finish(p)
    \/ DOBroadcast \/ Hibernate \/ Crash
    \/ AlarmFires \/ Reschedule \/ Cleanup

Spec == Init /\ [][Next]_vars

-----------------------------------------------------------------------------
Challenges == 0 .. MaxChallenges
Held == [auth : SUBSET Keys, challenge : Challenges, subs : SUBSET Subs]

(* What each variable holds. *)
Shapes ==
    /\ socket \in [Conns -> {"new", "open", "closed"}]
    /\ attachment \in [Conns -> [auth : SUBSET Keys, challenge : Challenges]]
    /\ stored \in [Conns -> SUBSET Subs]
    /\ sessions \in [Conns -> Slots \cup {None}]
    /\ objects \in [Conns -> [Slots -> Held]]
    /\ handler \in [Procs -> {Idle}
         \cup [at : {"verify"}, conn : Conns, slot : Slots, key : Keys, challenge : Challenges]
         \cup [at : {"query", "save", "announce"}, conn : Conns, slot : Slots]]
    /\ alarm \in BOOLEAN /\ tick \in {"idle", "busy", "empty"}
    /\ issued \in [Conns -> Challenges] /\ accepted \in [Conns -> Challenges]
    /\ sent \in [Conns -> SUBSET Challenges] /\ granted \in [Conns -> SUBSET Keys]
    /\ asked \in [Conns -> SUBSET Subs] /\ split \subseteq Conns

(* The variables keep their shapes, and no open connection is ever without *)
(* a challenge: the one that a restored session generates for want of it   *)
(* (durable-object.ts:645), and that nobody was sent, is never needed.     *)
TypeOK == Shapes /\ \A c \in Open : Current(c).challenge # None

(* The session that the next message of an open connection meets, in       *)
(* memory, or put together again after hibernation or after alarm()        *)
(* cleared the map, has the subscriptions the client holds and the keys it *)
(* authenticated: docs/SECURITY.md:17, "auth state persists in WebSocket   *)
(* attachment". A connection whose session was dropped during a message    *)
(* may have forgotten keys, and still has none that were not granted.      *)
Remembered ==
    \A c \in Open :
        /\ Current(c).subs = asked[c]
        /\ Current(c).auth \subseteq granted[c]
        /\ c \notin split => Current(c).auth = granted[c]

(* At most one AUTH of a connection is accepted, however many are in       *)
(* flight and wherever its session is: a challenge is used once            *)
(* (docs/SECURITY.md:15), and its successor is not sent to a client that   *)
(* is authenticated. So the first of authenticatedPubkeys, which is the    *)
(* sender that extensions and the message policy see (durable-object.ts    *)
(* :907), is the only one.                                                 *)
AcceptedOnce == \A c \in Conns \ split : accepted[c] <= 1

(* While somebody is connected an alarm is set, or the one that runs will  *)
(* set the next: the housekeeper, which prunes grants and resets quotas,   *)
(* has no other clock.                                                     *)
AlarmIsSet == Open # {} => alarm \/ tick = "busy"
=============================================================================
