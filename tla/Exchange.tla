------------------------------ MODULE Exchange ------------------------------
(***************************************************************************)
(* A member's client (LiveClient of od-client.ts) and the relay, from the  *)
(* connection to the answer: NIP-42, the inbox subscription, requests to   *)
(* services and direct messages.  The wires keep their order.  The relay   *)
(* begins with the messages in that order, each in a handler of its own,   *)
(* and the handlers interleave where they await.                           *)
(*                                                                         *)
(* What a request is and what becomes of it at each place is data: sets of *)
(* requests that cannot be unwrapped, are screened, fail the router's      *)
(* checks, or whose answer cannot be wrapped.  Every request has an id of  *)
(* its own, so that none is a duplicate (Requests).  Live events and       *)
(* stored ones meet in the inbox (Delivery says how).                      *)
(***************************************************************************)
EXTENDS Integers, Sequences, FiniteSets

CONSTANTS
    Calls,        \* requests to services that the client makes
    Role,        \* request -> the role it is for
    Advertised,  \* roles in the relay document, which may have been cached
    Secret,      \* role -> "fit", "unfit" or "unset": the service's private key
    KeysFit,     \* whether the membership keys are set and long enough
    Garbled,     \* requests that do not unwrap to an OpenDating envelope
    Screened,    \* profile.create and profile.update with a text
    Faulty,      \* invalid, of a wrong version, not fresh, of another sender, not supported
    Bulky,       \* requests whose answer does not fit its padding (GiftWrap)
    Letters      \* direct messages that the client sends to its peer

ASSUME ExchangeData ==
    /\ Role \in [Calls -> STRING] /\ Secret \in [Advertised -> {"fit", "unfit", "unset"}]
    /\ KeysFit \in BOOLEAN /\ IsFiniteSet(Calls)
    /\ {Garbled, Screened, Faulty, Bulky} \subseteq SUBSET Calls

VARIABLES
    link,      \* the connection: "closed", "open" or "lost"
    identity,  \* NIP-42 as the client sees it
    told,      \* per request: what the client knows of it
    toRelay,   \* messages on their way to the relay
    toClient,  \* and back
    known,     \* whether the session has an authenticated pubkey
    inbox,     \* the subscription: "none", "reading" while its query runs, or "live"
    step,      \* per message: where its handler is
    code,      \* per request: the kind of reply it got
    saved,      \* messages stored: the replies to requests, and letters
    peer,      \* what there is between the member and the peer
    \* history
    missed,    \* requests whose reply was announced when there was no inbox
    cut,       \* whether the inbox's query failed, or a replica left something out
    fit        \* letters that were, at some time while they were handled, to a match

wires == <<toRelay, toClient>>
client == <<link, identity, told>>
relay == <<known, inbox, step, code, saved>>
past == <<missed, cut, fit>>
exchangeVars == <<client, wires, relay, peer, past>>

Login == [kind |-> "auth", of |-> "inbox"]
Subscribe == [kind |-> "req", of |-> "inbox"]
Call(r) == [kind |-> "call", of |-> r]
Mail(l) == [kind |-> "mail", of |-> l]
Copy(l) == [kind |-> "copy", of |-> l]
Mails == {Mail(l) : l \in Letters}
Items == {Login} \cup {Call(r) : r \in Calls} \cup Mails \cup {Copy(l) : l \in Letters}

Challenge == [kind |-> "challenge"]
LetIn == [kind |-> "ok"]
Declined == [kind |-> "no"]
ReplyTo(r, c) == [kind |-> "reply", of |-> r, code |-> c]
ToMember == {Challenge, LetIn, Declined} \cup {ReplyTo(r, c) : r \in Calls, c \in {"answer", "error"}}

\* initOpenDating: no service without the membership keys; a role without a
\* key, or with one that is none, is left out.
Loaded == IF KeysFit THEN {role \in DOMAIN Secret : Secret[role] = "fit"} ELSE {}

ExchangeInit ==
    /\ link = "closed" /\ identity = "none"
    /\ told = [r \in Calls |-> "unasked"]
    /\ toRelay = <<>> /\ toClient = <<>>
    /\ known = FALSE /\ inbox = "none"
    /\ step = [i \in Items |-> "unsent"] /\ code = [r \in Calls |-> "none"]
    /\ saved = {} /\ peer = "apart"
    /\ missed = {} /\ cut = FALSE /\ fit = {}

ToRelay(i) == toRelay' = Append(toRelay, i)
ToClient(m) == toClient' = IF link = "open" THEN Append(toClient, m) ELSE toClient
To(i, place) == step' = [step EXCEPT ![i] = place]
-----------------------------------------------------------------------------
(* The client *)

\* The relay sends its challenge when it accepts the socket.
Dial ==
    /\ link = "closed"
    /\ link' = "open"
    /\ toClient' = <<Challenge>>
    /\ UNCHANGED <<identity, told, toRelay, relay, peer, past>>

\* A request may be made at any time, also before NIP-42 is over; it waits
\* for its reply, not for an OK.
Request(r) ==
    /\ link = "open" /\ told[r] = "unasked" /\ Role[r] \in Advertised
    /\ told' = [told EXCEPT ![r] = "waiting"]
    /\ To(Call(r), "sent") /\ ToRelay(Call(r))
    /\ UNCHANGED <<link, identity, toClient, known, inbox, code, saved, peer, past>>

\* sendDM: the recipient's copy, and then the sender's own.
SendDM(l) ==
    /\ link = "open"
    /\ \E i \in {Mail(l), Copy(l)} :
         /\ step[i] = "unsent" /\ (i = Copy(l) => step[Mail(l)] # "unsent")
         /\ To(i, "sent") /\ ToRelay(i)
    /\ UNCHANGED <<client, toClient, known, inbox, code, saved, peer, past>>

\* onMessage; CLOSED, NOTICE, EOSE and the OK of an EVENT change nothing,
\* and a reply to a request that is not pending is none of ours.
Hear ==
    /\ link = "open" /\ toClient # <<>>
    /\ toClient' = Tail(toClient)
    /\ \/ /\ Head(toClient) = Challenge
          /\ identity' = "signed" /\ ToRelay(Login) /\ To(Login, "sent")
          /\ UNCHANGED told
       \/ /\ Head(toClient) = LetIn
          /\ identity' = "member" /\ ToRelay(Subscribe)
          /\ UNCHANGED <<told, step>>
       \/ /\ Head(toClient) = Declined
          /\ identity' = "rejected"
          /\ UNCHANGED <<told, step, toRelay>>
       \/ \E r \in Calls, c \in {"answer", "error"} :
            /\ Head(toClient) = ReplyTo(r, c)
            /\ told' = IF told[r] = "waiting" THEN [told EXCEPT ![r] = c] ELSE told
            /\ UNCHANGED <<identity, step, toRelay>>
    /\ UNCHANGED <<link, known, inbox, code, saved, peer, past>>

\* Thirty seconds.
GiveUp(r) ==
    /\ told[r] = "waiting"
    /\ told' = [told EXCEPT ![r] = "late"]
    /\ UNCHANGED <<link, identity, wires, relay, peer, past>>

\* The session is gone; its handlers go on.
Lose ==
    /\ link = "open"
    /\ link' = "lost" /\ toRelay' = <<>> /\ toClient' = <<>> /\ inbox' = "none"
    /\ UNCHANGED <<identity, told, known, step, code, saved, peer, past>>
-----------------------------------------------------------------------------
(* The relay: AUTH and REQ *)

Oldest == Head(toRelay)
Arrives(kinds) ==
    /\ link = "open" /\ toRelay # <<>> /\ Oldest.kind \in kinds
    /\ toRelay' = Tail(toRelay)

BeginAuth ==
    /\ Arrives({"auth"})
    /\ To(Login, "verify")
    /\ UNCHANGED <<client, toClient, known, inbox, code, saved, peer, past>>

\* The signature, the time, the challenge or the relay's name may be wrong.
EndAuth ==
    /\ step[Login] = "verify"
    /\ To(Login, "over")
    /\ \/ known' = TRUE /\ ToClient(LetIn)
       \/ UNCHANGED known /\ ToClient(Declined)
    /\ UNCHANGED <<client, toRelay, inbox, code, saved, peer, past>>

\* Without NIP-42 the REQ is answered CLOSED, and that is all.
BeginReq ==
    /\ Arrives({"req"})
    /\ inbox' = IF known THEN "reading" ELSE inbox
    /\ UNCHANGED <<client, toClient, known, step, code, saved, peer, past>>

\* The ways to send the replies to some requests one after another.
Batches(calls) ==
    {[k \in DOMAIN order |-> ReplyTo(order[k], code[order[k]])] :
        order \in {f \in [1..Cardinality(calls) -> calls] :
                     \A r \in calls : \E k \in DOMAIN f : f[k] = r}}

\* The stored replies; a replica may not have the last ones, and a query
\* that fails leaves the subscription as it is.
EndReq ==
    /\ inbox = "reading"
    /\ inbox' = "live"
    /\ \E got \in SUBSET {r \in Calls : Call(r) \in saved} :
         /\ cut' = (got # {r \in Calls : Call(r) \in saved})
         /\ \E batch \in Batches(got) : toClient' = toClient \o batch
    /\ UNCHANGED <<client, toRelay, known, step, code, saved, peer, missed, fit>>
-----------------------------------------------------------------------------
(* The relay: EVENT *)

\* handleEvent up to its first await.
BeginEvent ==
    /\ Arrives({"call", "mail", "copy"})
    /\ \/ known /\ To(Oldest, "verify")
       \/ To(Oldest, "refused")                     \* auth-required, or rate-limited
    /\ fit' = IF peer = "matched" THEN fit \cup ({Oldest} \cap Mails) ELSE fit
    /\ UNCHANGED <<client, toClient, known, inbox, code, saved, peer, missed, cut>>

Claimed(i) == i.kind = "call" /\ Role[i.of] \in Loaded /\ i.of \notin Garbled

\* The signature is right.  The extension claims what is addressed to a
\* service of its and can be unwrapped; the rest is a letter.
Dispatch(i) ==
    /\ step[i] = "verify" /\ i # Login
    /\ To(i, IF ~Claimed(i) THEN "policy" ELSE IF i.of \in Screened THEN "screen" ELSE "route")
    /\ UNCHANGED <<client, wires, known, inbox, code, saved, peer, past>>

\* Mutant: the rejection is not published.
ScreenSilently(r) ==
    /\ step[Call(r)] = "screen"
    /\ \/ To(Call(r), "route") /\ UNCHANGED <<code, saved>>
       \/ /\ code' = [code EXCEPT ![r] = "error"] /\ To(Call(r), "over")
          /\ saved' = saved \cup {Call(r)}
    /\ UNCHANGED <<client, wires, known, inbox, peer, past>>

\* The model blocks with confidence; or does not, or cannot be asked.
Screen(r) ==
    /\ step[Call(r)] = "screen"
    /\ \/ To(Call(r), "route") /\ UNCHANGED code
       \/ code' = [code EXCEPT ![r] = "error"] /\ To(Call(r), "reply")
    /\ UNCHANGED <<client, wires, known, inbox, saved, peer, past>>

\* routeRequest: a check fails, the service throws, or it answers.
Route(r) ==
    /\ step[Call(r)] = "route"
    /\ \E c \in IF r \in Faulty THEN {"error"} ELSE {"answer", "error"} :
         code' = [code EXCEPT ![r] = c]
    /\ To(Call(r), "reply")
    /\ UNCHANGED <<client, wires, known, inbox, saved, peer, past>>

\* sendResponse: what became of the save is not asked.
SendResponse(r) ==
    /\ step[Call(r)] = "reply"
    /\ IF r \in Bulky
       THEN To(Call(r), "over") /\ UNCHANGED saved
       ELSE To(Call(r), "publish") /\ (saved' = saved \cup {Call(r)} \/ UNCHANGED saved)
    /\ UNCHANGED <<client, wires, known, inbox, code, peer, past>>

Publish(r) ==
    /\ step[Call(r)] = "publish"
    /\ To(Call(r), "over")
    /\ IF inbox # "none"
       THEN ToClient(ReplyTo(r, code[r])) /\ UNCHANGED missed
       ELSE missed' = missed \cup {r} /\ UNCHANGED toClient
    /\ UNCHANGED <<client, toRelay, known, inbox, code, saved, peer, cut, fit>>

\* A service's pubkey is nobody's match; the sender's own copy needs none.
Welcome(i) == i.kind = "copy" \/ (i.kind = "mail" /\ peer = "matched")

\* Mutant: a policy that cannot be read lets everything pass.
PolicyOpen(i) ==
    /\ step[i] = "policy"
    /\ To(i, "store") \/ (~Welcome(i) /\ To(i, "refused"))
    /\ UNCHANGED <<client, wires, known, inbox, code, saved, peer, past>>

\* checkDirectMessagePolicy, of the primary; if it fails, the letter is refused.
Policy(i) ==
    /\ step[i] = "policy"
    /\ (Welcome(i) /\ To(i, "store")) \/ To(i, "refused")
    /\ UNCHANGED <<client, wires, known, inbox, code, saved, peer, past>>

Store(i) ==
    /\ step[i] = "store"
    /\ saved' = saved \cup {i} \/ UNCHANGED saved
    /\ To(i, "over")
    /\ UNCHANGED <<client, wires, known, inbox, code, peer, past>>

-----------------------------------------------------------------------------
\* Matches, unmatches and blocks of the two, at any time; what was matched
\* once is not again (Matching).
Turn ==
    /\ \/ peer = "apart" /\ peer' \in {"matched", "blocked"}
       \/ peer = "matched" /\ peer' \in {"parted", "blocked"}
       \/ peer = "blocked" /\ peer' = "parted"
       \/ peer = "parted" /\ peer' = "blocked"
    /\ fit' = IF peer' = "matched"
              THEN fit \cup {i \in Mails : step[i] \in {"verify", "policy", "store"}} ELSE fit
    /\ UNCHANGED <<client, wires, relay, missed, cut>>

ExchangeNext ==
    \/ Dial \/ Hear \/ Lose \/ Turn
    \/ BeginAuth \/ EndAuth \/ BeginReq \/ EndReq \/ BeginEvent
    \/ \E r \in Calls :
         Request(r) \/ GiveUp(r) \/ Screen(r) \/ Route(r) \/ SendResponse(r) \/ Publish(r)
    \/ \E l \in Letters : SendDM(l)
    \/ \E i \in Items : Dispatch(i) \/ Policy(i) \/ Store(i)

ExchangeSpec == ExchangeInit /\ [][ExchangeNext]_exchangeVars

-----------------------------------------------------------------------------
ExchangeTypeOK ==
    /\ link \in {"closed", "open", "lost"} /\ identity \in {"none", "signed", "member", "rejected"}
    /\ told \in [Calls -> {"unasked", "waiting", "answer", "error", "late"}]
    /\ toRelay \in Seq(Items \cup {Subscribe}) /\ toClient \in Seq(ToMember)
    /\ known \in BOOLEAN /\ inbox \in {"none", "reading", "live"}
    /\ step \in [Items -> {"unsent", "sent", "verify", "refused", "screen", "route", "reply",
                           "publish", "policy", "store", "over"}]
    /\ code \in [Calls -> {"none", "answer", "error"}]
    /\ saved \subseteq Items /\ peer \in {"apart", "matched", "parted", "blocked"}
    /\ missed \subseteq Calls /\ cut \in BOOLEAN /\ fit \subseteq Mails

\* Nothing is on its way to a client that is a member.
Quiet ==
    /\ link = "open" /\ identity = "member" /\ wires = <<<<>>, <<>>>> /\ inbox # "reading"
    /\ \A i \in Items : step[i] \in {"unsent", "refused", "over"}

(* When nothing is under way any more, the client has an inbox, and it     *)
(* waits in vain for a request only if the EVENT was refused, the answer   *)
(* could not be wrapped, or the answer came before the inbox and was not   *)
(* stored, or was stored and not read.  A rejection by the screening, an   *)
(* error and an answer that overtakes the inbox all reach it.              *)
ToldOrLost ==
    Quiet =>
        /\ inbox = "live"
        /\ \A r \in Calls : told[r] = "waiting" =>
             \/ step[Call(r)] = "refused"
             \/ r \in Bulky
             \/ r \in missed /\ (Call(r) \notin saved \/ cut)

(* A letter is stored only if its sender and its recipient were matched,   *)
(* and neither had blocked the other, at some time while it was handled:   *)
(* a block that was there when it arrived holds, whatever fails.           *)
MailWasWelcome == saved \cap Mails \subseteq fit
=============================================================================
