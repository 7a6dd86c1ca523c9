--------------------------- MODULE ExchangeProofs ---------------------------
(* Proofs about a client's exchange with the relay, for every set of       *)
(* requests and letters, and about the blast relay, for every number of    *)
(* relays and slots.                                                       *)
EXTENDS Exchange, Blast, FiniteSetTheorems, TLAPS

-----------------------------------------------------------------------------
(* What a sequence holds. *)

On(s, M) == \E k \in 1..Len(s) : s[k] \in M

LEMMA OnEmpty == ASSUME NEW M PROVE ~On(<<>>, M)
BY DEF On

LEMMA OnAppend ==
    ASSUME NEW S, NEW s \in Seq(S), NEW x \in S, NEW M
    PROVE  /\ Append(s, x) \in Seq(S)
           /\ On(Append(s, x), M) <=> On(s, M) \/ x \in M
<1> DEFINE t == Append(s, x)
<1>1. Len(t) = Len(s) + 1 /\ t[Len(s) + 1] = x /\ \A k \in 1..Len(s) : t[k] = s[k]
  OBVIOUS
<1>2. Len(s) \in Nat /\ t \in Seq(S)
  OBVIOUS
<1> HIDE DEF t
<1>3. On(t, M) => On(s, M) \/ x \in M
  BY <1>1, <1>2 DEF On
<1>4. On(s, M) => On(t, M)
  BY <1>1, <1>2 DEF On
<1>5. x \in M => On(t, M)
  BY <1>1, <1>2 DEF On
<1> QED
  BY <1>2, <1>3, <1>4, <1>5 DEF t

LEMMA OnTail ==
    ASSUME NEW S, NEW s \in Seq(S), s # <<>>, NEW M
    PROVE  /\ Tail(s) \in Seq(S) /\ Head(s) \in S
           /\ On(s, M) <=> Head(s) \in M \/ On(Tail(s), M)
<1> DEFINE t == Tail(s)
<1>1. Len(s) \in Nat \ {0} /\ Len(t) = Len(s) - 1 /\ \A k \in 1..Len(t) : t[k] = s[k + 1]
  OBVIOUS
<1>2. t \in Seq(S) /\ Head(s) \in S /\ Head(s) = s[1]
  OBVIOUS
<1> HIDE DEF t
<1>3. ASSUME On(s, M), s[1] \notin M PROVE On(t, M)
  <2>1. PICK k \in 1..Len(s) : s[k] \in M
    BY <1>3 DEF On
  <2>2. k - 1 \in 1..Len(t) /\ (k - 1) + 1 = k
    BY <1>1, <1>3, <2>1
  <2> QED
    BY <1>1, <2>1, <2>2 DEF On
<1>4. On(t, M) => On(s, M)
  <2> SUFFICES ASSUME NEW k \in 1..Len(t), t[k] \in M PROVE On(s, M)
    BY DEF On
  <2>1. k + 1 \in 1..Len(s)
    BY <1>1
  <2> QED
    BY <1>1, <2>1 DEF On
<1>5. s[1] \in M => On(s, M)
  BY <1>1 DEF On
<1> QED
  BY <1>2, <1>3, <1>4, <1>5 DEF t

LEMMA OnConcat ==
    ASSUME NEW S, NEW s \in Seq(S), NEW t \in Seq(S), NEW M
    PROVE  /\ s \o t \in Seq(S)
           /\ On(s \o t, M) <=> On(s, M) \/ On(t, M)
<1> DEFINE u == s \o t
<1>1. /\ Len(s) \in Nat /\ Len(t) \in Nat /\ Len(u) = Len(s) + Len(t)
      /\ \A k \in 1..Len(s) : u[k] = s[k]
      /\ \A k \in 1..Len(t) : u[Len(s) + k] = t[k]
  OBVIOUS
<1>2. u \in Seq(S)
  OBVIOUS
<1> HIDE DEF u
<1>3. ASSUME NEW k \in 1..Len(u), u[k] \in M PROVE On(s, M) \/ On(t, M)
  <2>1. CASE k <= Len(s)
    <3>1. k \in 1..Len(s)
      BY <1>1, <2>1
    <3> QED
      BY <1>1, <1>3, <3>1 DEF On
  <2>2. CASE k > Len(s)
    <3>1. k - Len(s) \in 1..Len(t) /\ Len(s) + (k - Len(s)) = k
      BY <1>1, <2>2
    <3> QED
      BY <1>1, <1>3, <3>1 DEF On
  <2> QED
    BY <1>1, <2>1, <2>2
<1>4. On(s, M) => On(u, M)
  BY <1>1 DEF On
<1>5. ASSUME NEW k \in 1..Len(t), t[k] \in M PROVE On(u, M)
  <2>1. Len(s) + k \in 1..Len(u)
    BY <1>1
  <2> QED
    BY <1>1, <1>5, <2>1 DEF On
<1>6. On(t, M) => On(u, M)
  BY <1>5 DEF On
<1>7. On(u, M) => On(s, M) \/ On(t, M)
  BY <1>3 DEF On
<1> QED
  BY <1>2, <1>4, <1>6, <1>7 DEF u

-----------------------------------------------------------------------------
(* Exchange: types *)

Steps == {"unsent", "sent", "verify", "refused", "screen", "route", "reply",
          "publish", "policy", "store", "over"}

LEMMA Kinds ==
    /\ Login \in Items /\ Login.kind = "auth" /\ Subscribe \notin Items /\ Subscribe.kind = "req"
    /\ \A r \in Calls : Call(r) \in Items /\ Call(r).kind = "call" /\ Call(r).of = r
    /\ \A i \in Mails : i \in Items /\ i.kind = "mail"
    /\ \A l \in Letters : Mail(l) \in Mails /\ Copy(l) \in Items /\ Copy(l).kind = "copy"
    /\ \A i \in Items : i = Login \/ i \in Mails \/ i.kind = "copy" \/ \E r \in Calls : i = Call(r)
<1>1. Subscribe \notin Items
  <2>1. Subscribe.kind = "req" /\ \A i \in Items : i.kind # "req"
    BY DEF Subscribe, Items, Login, Mails, Call, Mail, Copy
  <2> QED
    BY <2>1
<1>2. Login \in Items /\ Login.kind = "auth" /\ Subscribe.kind = "req"
  BY DEF Login, Subscribe, Items
<1>3. \A r \in Calls : Call(r) \in Items /\ Call(r).kind = "call" /\ Call(r).of = r
  BY DEF Call, Items
<1>4. \A i \in Mails : i \in Items /\ i.kind = "mail"
  BY DEF Mails, Mail, Items
<1>5. \A l \in Letters : Mail(l) \in Mails /\ Copy(l) \in Items /\ Copy(l).kind = "copy"
  BY DEF Mails, Copy, Items
<1>6. \A i \in Items : i = Login \/ i \in Mails \/ i.kind = "copy" \/ \E r \in Calls : i = Call(r)
  BY <1>5 DEF Items
<1> QED
  BY <1>1, <1>2, <1>3, <1>4, <1>5, <1>6

(* A request's handler and a letter's differ: only a letter, or a request  *)
(* nobody claims, comes to the policy, and no request is welcome there; a  *)
(* reply is only sent, and only stored, when there is one.                 *)
Coded ==
    \A r \in Calls :
        /\ step[Call(r)] # "store"
        /\ step[Call(r)] \in {"reply", "publish"} \/ Call(r) \in saved => code[r] \in {"answer", "error"}

Typed == ExchangeTypeOK /\ Coded

LEMMA TypedInit == ExchangeInit => Typed
<1> SUFFICES ASSUME ExchangeInit PROVE Typed
  OBVIOUS
<1> USE DEF ExchangeInit
<1>1. toRelay \in Seq(Items \cup {Subscribe}) /\ toClient \in Seq(ToMember)
  OBVIOUS
<1>2. Coded
  BY Kinds DEF Coded
<1> QED
  BY <1>1, <1>2 DEF Typed, ExchangeTypeOK

LEMMA TypedHear == Typed /\ Hear => Typed'
<1> SUFFICES ASSUME Typed, Hear PROVE Typed'
  OBVIOUS
<1> USE DEF Typed, ExchangeTypeOK
<1>1. toClient' \in Seq(ToMember)
  BY OnTail DEF Hear
<1>2. Login \in Items \cup {Subscribe} /\ Subscribe \in Items \cup {Subscribe} /\ Login \in Items
  BY Kinds
<1>3. UNCHANGED <<link, known, inbox, code, saved, peer, missed, cut, fit>>
  BY DEF Hear, past
<1>4. CASE UNCHANGED <<told, step>> /\ identity' = "member" /\ ToRelay(Subscribe)
  <2>1. toRelay' \in Seq(Items \cup {Subscribe})
    BY <1>2, <1>4, OnAppend DEF ToRelay
  <2> QED
    BY <1>1, <1>3, <1>4, <2>1 DEF Coded
<1>5. CASE UNCHANGED told /\ identity' = "signed" /\ ToRelay(Login) /\ To(Login, "sent")
  <2>1. toRelay' \in Seq(Items \cup {Subscribe})
    BY <1>2, <1>5, OnAppend DEF ToRelay
  <2>2. \A r \in Calls : Call(r) # Login /\ Call(r) \in Items
    BY Kinds
  <2>3. Coded'
    BY <1>2, <1>3, <1>5, <2>2 DEF To, Coded
  <2> QED
    BY <1>1, <1>2, <1>3, <1>5, <2>1, <2>3 DEF To
<1>6. CASE identity' = "rejected" /\ UNCHANGED <<told, step, toRelay>>
  BY <1>1, <1>3, <1>6 DEF Coded
<1>7. ASSUME NEW r \in Calls, NEW c \in {"answer", "error"},
             told' = IF told[r] = "waiting" THEN [told EXCEPT ![r] = c] ELSE told,
             UNCHANGED <<identity, step, toRelay>>
      PROVE  Typed'
  BY <1>1, <1>3, <1>7 DEF Coded
<1> QED
  BY <1>4, <1>5, <1>6, <1>7 DEF Hear

(* What may be at the head of the wire to the relay. *)
LEMMA Arriving ==
    ASSUME Typed, NEW K, Arrives(K)
    PROVE  /\ toRelay' \in Seq(Items \cup {Subscribe})
           /\ Oldest \in Items \cup {Subscribe} /\ Oldest.kind \in K
           /\ toRelay' = Tail(toRelay) /\ toRelay # <<>> /\ link = "open"
BY OnTail DEF Arrives, Oldest, Typed, ExchangeTypeOK

LEMMA TypedStep == Typed /\ [ExchangeNext]_exchangeVars => Typed'
<1> SUFFICES ASSUME Typed, [ExchangeNext]_exchangeVars PROVE Typed'
  OBVIOUS
<1> USE DEF Typed, ExchangeTypeOK
<1>c. Challenge \in ToMember /\ LetIn \in ToMember /\ Declined \in ToMember
      /\ \A r \in Calls, c \in {"answer", "error"} : ReplyTo(r, c) \in ToMember
  BY DEF ToMember
<1>1. CASE Dial
  BY <1>1, <1>c DEF Dial, relay, past, Coded
<1>2. CASE Hear
  BY <1>2, TypedHear
<1>3. CASE Lose
  BY <1>3 DEF Lose, past, Coded
<1>4. CASE Turn
  BY <1>4 DEF Turn, client, wires, relay, Coded
<1>5. CASE BeginAuth
  <2>1. toRelay' \in Seq(Items \cup {Subscribe})
    BY <1>5, Arriving DEF BeginAuth
  <2> QED
    BY <1>5, <2>1, Kinds DEF BeginAuth, To, client, past, Coded
<1>6. CASE EndAuth
  <2>1. toClient' \in {Append(toClient, LetIn), Append(toClient, Declined), toClient}
    BY <1>6 DEF EndAuth, ToClient
  <2>2. Append(toClient, LetIn) \in Seq(ToMember) /\ Append(toClient, Declined) \in Seq(ToMember)
    BY <1>c, OnAppend
  <2>3. known' \in BOOLEAN
    BY <1>6 DEF EndAuth
  <2>4. toClient' \in Seq(ToMember)
    BY <1>c, <2>1, <2>2
  <2>5. UNCHANGED <<client, toRelay, inbox, code, saved, peer, past>>
    BY <1>6 DEF EndAuth
  <2>6. step' = [step EXCEPT ![Login] = "over"]
    BY <1>6 DEF EndAuth, To
  <2>7. Coded'
    BY <2>5, <2>6, Kinds DEF Coded
  <2> QED
    BY <2>3, <2>4, <2>5, <2>6, <2>7 DEF client, past
<1>7. CASE BeginReq
  <2>1. toRelay' \in Seq(Items \cup {Subscribe})
    BY <1>7, Arriving DEF BeginReq
  <2> QED
    BY <1>7, <2>1 DEF BeginReq, client, past, Coded
<1>8. CASE EndReq
  <2>1. PICK got \in SUBSET {r \in Calls : Call(r) \in saved} :
            /\ cut' = (got # {r \in Calls : Call(r) \in saved})
            /\ \E batch \in Batches(got) : toClient' = toClient \o batch
    BY <1>8 DEF EndReq
  <2>2. PICK batch \in Batches(got) : toClient' = toClient \o batch
    BY <2>1
  <2>3. batch \in Seq(ToMember)
    <3>1. PICK order \in [1..Cardinality(got) -> got] :
              batch = [k \in DOMAIN order |-> ReplyTo(order[k], code[order[k]])]
      BY DEF Batches
    <3>2. \A k \in DOMAIN order : ReplyTo(order[k], code[order[k]]) \in ToMember
      BY <1>c DEF Coded
    <3>3. Cardinality(got) \in Nat
      BY FS_CardinalityType, FS_Subset, ExchangeData
    <3> QED
      BY <3>1, <3>2, <3>3
  <2>4. toClient' \in Seq(ToMember)
    BY <2>2, <2>3, OnConcat
  <2> QED
    BY <1>8, <2>1, <2>4 DEF EndReq, client, Coded
<1>9. CASE BeginEvent
  <2>1. toRelay' \in Seq(Items \cup {Subscribe}) /\ Oldest \in Items
    <3>1. Arrives({"call", "mail", "copy"})
      BY <1>9 DEF BeginEvent
    <3>2. Oldest \in Items \cup {Subscribe} /\ Oldest.kind \in {"call", "mail", "copy"}
      BY <3>1, Arriving
    <3> QED
      BY <3>1, <3>2, Arriving, Kinds
  <2>2. UNCHANGED <<link, identity, told, toClient, known, inbox, code, saved, peer, missed, cut>>
    BY <1>9 DEF BeginEvent, client
  <2>3. fit' \subseteq Mails
    BY <1>9 DEF BeginEvent
  <2>4. PICK x \in {"verify", "refused"} : step' = [step EXCEPT ![Oldest] = x]
    BY <1>9 DEF BeginEvent, To
  <2>5. Coded'
    BY <2>1, <2>2, <2>4, Kinds DEF Coded
  <2> QED
    BY <2>1, <2>2, <2>3, <2>4, <2>5
<1>10. ASSUME NEW r \in Calls, Request(r) PROVE Typed'
  <2>1. toRelay' \in Seq(Items \cup {Subscribe})
    BY <1>10, OnAppend, Kinds DEF Request, ToRelay
  <2> QED
    BY <1>10, <2>1, Kinds DEF Request, To, past, Coded
<1>11. ASSUME NEW r \in Calls, GiveUp(r) PROVE Typed'
  BY <1>11 DEF GiveUp, wires, relay, past, Coded
<1>12. ASSUME NEW r \in Calls, Screen(r) PROVE Typed'
  <2>1. CASE To(Call(r), "route") /\ UNCHANGED code
    BY <1>12, <2>1, Kinds DEF Screen, To, client, wires, past, Coded
  <2>2. CASE code' = [code EXCEPT ![r] = "error"] /\ To(Call(r), "reply")
    BY <1>12, <2>2, Kinds DEF Screen, To, client, wires, past, Coded
  <2> QED
    BY <1>12, <2>1, <2>2 DEF Screen
<1>13. ASSUME NEW r \in Calls, Route(r) PROVE Typed'
  <2>1. PICK c \in {"answer", "error"} : code' = [code EXCEPT ![r] = c]
    BY <1>13 DEF Route
  <2> QED
    BY <1>13, <2>1, Kinds DEF Route, To, client, wires, past, Coded
<1>14. ASSUME NEW r \in Calls, SendResponse(r) PROVE Typed'
  <2>1. step[Call(r)] = "reply" /\ code[r] \in {"answer", "error"} /\ saved' \in {saved, saved \cup {Call(r)}}
    BY <1>14 DEF SendResponse, Coded
  <2>2. Coded'
    BY <1>14, <2>1, Kinds DEF SendResponse, To, Coded
  <2> QED
    BY <1>14, <2>1, <2>2, Kinds DEF SendResponse, To, client, wires, past
<1>15. ASSUME NEW r \in Calls, Publish(r) PROVE Typed'
  <2>1. toClient' \in Seq(ToMember)
    BY <1>15, <1>c, OnAppend DEF Publish, ToClient, Coded
  <2> QED
    BY <1>15, <2>1, Kinds DEF Publish, To, client, past, Coded
<1>16. ASSUME NEW l \in Letters, SendDM(l) PROVE Typed'
  <2>1. PICK i \in {Mail(l), Copy(l)} : To(i, "sent") /\ ToRelay(i)
    BY <1>16 DEF SendDM
  <2>2. i \in Items /\ \A r \in Calls : i # Call(r)
    BY Kinds
  <2>3. toRelay' \in Seq(Items \cup {Subscribe})
    BY <2>1, <2>2, OnAppend DEF ToRelay
  <2>4. UNCHANGED <<link, identity, told, toClient, known, inbox, code, saved, peer, missed, cut, fit>>
    BY <1>16 DEF SendDM, client, past
  <2> QED
    BY <2>1, <2>2, <2>3, <2>4, Kinds DEF To, Coded
<1>17. ASSUME NEW i \in Items, Dispatch(i) \/ Policy(i) PROVE Typed'
  <2>1. PICK x \in {"policy", "screen", "route", "store", "refused"} :
            step' = [step EXCEPT ![i] = x] /\ (x = "store" => Welcome(i))
    BY <1>17 DEF Dispatch, Policy, To
  <2>2. UNCHANGED <<link, identity, told, toRelay, toClient, known, inbox, code, saved, peer, missed, cut, fit>>
    BY <1>17 DEF Dispatch, Policy, client, wires, past
  <2>3. x = "store" => \A r \in Calls : i # Call(r)
    BY <2>1, Kinds DEF Welcome
  <2> QED
    BY <2>1, <2>2, <2>3, Kinds DEF Coded
<1>18. ASSUME NEW i \in Items, Store(i) PROVE Typed'
  <2>1. \A r \in Calls : i # Call(r)
    BY <1>18 DEF Store, Coded
  <2> QED
    BY <1>18, <2>1, Kinds DEF Store, To, client, wires, past, Coded
<1>19. CASE UNCHANGED exchangeVars
  BY <1>19 DEF exchangeVars, client, wires, relay, past, Coded
<1> QED
  BY <1>1, <1>2, <1>3, <1>4, <1>5, <1>6, <1>7, <1>8, <1>9, <1>10, <1>11, <1>12,
     <1>13, <1>14, <1>15, <1>16, <1>17, <1>18, <1>19 DEF ExchangeNext

(* The exchange keeps to its types, and no reply is sent that is none.     *)
THEOREM ExchangeTypes == ExchangeSpec => [](ExchangeTypeOK /\ Coded)
<1>1. ExchangeSpec => []Typed
  BY TypedInit, TypedStep, PTL DEF ExchangeSpec
<1>2. Typed => ExchangeTypeOK /\ Coded
  BY DEF Typed
<1> QED
  BY <1>1, <1>2, PTL

-----------------------------------------------------------------------------
(* Exchange: the policy for letters *)

(* What is to be stored, or is under way while the two are matched, has    *)
(* been seen to be between matched members.                                *)
Greeted ==
    /\ MailWasWelcome
    /\ \A i \in Mails : step[i] = "store" => i \in fit
    /\ \A i \in Mails : peer = "matched" /\ step[i] \in {"verify", "policy"} => i \in fit

LEMMA GreetedStep == Typed /\ Greeted /\ [ExchangeNext]_exchangeVars => Greeted'
<1> SUFFICES ASSUME Typed, Greeted, [ExchangeNext]_exchangeVars PROVE Greeted'
  OBVIOUS
<1> USE DEF Typed, ExchangeTypeOK, Greeted, MailWasWelcome
<1> DEFINE Other == Items \ Mails
<1>0. Login \in Other /\ (\A r \in Calls : Call(r) \in Other) /\ (\A l \in Letters : Copy(l) \in Items)
  BY Kinds
<1>1. ASSUME UNCHANGED <<saved, peer, fit>>,
             \/ UNCHANGED step
             \/ \E i \in Items, x \in Steps : step' = [step EXCEPT ![i] = x]
                     /\ (i \in Mails => x \notin {"store", "verify", "policy"} \/ (x = "policy" /\ step[i] = "verify"))
      PROVE  Greeted'
  BY <1>1, Kinds
<1>2. CASE Dial
  BY <1>1, <1>2 DEF Dial, relay, past
<1>3. CASE Hear
  <2>1. step' = step \/ step' = [step EXCEPT ![Login] = "sent"]
    BY <1>3 DEF Hear, To
  <2>2. "sent" \in Steps
    BY DEF Steps
  <2> QED
    BY <1>0, <1>1, <1>3, <2>1, <2>2 DEF Hear, past
<1>4. CASE Lose
  BY <1>1, <1>4 DEF Lose, past
<1>5. CASE Turn
  <2>1. UNCHANGED <<step, saved>>
    BY <1>5 DEF Turn, relay
  <2>2. CASE peer' = "matched"
    <3>1. fit' = fit \cup {i \in Mails : step[i] \in {"verify", "policy", "store"}}
      BY <1>5, <2>2 DEF Turn
    <3> QED
      BY <2>1, <3>1
  <2>3. CASE peer' # "matched"
    <3>1. fit' = fit
      BY <1>5, <2>3 DEF Turn
    <3> QED
      BY <2>1, <2>3, <3>1
  <2> QED
    BY <2>2, <2>3
<1>6. CASE BeginAuth \/ EndAuth \/ BeginReq \/ EndReq
  <2>1. step' = step \/ \E x \in {"verify", "over"} : step' = [step EXCEPT ![Login] = x]
    BY <1>6 DEF BeginAuth, EndAuth, BeginReq, EndReq, To
  <2>2. UNCHANGED <<saved, peer, fit>>
    BY <1>6 DEF BeginAuth, EndAuth, BeginReq, EndReq, past
  <2>3. {"verify", "over"} \subseteq Steps
    BY DEF Steps
  <2> QED
    BY <1>0, <1>1, <2>1, <2>2, <2>3
<1>7. CASE BeginEvent
  <2>1. PICK x \in {"verify", "refused"} : step' = [step EXCEPT ![Oldest] = x]
    BY <1>7 DEF BeginEvent, To
  <2>2. UNCHANGED <<saved, peer>> /\ fit \subseteq fit'
    BY <1>7 DEF BeginEvent
  <2>3. peer = "matched" /\ Oldest \in Mails => Oldest \in fit'
    BY <1>7 DEF BeginEvent
  <2> QED
    BY <2>1, <2>2, <2>3, Kinds
<1>8. ASSUME NEW r \in Calls, Request(r) \/ GiveUp(r) \/ Screen(r) \/ Route(r) \/ Publish(r)
      PROVE  Greeted'
  <2>1. step' = step \/ \E x \in {"sent", "route", "reply", "over"} : step' = [step EXCEPT ![Call(r)] = x]
    BY <1>8 DEF Request, GiveUp, Screen, Route, Publish, To, relay
  <2>2. UNCHANGED <<saved, peer, fit>>
    BY <1>8 DEF Request, GiveUp, Screen, Route, Publish, past, relay
  <2>3. {"sent", "route", "reply", "over"} \subseteq Steps
    BY DEF Steps
  <2> QED
    BY <1>0, <1>1, <2>1, <2>2, <2>3
<1>9. ASSUME NEW r \in Calls, SendResponse(r) PROVE Greeted'
  <2>1. PICK x \in {"over", "publish"} : step' = [step EXCEPT ![Call(r)] = x]
    BY <1>9 DEF SendResponse, To
  <2>2. saved' \in {saved, saved \cup {Call(r)}} /\ UNCHANGED <<peer, fit>>
    BY <1>9 DEF SendResponse, past
  <2> QED
    BY <1>0, <2>1, <2>2, Kinds
<1>10. ASSUME NEW l \in Letters, SendDM(l) PROVE Greeted'
  <2>1. PICK i \in {Mail(l), Copy(l)} : step' = [step EXCEPT ![i] = "sent"]
    BY <1>10 DEF SendDM, To
  <2>2. i \in Items /\ "sent" \in Steps
    BY Kinds DEF Steps
  <2> QED
    BY <1>1, <1>10, <2>1, <2>2 DEF SendDM, past
<1>11. ASSUME NEW i \in Items, Dispatch(i) PROVE Greeted'
  <2>1. step[i] = "verify"
    BY <1>11 DEF Dispatch
  <2>2. PICK x \in {"policy", "screen", "route"} : step' = [step EXCEPT ![i] = x]
    BY <1>11 DEF Dispatch, To
  <2>3. {"policy", "screen", "route"} \subseteq Steps
    BY DEF Steps
  <2> QED
    BY <1>1, <1>11, <2>1, <2>2, <2>3 DEF Dispatch, past
<1>12. ASSUME NEW i \in Items, Policy(i) PROVE Greeted'
  <2>1. step[i] = "policy"
    BY <1>12 DEF Policy
  <2>2. PICK x \in {"store", "refused"} :
            step' = [step EXCEPT ![i] = x] /\ (x = "store" => Welcome(i))
    BY <1>12 DEF Policy, To
  <2>3. x = "store" /\ i \in Mails => i \in fit
    BY <2>1, <2>2, Kinds DEF Welcome
  <2>4. UNCHANGED <<saved, peer, fit>>
    BY <1>12 DEF Policy, past
  <2> QED
    BY <2>2, <2>3, <2>4, Kinds
<1>13. ASSUME NEW i \in Items, Store(i) PROVE Greeted'
  <2>1. step[i] = "store" /\ step' = [step EXCEPT ![i] = "over"]
    BY <1>13 DEF Store, To
  <2>2. saved' \in {saved, saved \cup {i}} /\ UNCHANGED <<peer, fit>>
    BY <1>13 DEF Store, past
  <2> QED
    BY <2>1, <2>2, Kinds
<1>14. CASE UNCHANGED exchangeVars
  BY <1>14 DEF exchangeVars, relay, past
<1> QED
  BY <1>2, <1>3, <1>4, <1>5, <1>6, <1>7, <1>8, <1>9, <1>10, <1>11, <1>12, <1>13, <1>14
  DEF ExchangeNext

(* A letter that is stored was handled while its sender and its recipient  *)
(* were matched.                                                           *)
THEOREM StoredMailWasWelcome == ExchangeSpec => []MailWasWelcome
<1>1. ExchangeInit => Greeted
  BY Kinds DEF ExchangeInit, Greeted, MailWasWelcome
<1>2. Greeted => MailWasWelcome
  BY DEF Greeted
<1>3. ExchangeSpec => []Typed
  BY TypedInit, TypedStep, PTL DEF ExchangeSpec
<1> QED
  BY <1>1, <1>2, <1>3, GreetedStep, PTL DEF ExchangeSpec
-----------------------------------------------------------------------------
(* Exchange: an answer comes, or is lost in one of the known ways *)

Subscribing == On(toRelay, {Subscribe})
Accepting == On(toClient, {LetIn})
Replying(r) == On(toClient, {ReplyTo(r, "answer"), ReplyTo(r, "error")})

Excused(r) ==
    r \in Bulky \/ Replying(r) \/ (r \in missed /\ (inbox # "live" \/ Call(r) \notin saved \/ cut))

(* The client subscribes only when the session is known, and a member      *)
(* always does; a request that was handled is excused: its reply is on its *)
(* way, or is lost.                                                        *)
Cared ==
    /\ link = "closed" => identity = "none" /\ \A r \in Calls : told[r] # "waiting"
    /\ identity = "member" \/ Accepting \/ Subscribing \/ inbox # "none" => known
    /\ link = "open" /\ identity = "member" => Subscribing \/ inbox # "none"
    /\ \A r \in Calls : told[r] = "waiting" =>
         step[Call(r)] # "unsent" /\ (link = "open" /\ step[Call(r)] = "over" => Excused(r))

LEMMA Distinct ==
    /\ Challenge # LetIn /\ Declined # LetIn
    /\ \A r \in Calls, c \in {"answer", "error"} : ReplyTo(r, c) \notin {Challenge, LetIn, Declined}
    /\ \A r, q \in Calls, c \in {"answer", "error"} :
         ReplyTo(r, c) \in {ReplyTo(q, "answer"), ReplyTo(q, "error")} <=> r = q
<1>1. Challenge.kind = "challenge" /\ LetIn.kind = "ok" /\ Declined.kind = "no"
  BY DEF Challenge, LetIn, Declined
<1>2. \A r, c : ReplyTo(r, c).kind = "reply" /\ ReplyTo(r, c).of = r
  BY DEF ReplyTo
<1>3. \A r, q \in Calls, c \in {"answer", "error"} :
         ReplyTo(r, c) \in {ReplyTo(q, "answer"), ReplyTo(q, "error")} <=> r = q
  BY <1>2
<1>4. \A r \in Calls, c \in {"answer", "error"} : ReplyTo(r, c) \notin {Challenge, LetIn, Declined}
  BY <1>1, <1>2
<1> QED
  BY <1>1, <1>3, <1>4

(* A step that leaves the connection and the inbox as they are is good if  *)
(* each request it touches is still handled, or is excused.                *)
LEMMA SameLink ==
    ASSUME Cared, UNCHANGED <<link, identity, known, inbox>>, Subscribing' <=> Subscribing,
           Accepting' => Accepting, link = "closed" => \A r \in Calls : told'[r] # "waiting",
           \A r \in Calls : told'[r] = "waiting" =>
             \/ told[r] = "waiting" /\ step'[Call(r)] = step[Call(r)] /\ (Excused(r) => Excused(r)')
             \/ step'[Call(r)] \notin {"unsent", "over"}
             \/ step'[Call(r)] = "over" /\ (link = "open" => Excused(r)')
    PROVE  Cared'
BY DEF Cared

(* What leaves the wires, and what became of the replies, as they are.     *)
LEMMA SameExcuse ==
    ASSUME NEW r \in Calls, UNCHANGED <<toClient, missed, inbox, cut>>,
           Call(r) \in saved' => Call(r) \in saved
    PROVE  Excused(r) => Excused(r)'
BY DEF Excused, Replying, On

LEMMA CaredHear == Typed /\ Cared /\ Hear => Cared'
<1> SUFFICES ASSUME Typed, Cared, Hear PROVE Cared'
  OBVIOUS
<1> USE DEF Typed, ExchangeTypeOK
<1> DEFINE m == Head(toClient)
<1>1. link = "open" /\ toClient # <<>> /\ toClient' = Tail(toClient)
      /\ UNCHANGED <<link, known, inbox, saved, missed, cut>>
  BY DEF Hear, past
<1>2. \A M : On(toClient, M) <=> m \in M \/ On(toClient', M)
  BY <1>1, OnTail
<1> HIDE DEF m
<1>3. Accepting' => Accepting
  BY <1>2 DEF Accepting
<1>4. \A r \in Calls : m \notin {ReplyTo(r, "answer"), ReplyTo(r, "error")} => (Excused(r) => Excused(r)')
  <2> SUFFICES ASSUME NEW r \in Calls, m \notin {ReplyTo(r, "answer"), ReplyTo(r, "error")}, Excused(r)
               PROVE  Excused(r)'
    OBVIOUS
  <2>1. Replying(r) => Replying(r)'
    BY <1>2 DEF Replying
  <2> QED
    BY <1>1, <2>1 DEF Excused
<1>5. Login \in Items /\ Subscribe \notin Items /\ \A r \in Calls : Call(r) \in Items /\ Call(r) # Login
  BY Kinds
<1>6. CASE /\ m = Challenge /\ identity' = "signed" /\ ToRelay(Login) /\ To(Login, "sent") /\ UNCHANGED told
  <2>1. Subscribing' <=> Subscribing
    BY <1>5, <1>6, OnAppend DEF ToRelay, Subscribing
  <2>2. \A r \in Calls : step'[Call(r)] = step[Call(r)] /\ (Excused(r) => Excused(r)')
    BY <1>4, <1>5, <1>6, Distinct DEF To
  <2> QED
    BY <1>1, <1>3, <1>6, <2>1, <2>2 DEF Cared
<1>7. CASE m = LetIn /\ identity' = "member" /\ ToRelay(Subscribe) /\ UNCHANGED <<told, step>>
  <2>1. Subscribing' /\ known
    <3>1. Subscribing'
      BY <1>7, OnAppend DEF ToRelay, Subscribing
    <3>2. Accepting
      BY <1>2, <1>7 DEF Accepting
    <3> QED
      BY <3>1, <3>2 DEF Cared
  <2>2. \A r \in Calls : Excused(r) => Excused(r)'
    BY <1>4, <1>7, Distinct
  <2> QED
    BY <1>1, <1>7, <2>1, <2>2 DEF Cared
<1>8. CASE m = Declined /\ identity' = "rejected" /\ UNCHANGED <<told, step, toRelay>>
  <2>1. \A r \in Calls : Excused(r) => Excused(r)'
    BY <1>4, <1>8, Distinct
  <2> QED
    BY <1>1, <1>3, <1>8, <2>1 DEF Cared, Subscribing
<1>9. ASSUME NEW q \in Calls, NEW c \in {"answer", "error"}, m = ReplyTo(q, c),
             told' = IF told[q] = "waiting" THEN [told EXCEPT ![q] = c] ELSE told,
             UNCHANGED <<identity, step, toRelay>>
      PROVE  Cared'
  <2>1. \A r \in Calls : told'[r] = "waiting" => told[r] = "waiting" /\ (Excused(r) => Excused(r)')
    BY <1>4, <1>9, Distinct
  <2>2. UNCHANGED <<link, identity, known, inbox>> /\ (Subscribing' <=> Subscribing)
    BY <1>1, <1>9 DEF Subscribing
  <2>3. link # "closed"
    BY <1>1
  <2> QED
    BY <1>3, <1>9, <2>1, <2>2, <2>3, SameLink
<1> QED
  BY <1>6, <1>7, <1>8, <1>9 DEF Hear, m

LEMMA CaredWire ==
    ASSUME Typed, Cared, BeginAuth \/ EndAuth \/ BeginReq \/ EndReq \/ BeginEvent
    PROVE  Cared'
<1> USE DEF Typed, ExchangeTypeOK
<1>0. /\ Login \in Items /\ Subscribe \notin Items
      /\ \A r \in Calls : Call(r) \in Items /\ Call(r) # Login
  BY Kinds
<1>1. CASE BeginAuth
  <2>1. Arrives({"auth"})
    BY <1>1 DEF BeginAuth
  <2>2. Oldest.kind = "auth" /\ toRelay' = Tail(toRelay) /\ toRelay # <<>> /\ link = "open"
    BY <2>1 DEF Arrives
  <2>3. Subscribing' <=> Subscribing
    BY <2>2, OnTail, Kinds DEF Subscribing, Oldest
  <2>4. UNCHANGED <<link, identity, told, toClient, known, inbox, saved, missed, cut>>
        /\ \A r \in Calls : step'[Call(r)] = step[Call(r)]
    BY <1>0, <1>1 DEF BeginAuth, To, client, past
  <2>5. Accepting' <=> Accepting
    BY <2>4 DEF Accepting
  <2>6. \A r \in Calls : Excused(r) => Excused(r)'
    BY <2>4, SameExcuse
  <2> QED
    BY <2>2, <2>3, <2>4, <2>5, <2>6, SameLink
<1>2. CASE EndAuth
  <2>1. /\ UNCHANGED <<link, identity, told, toRelay, inbox, saved, missed, cut>>
        /\ \A r \in Calls : step'[Call(r)] = step[Call(r)]
    BY <1>0, <1>2 DEF EndAuth, To, client, past
  <2>2. \A r \in Calls : Excused(r) => Excused(r)'
    <3> SUFFICES ASSUME NEW r \in Calls PROVE Replying(r) => Replying(r)'
      BY <2>1 DEF Excused
    <3>1. toClient' \in {toClient, Append(toClient, LetIn), Append(toClient, Declined)}
      BY <1>2 DEF EndAuth, ToClient
    <3>2. LetIn \in ToMember /\ Declined \in ToMember
      BY DEF ToMember
    <3>3. CASE toClient' = toClient
      BY <3>3 DEF Replying
    <3>4. CASE toClient' = Append(toClient, LetIn)
      BY <3>2, <3>4, OnAppend DEF Replying
    <3>5. CASE toClient' = Append(toClient, Declined)
      BY <3>2, <3>5, OnAppend DEF Replying
    <3> QED
      BY <3>1, <3>3, <3>4, <3>5
  <2>3. Subscribing' <=> Subscribing
    BY <2>1 DEF Subscribing
  <2>4. CASE known' = TRUE
    BY <2>1, <2>2, <2>3, <2>4 DEF Cared
  <2>5. CASE UNCHANGED known /\ ToClient(Declined)
    <3>1. Declined \in ToMember /\ Declined # LetIn
      BY Distinct DEF ToMember
    <3>2. Accepting' => Accepting
      BY <2>5, <3>1, OnAppend DEF ToClient, Accepting
    <3> QED
      BY <2>1, <2>2, <2>3, <2>5, <3>2 DEF Cared
  <2> QED
    BY <1>2, <2>4, <2>5 DEF EndAuth
<1>3. CASE BeginReq
  <2>1. Arrives({"req"})
    BY <1>3 DEF BeginReq
  <2>2. Oldest.kind = "req" /\ toRelay' = Tail(toRelay) /\ toRelay # <<>> /\ link = "open"
        /\ Oldest \in Items \cup {Subscribe}
    BY <2>1, Arriving DEF Arrives
  <2>3. Oldest = Subscribe
    BY <2>2, Kinds DEF Login
  <2>4. Subscribing
    BY <2>2, <2>3, OnTail DEF Subscribing, Oldest
  <2>5. known /\ inbox' = "reading" /\ UNCHANGED <<link, identity, told, toClient, known, step, saved, missed, cut>>
    BY <1>3, <2>4 DEF Cared, BeginReq, client, past
  <2>6. \A r \in Calls : Excused(r) => Excused(r)'
    BY <2>5 DEF Excused, Replying, On
  <2> QED
    BY <2>2, <2>5, <2>6 DEF Cared
<1>4. CASE EndReq
  <2>1. PICK got \in SUBSET {r \in Calls : Call(r) \in saved} :
            /\ cut' = (got # {r \in Calls : Call(r) \in saved})
            /\ \E batch \in Batches(got) : toClient' = toClient \o batch
    BY <1>4 DEF EndReq
  <2>2. PICK batch \in Batches(got) : toClient' = toClient \o batch
    BY <2>1
  <2>3. PICK order \in [1..Cardinality(got) -> got] :
            /\ batch = [k \in DOMAIN order |-> ReplyTo(order[k], code[order[k]])]
            /\ \A r \in got : \E k \in DOMAIN order : order[k] = r
    BY DEF Batches
  <2>4. Cardinality(got) \in Nat
    BY FS_CardinalityType, FS_Subset, ExchangeData
  <2>5. \A r \in got : code[r] \in {"answer", "error"} /\ r \in Calls
    BY DEF Coded
  <2>6. batch \in Seq(ToMember) /\ DOMAIN batch = 1..Len(batch)
        /\ \A k \in 1..Len(batch) : k \in DOMAIN order /\ batch[k] = ReplyTo(order[k], code[order[k]])
    <3>1. \A k \in DOMAIN order : ReplyTo(order[k], code[order[k]]) \in ToMember
      BY <2>5 DEF ToMember
    <3> QED
      BY <2>3, <2>4, <3>1
  <2>7. Accepting' => Accepting
    <3>1. ~On(batch, {LetIn})
      BY <2>5, <2>6, Distinct DEF On
    <3> QED
      BY <2>2, <2>6, <3>1, OnConcat DEF Accepting
  <2>8. UNCHANGED <<link, identity, told, toRelay, known, step, saved, missed>> /\ inbox = "reading" /\ inbox' = "live"
    BY <1>4 DEF EndReq, client
  <2>9. \A r \in Calls : Excused(r) => Excused(r)'
    <3> SUFFICES ASSUME NEW r \in Calls, Excused(r) PROVE Excused(r)'
      OBVIOUS
    <3>1. Replying(r) \/ On(batch, {ReplyTo(r, "answer"), ReplyTo(r, "error")}) => Replying(r)'
      BY <2>2, <2>6, OnConcat DEF Replying
    <3>2. CASE r \in got
      <4>1. PICK k \in DOMAIN order : order[k] = r
        BY <2>3, <3>2
      <4>2. k \in 1..Len(batch) /\ batch[k] = ReplyTo(r, code[r])
        BY <2>3, <2>4, <2>6, <4>1
      <4>3. ReplyTo(r, code[r]) \in {ReplyTo(r, "answer"), ReplyTo(r, "error")}
        BY <2>5, <3>2
      <4> QED
        BY <3>1, <4>2, <4>3 DEF Excused, On
    <3>3. CASE r \notin got
      <4>1. Call(r) \notin saved \/ cut'
        BY <2>1, <3>3
      <4> QED
        BY <2>8, <3>1, <4>1 DEF Excused
    <3> QED
      BY <3>2, <3>3
  <2> QED
    BY <2>7, <2>8, <2>9 DEF Cared, Subscribing
<1>5. CASE BeginEvent
  <2>1. Arrives({"call", "mail", "copy"})
    BY <1>5 DEF BeginEvent
  <2>2. Oldest.kind # "req" /\ toRelay' = Tail(toRelay) /\ toRelay # <<>> /\ link = "open"
        /\ Oldest \in Items \cup {Subscribe}
    BY <2>1, Arriving DEF Arrives
  <2>3. Oldest \in Items /\ Oldest # Subscribe
    BY <2>2, Kinds
  <2>4. Subscribing' <=> Subscribing
    BY <2>2, <2>3, OnTail DEF Subscribing, Oldest
  <2>5. PICK x \in {"verify", "refused"} : step' = [step EXCEPT ![Oldest] = x]
    BY <1>5 DEF BeginEvent, To
  <2>6. UNCHANGED <<link, identity, told, toClient, known, inbox, saved, missed, cut>>
    BY <1>5 DEF BeginEvent, client
  <2>7. \A r \in Calls : Excused(r) => Excused(r)'
    BY <2>6, SameExcuse
  <2>8. Accepting' <=> Accepting
    BY <2>6 DEF Accepting
  <2>9. \A r \in Calls : step'[Call(r)] = step[Call(r)] \/ step'[Call(r)] \in {"verify", "refused"}
    BY <1>0, <2>3, <2>5
  <2> QED
    BY <2>2, <2>4, <2>6, <2>7, <2>8, <2>9, SameLink
<1> QED
  BY <1>1, <1>2, <1>3, <1>4, <1>5

LEMMA CaredStep == Typed /\ Cared /\ [ExchangeNext]_exchangeVars => Cared'
<1> SUFFICES ASSUME Typed, Cared, [ExchangeNext]_exchangeVars PROVE Cared'
  OBVIOUS
<1> USE DEF Typed, ExchangeTypeOK
<1>0. /\ Subscribe \notin Items /\ \A r \in Calls : Call(r) \in Items
      /\ \A r, q \in Calls : Call(r) = Call(q) => r = q
      /\ \A l \in Letters : /\ Mail(l) \in Items /\ Copy(l) \in Items
                            /\ \A r \in Calls : Call(r) \notin {Mail(l), Copy(l)}
  BY Kinds
(* Handlers that only move a message on. *)
<1>1. ASSUME NEW i \in Items, NEW x \in Steps \ {"unsent"}, step' = [step EXCEPT ![i] = x],
             x = "over" => \A r \in Calls : i # Call(r) \/ r \in Bulky,
             UNCHANGED <<client, wires, known, inbox, missed, cut>>,
             \A r \in Calls : Call(r) \in saved' => Call(r) \in saved \/ i = Call(r)
      PROVE  Cared'
  <2>1. \A r \in Calls : i # Call(r) => (Excused(r) => Excused(r)')
    BY <1>1, SameExcuse DEF wires
  <2>2. \A r \in Calls : r \in Bulky => Excused(r)'
    BY DEF Excused
  <2>3. \A r \in Calls : \/ step'[Call(r)] = step[Call(r)] /\ i # Call(r)
                         \/ i = Call(r) /\ step'[Call(r)] = x
    BY <1>0, <1>1
  <2>4. UNCHANGED <<link, identity, told, known, inbox>> /\ (Subscribing' <=> Subscribing) /\ (Accepting' <=> Accepting)
    BY <1>1 DEF client, wires, Subscribing, Accepting
  <2>5. link = "closed" => \A r \in Calls : told'[r] # "waiting"
    BY <2>4 DEF Cared
  <2> QED
    BY <1>1, <2>1, <2>2, <2>3, <2>4, <2>5, SameLink
<1>2. CASE Dial
  <2>1. link = "closed" /\ toClient' = <<Challenge>>
        /\ UNCHANGED <<identity, told, toRelay, known, inbox, step>>
    BY <1>2 DEF Dial, relay
  <2>2. ~Accepting'
    BY <2>1, Distinct DEF Accepting, On
  <2> QED
    BY <2>1, <2>2 DEF Cared, Subscribing
<1>3. CASE Hear
  BY <1>3, CaredHear
<1>4. CASE Lose
  <2>1. link' = "lost" /\ toRelay' = <<>> /\ toClient' = <<>> /\ inbox' = "none" /\ UNCHANGED <<identity, told, known, step>>
    BY <1>4 DEF Lose
  <2>2. ~Subscribing' /\ ~Accepting'
    BY <2>1 DEF Subscribing, Accepting, On
  <2> QED
    BY <2>1, <2>2 DEF Cared
<1>5. CASE Turn \/ UNCHANGED exchangeVars
  <2>1. UNCHANGED <<link, identity, told, toRelay, toClient, known, inbox, step, saved, missed, cut>>
    BY <1>5 DEF Turn, exchangeVars, client, wires, relay, past
  <2> QED
    BY <2>1 DEF Cared, Excused, Replying, Accepting, Subscribing, On
<1>6. CASE BeginAuth \/ EndAuth \/ BeginReq \/ EndReq \/ BeginEvent
  BY <1>6, CaredWire
<1>7. ASSUME NEW q \in Calls, Request(q) PROVE Cared'
  <2>1. link = "open" /\ step' = [step EXCEPT ![Call(q)] = "sent"] /\ toRelay' = Append(toRelay, Call(q))
        /\ told' = [told EXCEPT ![q] = "waiting"]
        /\ UNCHANGED <<link, identity, toClient, known, inbox, saved, missed, cut>>
    BY <1>7 DEF Request, To, ToRelay, past
  <2>2. Subscribing' <=> Subscribing
    BY <1>0, <2>1, OnAppend DEF Subscribing
  <2>3. \A r \in Calls : Excused(r) => Excused(r)'
    BY <2>1, SameExcuse
  <2>4. \A r \in Calls : r = q \/ (told'[r] = told[r] /\ step'[Call(r)] = step[Call(r)])
    BY <1>0, <2>1
  <2>5. step'[Call(q)] = "sent" /\ link # "closed" /\ (Accepting' <=> Accepting)
    BY <1>0, <2>1 DEF Accepting
  <2> QED
    BY <2>1, <2>2, <2>3, <2>4, <2>5, SameLink
<1>8. ASSUME NEW q \in Calls, GiveUp(q) PROVE Cared'
  <2>1. UNCHANGED <<link, identity, toRelay, toClient, known, inbox, step, saved, missed, cut>>
        /\ \A r \in Calls : told'[r] = "waiting" => told[r] = "waiting"
    BY <1>8 DEF GiveUp, wires, relay, past
  <2>2. \A r \in Calls : Excused(r) => Excused(r)'
    BY <2>1, SameExcuse
  <2>3. (Subscribing' <=> Subscribing) /\ (Accepting' <=> Accepting)
    BY <2>1 DEF Subscribing, Accepting
  <2>4. link = "closed" => \A r \in Calls : told'[r] # "waiting"
    BY <2>1 DEF Cared
  <2> QED
    BY <2>1, <2>2, <2>3, <2>4, SameLink
<1>9. ASSUME NEW q \in Calls, Screen(q) \/ Route(q) PROVE Cared'
  <2>1. PICK x \in {"route", "reply"} : step' = [step EXCEPT ![Call(q)] = x]
    BY <1>9 DEF Screen, Route, To
  <2>2. UNCHANGED <<client, wires, known, inbox, saved, missed, cut>>
    BY <1>9 DEF Screen, Route, past
  <2> QED
    BY <1>0, <1>1, <2>1, <2>2 DEF Steps
<1>10. ASSUME NEW q \in Calls, SendResponse(q) PROVE Cared'
  <2>1. PICK x \in {"over", "publish"} : step' = [step EXCEPT ![Call(q)] = x] /\ (x = "over" => q \in Bulky)
    BY <1>10 DEF SendResponse, To
  <2>2. UNCHANGED <<client, wires, known, inbox, missed, cut>> /\ saved' \in {saved, saved \cup {Call(q)}}
    BY <1>10 DEF SendResponse, past
  <2>3. x = "over" => \A r \in Calls : Call(q) # Call(r) \/ r \in Bulky
    BY <1>0, <2>1
  <2>4. \A r \in Calls : Call(r) \in saved' => Call(r) \in saved \/ Call(q) = Call(r)
    BY <2>2
  <2> QED
    BY <1>0, <1>1, <2>1, <2>2, <2>3, <2>4 DEF Steps
<1>11. ASSUME NEW q \in Calls, Publish(q) PROVE Cared'
  <2>1. step' = [step EXCEPT ![Call(q)] = "over"] /\ UNCHANGED <<link, identity, told, toRelay, known, inbox, saved, cut>>
    BY <1>11 DEF Publish, To, client
  <2>2. ReplyTo(q, code[q]) \in ToMember /\ code[q] \in {"answer", "error"}
    BY <1>11 DEF Publish, Coded, ToMember
  <2>3. toClient' \in {toClient, Append(toClient, ReplyTo(q, code[q]))} /\ missed \subseteq missed'
    BY <1>11 DEF Publish, ToClient
  <2>4. ASSUME NEW M
        PROVE  /\ On(toClient, M) => On(toClient', M)
               /\ On(toClient', M) => On(toClient, M) \/ ReplyTo(q, code[q]) \in M
    <3>1. CASE toClient' = toClient
      BY <3>1
    <3>2. CASE toClient' = Append(toClient, ReplyTo(q, code[q]))
      BY <2>2, <3>2, OnAppend
    <3> QED
      BY <2>3, <3>1, <3>2
  <2>5. Accepting' => Accepting
    <3>1. ReplyTo(q, code[q]) \notin {LetIn}
      BY <2>2, Distinct
    <3> QED
      BY <2>4, <3>1 DEF Accepting
  <2>6. \A r \in Calls : Excused(r) => Excused(r)'
    BY <2>1, <2>3, <2>4 DEF Excused, Replying
  <2>7. link = "open" => Excused(q)'
    <3>1. CASE inbox # "none" /\ link = "open"
      <4>1. toClient' = Append(toClient, ReplyTo(q, code[q]))
        BY <1>11, <3>1 DEF Publish, ToClient
      <4>2. ReplyTo(q, code[q]) \in {ReplyTo(q, "answer"), ReplyTo(q, "error")}
        BY <2>2
      <4> QED
        BY <2>2, <4>1, <4>2, OnAppend DEF Excused, Replying
    <3>2. CASE inbox = "none"
      BY <1>11, <2>1, <3>2 DEF Publish, Excused
    <3> QED
      BY <3>1, <3>2
  <2>8. \A r \in Calls : r = q \/ step'[Call(r)] = step[Call(r)]
    BY <1>0, <2>1
  <2>9. step'[Call(q)] = "over" /\ (Subscribing' <=> Subscribing) /\ (link = "closed" => \A r \in Calls : told'[r] # "waiting")
    BY <1>0, <2>1 DEF Subscribing, Cared
  <2> QED
    BY <2>1, <2>5, <2>6, <2>7, <2>8, <2>9, SameLink
<1>12. ASSUME NEW l \in Letters, SendDM(l) PROVE Cared'
  <2>1. PICK i \in {Mail(l), Copy(l)} : step' = [step EXCEPT ![i] = "sent"] /\ toRelay' = Append(toRelay, i)
    BY <1>12 DEF SendDM, To, ToRelay
  <2>2. link = "open" /\ UNCHANGED <<link, identity, told, toClient, known, inbox, saved, missed, cut>>
    BY <1>12 DEF SendDM, client, past
  <2>3. Subscribing' <=> Subscribing
    BY <1>0, <2>1, OnAppend DEF Subscribing
  <2>4. \A r \in Calls : step'[Call(r)] = step[Call(r)] /\ (Excused(r) => Excused(r)')
    BY <1>0, <2>1, <2>2, SameExcuse
  <2>5. (Accepting' <=> Accepting) /\ link # "closed"
    BY <2>2 DEF Accepting
  <2> QED
    BY <2>2, <2>3, <2>4, <2>5, SameLink
<1>13. ASSUME NEW i \in Items, Dispatch(i) \/ Policy(i) PROVE Cared'
  <2>1. PICK x \in {"policy", "screen", "route", "store", "refused"} : step' = [step EXCEPT ![i] = x]
    BY <1>13 DEF Dispatch, Policy, To
  <2>2. UNCHANGED <<client, wires, known, inbox, saved, missed, cut>>
    BY <1>13 DEF Dispatch, Policy, past
  <2> QED
    BY <1>1, <2>1, <2>2 DEF Steps
<1>14. ASSUME NEW i \in Items, Store(i) PROVE Cared'
  <2>1. step' = [step EXCEPT ![i] = "over"] /\ UNCHANGED <<client, wires, known, inbox, missed, cut>>
        /\ saved' \in {saved, saved \cup {i}}
    BY <1>14 DEF Store, To, past
  <2>2. \A r \in Calls : i # Call(r)
    BY <1>14 DEF Store, Coded
  <2> QED
    BY <1>1, <2>1, <2>2 DEF Steps
<1> QED
  BY <1>2, <1>3, <1>4, <1>5, <1>6, <1>7, <1>8, <1>9, <1>10, <1>11, <1>12, <1>13, <1>14 DEF ExchangeNext

(* When nothing is under way any more, the client has an inbox, and waits  *)
(* in vain only for a reply that was lost in one of the known ways.        *)
THEOREM RequestsAreTold == ExchangeSpec => []ToldOrLost
<1>1. ExchangeInit => Cared
  BY OnEmpty DEF ExchangeInit, Cared, Accepting, Subscribing
<1>2. Typed /\ Cared => ToldOrLost
  <2> SUFFICES ASSUME Typed, Cared, Quiet
               PROVE  /\ inbox = "live"
                      /\ \A r \in Calls : told[r] = "waiting" =>
                           \/ step[Call(r)] = "refused"
                           \/ r \in Bulky
                           \/ r \in missed /\ (Call(r) \notin saved \/ cut)
    BY DEF ToldOrLost
  <2>1. ~Subscribing /\ \A r \in Calls : ~Replying(r)
    BY OnEmpty DEF Quiet, wires, Subscribing, Replying
  <2>2. inbox = "live"
    BY <2>1 DEF Cared, Quiet, Typed, ExchangeTypeOK
  <2>3. \A r \in Calls : step[Call(r)] \in {"unsent", "refused", "over"}
    BY Kinds DEF Quiet
  <2> QED
    BY <2>1, <2>2, <2>3 DEF Cared, Quiet, Excused
<1>3. ExchangeSpec => []Typed
  BY TypedInit, TypedStep, PTL DEF ExchangeSpec
<1> QED
  BY <1>1, <1>2, <1>3, CaredStep, PTL DEF ExchangeSpec

-----------------------------------------------------------------------------
(* Blast: types *)

AttemptSteps == {"none", "waiting", "woken", "done"} \cup Tried
Attempts == [Messages -> [AllRelays -> AttemptSteps]]

(* What giving a slot back does to the attempts. *)
LEMMA ReleaseDoes ==
    ASSUME BlastTypeOK, NEW m \in Messages, NEW r \in AllRelays, Release(m, r)
    PROVE  /\ attempt' \in Attempts /\ running' \in [Messages -> Int]
           /\ attempt'[m][r] = "done"
           /\ \E next \in AllRelays : \A q \in AllRelays \ {r} :
                attempt'[m][q] = attempt[m][q] \/ (q = next /\ attempt[m][q] = "waiting")
           /\ \A n \in Messages \ {m} : attempt'[n] = attempt[n]
<1> USE DEF BlastTypeOK, Attempts, AttemptSteps, Release
<1>1. running' \in [Messages -> Int]
  OBVIOUS
<1>2. CASE attempt' = [attempt EXCEPT ![m][r] = "done"]
  BY <1>1, <1>2
<1>3. ASSUME NEW next \in AllRelays, attempt[m][next] = "waiting", attempt[m][r] # "waiting",
             attempt' = [attempt EXCEPT ![m][r] = "done", ![m][next] = "woken"]
      PROVE  /\ attempt' \in Attempts /\ attempt'[m][r] = "done"
             /\ \A q \in AllRelays \ {r} :
                  attempt'[m][q] = attempt[m][q] \/ (q = next /\ attempt[m][q] = "waiting")
             /\ \A n \in Messages \ {m} : attempt'[n] = attempt[n]
  BY <1>3
<1> QED
  BY <1>1, <1>2, <1>3

Settled(m) == found[m] # {} /\ Done(m) = found[m]
Underway(m) == work[m] \in {"monitors", "relays", "blast", "blasting", "late"} \/ Settled(m)

(* While a list is being built, and later, no blast is without a relay.    *)
Listed == \A m \in Messages : work[m] \in {"blast", "blasting", "late"} => found[m] # {}

BlastTyped == BlastTypeOK /\ Listed

LEMMA BlastTypedInit == BlastInit => BlastTyped
BY DEF BlastInit, BlastTyped, BlastTypeOK, Listed

LEMMA FiniteRelays == IsFiniteSet(AllRelays)
BY BlastData, FS_Union DEF AllRelays

(* An attempt that ends gives its slot back, and touches nothing else.     *)
LEMMA EndsAttempt ==
    ASSUME BlastTypeOK, NEW m \in Messages, NEW r \in AllRelays,
           Succeed(m, r) \/ TimeOut(m, r) \/ (Break(m, r) /\ attempt[m][r] \in Tried)
    PROVE  /\ Release(m, r) /\ attempt[m][r] \in Tried
           /\ UNCHANGED <<cache, work, query, sent, dropped, stranded>>
           /\ socket' \in [Messages -> [AllRelays -> {"none", "connecting", "open", "closed"}]]
           /\ counted' \in [Messages -> SUBSET AllRelays]
<1> USE DEF BlastTypeOK
<1>1. CASE Succeed(m, r)
  BY <1>1 DEF Succeed, Tried
<1>2. CASE TimeOut(m, r)
  <2>1. PICK s \in {"none", "connecting", "open", "closed"} : socket' = [socket EXCEPT ![m][r] = s]
    BY <1>2 DEF TimeOut
  <2>2. Release(m, r) /\ attempt[m][r] \in Tried
        /\ UNCHANGED <<cache, work, query, counted, sent, dropped, stranded>>
    BY <1>2 DEF TimeOut, Tried
  <2> QED
    BY <2>1, <2>2
<1>3. CASE Break(m, r) /\ attempt[m][r] \in Tried
  BY <1>3 DEF Break
<1> QED
  BY <1>1, <1>2, <1>3

LEMMA BlastTypedStep == BlastTyped /\ [BlastNext]_blastVars => BlastTyped'
<1> SUFFICES ASSUME BlastTyped, [BlastNext]_blastVars PROVE BlastTyped'
  OBVIOUS
<1> USE DEF BlastTyped, BlastTypeOK, Listed
<1>1. ASSUME NEW m \in Messages,
             Receive(m) \/ Limit(m) \/ Accept(m) \/ AcceptForNobody(m) \/ Reject(m)
      PROVE  BlastTyped'
  <2>1. CASE Receive(m) \/ Limit(m) \/ Reject(m)
    <3>1. PICK place \in {"verify", "over"} : Becomes(m, place)
      BY <2>1 DEF Receive, Limit, Reject
    <3>2. UNCHANGED <<cache, query, tries, stranded>> /\ dropped' \in {dropped, dropped \cup {Id[m]}}
      BY <2>1 DEF Receive, Limit, Reject
    <3> QED
      BY <3>1, <3>2 DEF Becomes, cache, query, tries
  <2>2. CASE Accept(m)
    <3>1. /\ seen' \subseteq {Id[n] : n \in Messages}
          /\ UNCHANGED <<list, attempt, socket, running, counted, sent, dropped, stranded>>
      BY <2>2 DEF Accept, tries
    <3>2. CASE list # {}
      <4>1. /\ work' = [work EXCEPT ![m] = "blast"] /\ found' = [found EXCEPT ![m] = list]
            /\ UNCHANGED asked
        BY <2>2, <3>2 DEF Accept, Becomes
      <4> QED
        BY <3>1, <3>2, <4>1
    <3>3. CASE list = {}
      <4>1. /\ work' = [work EXCEPT ![m] = "monitors"] /\ asked' = [asked EXCEPT ![m] = Bootstrap]
            /\ UNCHANGED found
        BY <2>2, <3>3 DEF Accept, Becomes
      <4> QED
        BY <3>1, <4>1
    <3> QED
      BY <3>2, <3>3
  <2>3. CASE AcceptForNobody(m)
    BY <2>3 DEF AcceptForNobody, Becomes, query, tries
  <2> QED
    BY <1>1, <2>1, <2>2, <2>3
<1>2. ASSUME NEW m \in Messages,
             AskForRelays(m) \/ KeepList(m) \/ Deny(m) \/ Answer(m) \/ AnswerLate(m)
      PROVE  BlastTyped'
  <2>1. CASE Deny(m) \/ Answer(m) \/ AnswerLate(m)
    <3>1. PICK place \in {"over", "late"} : Becomes(m, place)
      BY <2>1 DEF Deny, Answer, AnswerLate
    <3>2. place = "late" => work[m] = "blasting"
      BY <2>1, <3>1 DEF Deny, Answer, AnswerLate, Becomes
    <3>3. UNCHANGED <<cache, query, tries, dropped, stranded>>
      BY <2>1 DEF Deny, Answer, AnswerLate
    <3> QED
      BY <3>1, <3>2, <3>3 DEF Becomes, cache, query, tries
  <2>3. CASE AskForRelays(m)
    BY <2>3 DEF AskForRelays, Becomes, cache, tries
  <2>2. CASE KeepList(m)
    <3>1. PICK more \in {{}, Others} :
              /\ found' = [found EXCEPT ![m] = @ \cup Bootstrap \cup more]
              /\ list' = found[m] \cup Bootstrap \cup more
      BY <2>2 DEF KeepList
    <3> QED
      BY <2>2, <3>1, BlastData DEF KeepList, Becomes, tries, AllRelays
  <2> QED
    BY <1>2, <2>1, <2>2, <2>3
<1>3. ASSUME NEW m \in Messages, Begin(m) PROVE BlastTyped'
  <2>1. PICK first \in SUBSET found[m] :
            /\ attempt' = [attempt EXCEPT ![m] = [r \in AllRelays |->
                   IF r \in first THEN "acquired" ELSE IF r \in found[m] THEN "waiting" ELSE "none"]]
            /\ running' = [running EXCEPT ![m] = Cardinality(first)]
    BY <1>3 DEF Begin
  <2>2. Cardinality(first) \in Nat
    BY FiniteRelays, FS_Subset, FS_CardinalityType
  <2> QED
    BY <1>3, <2>1, <2>2 DEF Begin, Becomes, cache, query, Tried
<1>4. ASSUME NEW m \in Messages, NEW b \in Bootstrap, Settle(m, b) PROVE BlastTyped'
  <2>1. PICK new \in SUBSET Others :
            found' = IF work[m] = "relays" THEN [found EXCEPT ![m] = @ \cup new] ELSE found
    BY <1>4 DEF Settle
  <2> QED
    BY <1>4, <2>1 DEF Settle, cache, tries, AllRelays
<1>5. ASSUME NEW m \in Messages, NEW r \in AllRelays, Wake(m, r) \/ Connect(m, r) \/ Open(m, r)
      PROVE  BlastTyped'
  <2>1. CASE Wake(m, r)
    BY <2>1 DEF Wake, cache, query, Tried
  <2>2. CASE Connect(m, r)
    BY <2>2 DEF Connect, cache, query, Tried
  <2>3. CASE Open(m, r)
    BY <2>3 DEF Open, cache, query, Tried
  <2> QED
    BY <1>5, <2>1, <2>2, <2>3
<1>6. ASSUME NEW m \in Messages, NEW r \in AllRelays, Succeed(m, r) \/ TimeOut(m, r) \/ Break(m, r)
      PROVE  BlastTyped'
  <2>1. CASE Succeed(m, r) \/ TimeOut(m, r) \/ (Break(m, r) /\ attempt[m][r] \in Tried)
    <3>1. /\ UNCHANGED <<cache, work, query, sent, dropped, stranded>>
          /\ socket' \in [Messages -> [AllRelays -> {"none", "connecting", "open", "closed"}]]
          /\ counted' \in [Messages -> SUBSET AllRelays]
          /\ Release(m, r)
      BY <2>1, EndsAttempt
    <3>2. attempt' \in Attempts /\ running' \in [Messages -> Int]
      BY <3>1, ReleaseDoes
    <3> QED
      BY <3>1, <3>2 DEF cache, query, Attempts, AttemptSteps
  <2>2. CASE Break(m, r) /\ attempt[m][r] \notin Tried
    BY <2>2 DEF Break, cache, query
  <2> QED
    BY <1>6, <2>1, <2>2
<1>7. CASE Expire
  BY <1>7 DEF Expire, query, tries
<1>8. CASE UNCHANGED blastVars
  BY <1>8 DEF blastVars, cache, query, tries
<1> QED
  BY <1>1, <1>2, <1>3, <1>4, <1>5, <1>6, <1>7, <1>8 DEF BlastNext

(* The blast relay keeps to its types.                                     *)
THEOREM BlastTypes == BlastSpec => []BlastTypeOK
<1>1. BlastTyped => BlastTypeOK
  BY DEF BlastTyped
<1> QED
  BY <1>1, BlastTypedInit, BlastTypedStep, PTL DEF BlastSpec

-----------------------------------------------------------------------------
(* Blast: the semaphore *)

Holds(m) == {r \in AllRelays : attempt[m][r] \in Tried \cup {"woken"}}

(* Fewer holders, or one for another, are no more.                         *)
LEMMA NoMore ==
    ASSUME NEW S, NEW T, IsFiniteSet(S), S \subseteq AllRelays, T \subseteq AllRelays,
           \/ T \subseteq S
           \/ \E r \in S : \E q \in AllRelays : T \subseteq (S \ {r}) \cup {q}
    PROVE  Cardinality(T) <= Cardinality(S)
<1>1. CASE T \subseteq S
  BY <1>1, FS_Subset
<1>2. ASSUME NEW r \in S, NEW q \in AllRelays, T \subseteq (S \ {r}) \cup {q}
      PROVE  Cardinality(T) <= Cardinality(S)
  <2>1. IsFiniteSet(S \ {r}) /\ Cardinality(S \ {r}) = Cardinality(S) - 1 /\ Cardinality(S) \in Nat
    BY FS_RemoveElement, FS_CardinalityType
  <2>2. /\ IsFiniteSet((S \ {r}) \cup {q})
        /\ Cardinality((S \ {r}) \cup {q}) <= Cardinality(S \ {r}) + 1
    <3>1. Cardinality(S \ {r}) \in Nat
      BY <2>1, FS_CardinalityType
    <3>2. CASE q \in S \ {r}
      <4>1. (S \ {r}) \cup {q} = S \ {r}
        BY <3>2
      <4>2. /\ Cardinality((S \ {r}) \cup {q}) = Cardinality(S \ {r})
            /\ IsFiniteSet((S \ {r}) \cup {q})
        BY <2>1, <4>1, Zenon
      <4> QED
        BY <3>1, <4>2
    <3>3. CASE q \notin S \ {r}
      BY <2>1, <3>1, <3>3, FS_AddElement
    <3> QED
      BY <3>2, <3>3
  <2>3. Cardinality(T) <= Cardinality((S \ {r}) \cup {q}) /\ IsFiniteSet(T)
    BY <1>2, <2>2, FS_Subset
  <2>4. Cardinality(T) \in Nat /\ Cardinality((S \ {r}) \cup {q}) \in Nat
    BY <2>2, <2>3, FS_CardinalityType
  <2> QED
    BY <2>1, <2>2, <2>3, <2>4
<1> QED
  BY <1>1, <1>2

LEMMA SlotsHoldStep == BlastTyped /\ SlotsHold /\ [BlastNext]_blastVars => SlotsHold'
<1> SUFFICES ASSUME BlastTyped, SlotsHold, [BlastNext]_blastVars PROVE SlotsHold'
  OBVIOUS
<1> USE DEF BlastTyped, BlastTypeOK
<1>1. \A n \in Messages : /\ IsFiniteSet(Holds(n)) /\ Holds(n) \subseteq AllRelays
                          /\ Cardinality(Holds(n)) <= Slots /\ Cardinality(Holds(n)) \in Nat
  BY FiniteRelays, FS_Subset, FS_CardinalityType DEF Holds, SlotsHold
<1>2. ASSUME \A n \in Messages :
                 \/ Holds(n)' \subseteq Holds(n)
                 \/ \E r \in Holds(n) : \E q \in AllRelays : Holds(n)' \subseteq (Holds(n) \ {r}) \cup {q}
      PROVE  SlotsHold'
  <2> SUFFICES ASSUME NEW n \in Messages PROVE Cardinality(Holds(n)') <= Slots
    BY DEF SlotsHold, Holds
  <2>1. Holds(n)' \subseteq AllRelays
    BY DEF Holds
  <2>2. Cardinality(Holds(n)') <= Cardinality(Holds(n))
    BY <1>1, <1>2, <2>1, NoMore
  <2>3. Cardinality(Holds(n)') \in Nat
    BY <2>1, FiniteRelays, FS_Subset, FS_CardinalityType
  <2> QED
    BY <1>1, <2>2, <2>3, BlastData
<1>3. CASE UNCHANGED attempt
  BY <1>2, <1>3 DEF Holds
<1>4. ASSUME NEW m \in Messages, Begin(m) PROVE SlotsHold'
  <2>1. PICK first \in SUBSET found[m] :
            /\ Cardinality(first) <= Slots
            /\ attempt' = [attempt EXCEPT ![m] = [r \in AllRelays |->
                   IF r \in first THEN "acquired" ELSE IF r \in found[m] THEN "waiting" ELSE "none"]]
    BY <1>4 DEF Begin
  <2>2. Holds(m)' = first
    BY <2>1 DEF Holds, Tried
  <2>3. \A n \in Messages \ {m} : Holds(n)' = Holds(n)
    BY <2>1 DEF Holds
  <2>4. \A n \in Messages : Cardinality(Holds(n)') <= Slots
    BY <1>1, <2>1, <2>2, <2>3
  <2> QED
    BY <2>4 DEF SlotsHold, Holds
<1>5. ASSUME NEW m \in Messages, NEW r \in AllRelays, Wake(m, r) \/ Connect(m, r) \/ Open(m, r)
      PROVE  SlotsHold'
  <2>1. attempt' = attempt \/ \E x \in Tried : attempt' = [attempt EXCEPT ![m][r] = x]
                                            /\ attempt[m][r] \in Tried \cup {"woken"}
    BY <1>5 DEF Wake, Connect, Open, Tried
  <2>2. ASSUME NEW x \in Tried, attempt' = [attempt EXCEPT ![m][r] = x],
               attempt[m][r] \in Tried \cup {"woken"}, NEW n \in Messages
        PROVE  Holds(n)' \subseteq Holds(n)
    <3>1. \A q \in AllRelays : attempt'[n][q] = attempt[n][q] \/ (n = m /\ q = r)
      BY <2>2
    <3> QED
      BY <2>2, <3>1 DEF Holds
  <2> QED
    BY <1>2, <1>3, <2>1, <2>2
<1>6. ASSUME NEW m \in Messages, NEW r \in AllRelays, Release(m, r), attempt[m][r] \in Tried
      PROVE  SlotsHold'
  <2>1. PICK next \in AllRelays : \A q \in AllRelays \ {r} :
            attempt'[m][q] = attempt[m][q] \/ (q = next /\ attempt[m][q] = "waiting")
    BY <1>6, ReleaseDoes
  <2>2. attempt'[m][r] = "done" /\ \A n \in Messages \ {m} : attempt'[n] = attempt[n]
    BY <1>6, ReleaseDoes
  <2>3. r \in Holds(m) /\ Holds(m)' \subseteq (Holds(m) \ {r}) \cup {next}
    BY <1>6, <2>1, <2>2 DEF Holds, Tried
  <2>4. \A n \in Messages \ {m} : Holds(n)' = Holds(n)
    BY <2>2 DEF Holds
  <2> QED
    BY <1>2, <2>3, <2>4
<1>7. ASSUME NEW m \in Messages, NEW r \in AllRelays, Succeed(m, r) \/ TimeOut(m, r) \/ Break(m, r)
      PROVE  SlotsHold'
  BY <1>3, <1>6, <1>7, EndsAttempt DEF Break
<1>8. ASSUME NEW m \in Messages,
             \/ Receive(m) \/ Limit(m) \/ Accept(m) \/ AcceptForNobody(m) \/ Reject(m)
             \/ AskForRelays(m) \/ KeepList(m) \/ Deny(m) \/ Answer(m) \/ AnswerLate(m)
             \/ \E b \in Bootstrap : Settle(m, b)
      PROVE  UNCHANGED attempt
  BY <1>8 DEF Receive, Limit, Accept, AcceptForNobody, Reject, AskForRelays, KeepList, Deny,
     Answer, AnswerLate, Settle, tries
<1>9. Expire \/ UNCHANGED blastVars => UNCHANGED attempt
  BY DEF Expire, blastVars, tries
<1> QED
  BY <1>3, <1>4, <1>5, <1>7, <1>8, <1>9 DEF BlastNext

(* No blast tries more relays at a time than its semaphore has slots.      *)
THEOREM SlotsAreKept == BlastSpec => []SlotsHold
<1>1. BlastInit => SlotsHold
  <2> SUFFICES ASSUME BlastInit, NEW m \in Messages
               PROVE  Cardinality({r \in AllRelays : attempt[m][r] \in Tried \cup {"woken"}}) <= Slots
    BY DEF SlotsHold
  <2>1. {r \in AllRelays : attempt[m][r] \in Tried \cup {"woken"}} = {}
    BY DEF BlastInit, Tried
  <2> QED
    BY <2>1, FS_EmptySet, BlastData
<1>2. BlastSpec => []BlastTyped
  BY BlastTypedInit, BlastTypedStep, PTL DEF BlastSpec
<1> QED
  BY <1>1, <1>2, SlotsHoldStep, PTL DEF BlastSpec

-----------------------------------------------------------------------------
(* Blast: what is remembered is passed on *)

Accounted(id) ==
    \/ id \in stranded \cup Denied
    \/ \E m \in Messages : Id[m] = id /\ m \notin Forged /\ Underway(m)

(* What is answered "Duplicate", and what will be, is accounted for.       *)
AllAccounted == \A id \in seen \cup dropped : Accounted(id)

LEMMA UnderwayStep ==
    ASSUME BlastTyped, [BlastNext]_blastVars, NEW n \in Messages, Underway(n)
    PROVE  Underway(n)' \/ Id[n] \in Denied
<1> USE DEF BlastTyped, BlastTypeOK, Listed
<1>1. ASSUME found'[n] = found[n], work'[n] = work[n],
             \A r \in AllRelays : attempt[n][r] = "done" => attempt'[n][r] = "done"
      PROVE  Underway(n)'
  <2>1. Settled(n) => Settled(n)'
    BY <1>1 DEF Settled, Done
  <2> QED
    BY <1>1, <2>1 DEF Underway
<1>2. ASSUME NEW m \in Messages, Receive(m) \/ Limit(m) \/ AcceptForNobody(m) \/ Reject(m)
      PROVE  Underway(n)'
  <2>1. work[m] \in {"unsent", "verify"} /\ UNCHANGED <<found, attempt>>
        /\ \A k \in Messages \ {m} : work'[k] = work[k]
    BY <1>2 DEF Receive, Limit, AcceptForNobody, Reject, Becomes, query, tries
  <2> QED
    BY <2>1 DEF Underway, Settled, Done
<1>3. ASSUME NEW m \in Messages, Accept(m) \/ AskForRelays(m) \/ KeepList(m) \/ Begin(m) \/ AnswerLate(m)
      PROVE  Underway(n)'
  <2>1. CASE n = m
    <3>1. work'[m] \in {"monitors", "relays", "blast", "blasting", "late"}
      BY <1>3 DEF Accept, AskForRelays, KeepList, Begin, AnswerLate, Becomes
    <3> QED
      BY <2>1, <3>1 DEF Underway
  <2>2. CASE n # m
    <3>1. found'[n] = found[n] /\ work'[n] = work[n] /\ attempt'[n] = attempt[n]
      <4>1. CASE Accept(m)
        BY <2>2, <4>1 DEF Accept, Becomes, tries
      <4>2. CASE AskForRelays(m) \/ AnswerLate(m)
        BY <2>2, <4>2 DEF AskForRelays, AnswerLate, Becomes, query, tries
      <4>3. CASE KeepList(m)
        BY <2>2, <4>3 DEF KeepList, Becomes, tries
      <4>4. CASE Begin(m)
        BY <2>2, <4>4 DEF Begin, Becomes, query
      <4> QED
        BY <1>3, <4>1, <4>2, <4>3, <4>4
    <3> QED
      BY <1>1, <3>1
  <2> QED
    BY <2>1, <2>2
<1>4. ASSUME NEW m \in Messages, Deny(m) PROVE Underway(n)' \/ Id[n] \in Denied
  BY <1>1, <1>4 DEF Deny, Becomes, query, tries
<1>5. ASSUME NEW m \in Messages, Answer(m) PROVE Underway(n)'
  <2>1. CASE n = m
    BY <1>5, <2>1 DEF Answer, Underway, Settled, Done, query, tries
  <2>2. CASE n # m
    BY <1>1, <1>5, <2>2 DEF Answer, Becomes, query, tries
  <2> QED
    BY <2>1, <2>2
<1>6. ASSUME NEW m \in Messages, NEW b \in Bootstrap, Settle(m, b) PROVE Underway(n)'
  <2>1. UNCHANGED <<work, attempt>> /\ work[m] \in {"monitors", "relays"}
        /\ \A k \in Messages \ {m} : found'[k] = found[k]
    BY <1>6 DEF Settle, tries
  <2> QED
    BY <1>1, <2>1 DEF Underway
<1>7. ASSUME NEW m \in Messages, NEW r \in AllRelays, Wake(m, r) \/ Connect(m, r) \/ Open(m, r)
      PROVE  Underway(n)'
  <2>1. /\ UNCHANGED <<work, found>> /\ (attempt[m][r] # "done" \/ attempt' = attempt)
        /\ \A k \in Messages, q \in AllRelays : <<k, q>> = <<m, r>> \/ attempt'[k][q] = attempt[k][q]
    BY <1>7 DEF Wake, Connect, Open, query
  <2> QED
    BY <1>1, <2>1
<1>8. ASSUME NEW m \in Messages, NEW r \in AllRelays, Succeed(m, r) \/ TimeOut(m, r) \/ Break(m, r)
      PROVE  Underway(n)'
  <2>1. CASE Release(m, r) /\ UNCHANGED <<work, query>>
    <3>1. \A q \in AllRelays : attempt[n][q] = "done" => attempt'[n][q] = "done"
      BY <2>1, ReleaseDoes
    <3> QED
      BY <1>1, <2>1, <3>1 DEF query
  <2>2. CASE Break(m, r) /\ attempt[m][r] \notin Tried
    BY <1>1, <2>2 DEF Break, query
  <2> QED
    BY <1>8, <2>1, <2>2, EndsAttempt
<1>9. CASE Expire \/ UNCHANGED blastVars
  BY <1>1, <1>9 DEF Expire, blastVars, query, tries
<1> QED
  BY <1>2, <1>3, <1>4, <1>5, <1>6, <1>7, <1>8, <1>9 DEF BlastNext

LEMMA AccountedStep ==
    BlastTyped /\ AllAccounted /\ [BlastNext]_blastVars => AllAccounted'
<1> SUFFICES ASSUME BlastTyped, AllAccounted, [BlastNext]_blastVars PROVE AllAccounted'
  OBVIOUS
<1> USE DEF BlastTyped, BlastTypeOK
<1>1. stranded \subseteq stranded'
  BY DEF BlastNext, Receive, Limit, Accept, AcceptForNobody, Reject, AskForRelays, KeepList, Deny,
     Begin, Answer, AnswerLate, Settle, Wake, Connect, Open, Succeed, TimeOut, Break, Expire, blastVars
<1>2. ASSUME NEW id, Accounted(id) PROVE Accounted(id)'
  <2>1. CASE id \in stranded \cup Denied
    BY <1>1, <2>1 DEF Accounted
  <2>2. CASE id \notin stranded \cup Denied
    <3>1. PICK n \in Messages : Id[n] = id /\ n \notin Forged /\ Underway(n)
      BY <1>2, <2>2 DEF Accounted
    <3>2. Underway(n)'
      BY <2>2, <3>1, UnderwayStep
    <3> QED
      BY <3>1, <3>2 DEF Accounted
  <2> QED
    BY <2>1, <2>2
<1>3. ASSUME NEW id \in seen' \cup dropped', id \notin seen \cup dropped PROVE Accounted(id)'
  <2>1. PICK m \in Messages : id = Id[m] /\ (Accept(m) \/ AcceptForNobody(m))
    <3>1. ASSUME NEW m \in Messages, Receive(m) PROVE FALSE
      BY <1>3, <3>1 DEF Receive, cache
    <3>2. ASSUME NEW m \in Messages, Accept(m) \/ AcceptForNobody(m) PROVE id = Id[m]
      BY <1>3, <3>2 DEF Accept, AcceptForNobody
    <3>3. ~ UNCHANGED <<seen, dropped>> /\ ~ Expire
      BY <1>3 DEF Expire
    <3> QED
      BY <3>1, <3>2, <3>3 DEF BlastNext, Limit, Reject, AskForRelays, KeepList, Deny, Begin, Answer,
         AnswerLate, Settle, Wake, Connect, Open, Succeed, TimeOut, Break, blastVars, cache
  <2>2. CASE Accept(m)
    <3>1. m \notin Forged /\ work'[m] \in {"blast", "monitors"}
      BY <2>2 DEF Accept, Becomes
    <3> QED
      BY <2>1, <3>1 DEF Accounted, Underway
  <2>3. CASE AcceptForNobody(m)
    BY <2>1, <2>3 DEF AcceptForNobody, Accounted
  <2> QED
    BY <2>1, <2>2, <2>3
<1> QED
  BY <1>2, <1>3 DEF AllAccounted

(* "Duplicate" is only said of an event that is passed on, or is denied,   *)
(* or came from a client that was gone when it was accepted.               *)
THEOREM DuplicatesAreOnTheirWay == BlastSpec => []DroppedIsOnItsWay
<1>1. BlastInit => AllAccounted
  BY DEF BlastInit, AllAccounted
<1>2. AllAccounted => DroppedIsOnItsWay
  BY DEF AllAccounted, Accounted, Underway, Settled, DroppedIsOnItsWay
<1>3. BlastSpec => []BlastTyped
  BY BlastTypedInit, BlastTypedStep, PTL DEF BlastSpec
<1> QED
  BY <1>1, <1>2, <1>3, AccountedStep, PTL DEF BlastSpec
=============================================================================
