-------------------------- MODULE MembershipProofs --------------------------
(* Proofs about Membership and Deck, for any number of requests in flight, *)
(* any operations and any failures.                                        *)
EXTENDS Membership, Deck, FiniteSetTheorems, TLAPS

\* A request that has not been mixed with another is alone.
Lone == \A p \in Procs : handler[p] # Idle /\ p \notin mixed =>
            \A q \in Procs : q # p => handler[q] = Idle

\* Unless something raced, whatever is in flight is alone.
Unmixed == past # "raced" => \A p \in Procs : handler[p] # Idle => p \notin mixed

\* An age in the index comes from a payload, a payload from a profile.
Rooted ==
    /\ content => profile # "none"
    /\ aged => content
    /\ \A p \in Procs : At(p, "sync.write") => (handler[p].aged => content) /\ status # "none"

\* What a sync has read still holds when it writes, if it is alone.
Current ==
    \A p \in Procs : At(p, "sync.write") /\ p \notin mixed =>
        (handler[p].visible = "visible" <=> Entitled) /\ (handler[p].aged <=> content)

Agrees == (index = "visible" <=> Entitled) /\ (aged <=> content)
Syncing(p) == handler[p].at \in {"sync.read", "sync.write"}

\* From one sync to the next only a request's own statement disturbs the index.
Settled ==
    past = "settled" =>
        /\ status # "none"
        /\ \A p \in Procs : handler[p].at \notin {"insertMember", "insertRows"}
        /\ (\A p \in Procs : ~Syncing(p)) => Agrees

\* ListedIsEntitled, without asking for the status.
Mended == past # "raced" /\ index = "visible" /\ aged => profile = "discoverable"

Inv == TypeOK /\ Lone /\ Unmixed /\ Rooted /\ Current /\ Mended /\ Settled

InFlight == [at : Steps, op : AllOps, visible : {"visible", "hidden"}, aged : BOOLEAN]

(* A step of a request concerns the request alone: it stays in flight, or  *)
(* becomes idle, and the others are what they were.                        *)
Moves(p) ==
    /\ handler[p] \in InFlight
    /\ handler'[p] \in Handlers
    /\ handler' = [handler EXCEPT ![p] = handler'[p]]
    /\ mixed' = mixed

LEMMA Idling == Idle \notin InFlight /\ Idle.at = "idle" /\ \A h \in InFlight : h.at \in Steps
BY DEF Idle, InFlight, Steps

LEMMA Flying ==
    ASSUME TypeOK, NEW p \in Procs, handler[p].at \in Steps
    PROVE  handler[p] \in InFlight
BY DEF TypeOK, Handlers, InFlight, Idle, Steps

LEMMA GoingOn ==
    ASSUME TypeOK, NEW p \in Procs, NEW s \in Steps, handler[p].at \in Steps, Goto(p, s), mixed' = mixed
    PROVE  Moves(p) /\ handler'[p] = [handler[p] EXCEPT !.at = s]
<1>1. handler[p] \in InFlight
  BY Flying
<1>2. [handler[p] EXCEPT !.at = s] \in InFlight
  BY <1>1 DEF InFlight
<1>3. handler'[p] = [handler[p] EXCEPT !.at = s]
  BY DEF Goto, TypeOK
<1> QED
  BY <1>1, <1>2, <1>3 DEF Moves, Goto, Handlers, InFlight

LEMMA Returning ==
    ASSUME TypeOK, NEW p \in Procs, handler[p].at \in Steps, Return(p), mixed' = mixed
    PROVE  Moves(p) /\ handler'[p] = Idle
BY Flying DEF Moves, Return, TypeOK, Handlers

(* What a move keeps, whatever becomes of the rows. *)
LEMMA MovesKeep ==
    ASSUME Inv, NEW p \in Procs, Moves(p), past' \in {"settled", "cut", "raced"},
           past' = "raced" \/ past # "raced" \/ (p \notin mixed /\ handler'[p] = Idle)
    PROVE  /\ handler' \in [Procs -> Handlers] /\ mixed' \subseteq Procs
           /\ Lone' /\ Unmixed'
           /\ \A q \in Procs : q # p => handler'[q] = handler[q]
<1>1. \A q \in Procs : q # p => handler'[q] = handler[q]
  BY DEF Inv, TypeOK, Moves
<1>2. handler' \in [Procs -> Handlers] /\ mixed' \subseteq Procs
  BY DEF Inv, TypeOK, Moves
<1>3. handler[p] # Idle
  BY Idling DEF Moves
<1>4. Lone'
  BY <1>1, <1>3 DEF Inv, Lone, Moves
<1>5. Unmixed'
  BY <1>1, <1>3 DEF Inv, Lone, Unmixed, Moves
<1> QED
  BY <1>1, <1>2, <1>4, <1>5

(* What is left to show of a step that leaves past alone. *)
LEMMA Rest ==
    ASSUME Inv, NEW p \in Procs, Moves(p), past' = past,
           status' \in {"none", "active", "paused", "deleted"},
           profile' \in {"none", "discoverable", "hidden", "paused"},
           {content', aged', sanctioned'} \subseteq BOOLEAN,
           index' \in {"none", "visible", "hidden"},
           Rooted', Current', Mended', Settled'
    PROVE  Inv'
BY MovesKeep DEF Inv, TypeOK

(* ensureMember *)
LEMMA EnsureInductive ==
    ASSUME Inv, NEW p \in Procs, EnsureStep(p)
    PROVE  Inv'
<1>1. handler[p].at \in Steps /\ past' = past /\ mixed' = mixed
  BY DEF EnsureStep, GetMember, InsertMember, InsertRows, At, Steps, history
<1>2. Return(p) \/ \E s \in {"insertMember", "insertRows", "statement"} : Goto(p, s)
  BY DEF EnsureStep, GetMember, InsertMember, InsertRows, Ensured
<1>3. Moves(p) /\ handler'[p].at \notin {"sync.read", "sync.write"}
  <2>1. CASE Return(p)
    BY <1>1, <2>1, Returning, Idling DEF Inv
  <2>2. ASSUME NEW s \in {"insertMember", "insertRows", "statement"}, Goto(p, s)
        PROVE  Moves(p) /\ handler'[p].at = s
    <3>1. s \in Steps
      BY DEF Steps
    <3>2. Moves(p) /\ handler'[p] = [handler[p] EXCEPT !.at = s]
      BY <1>1, <2>2, <3>1, GoingOn DEF Inv
    <3> QED
      BY <3>2 DEF Moves, InFlight
  <2> QED
    BY <1>2, <2>1, <2>2
<1>4. \A q \in Procs : q # p => handler'[q] = handler[q]
  BY <1>3 DEF Inv, TypeOK, Moves
<1>5. /\ status' \in {"none", "active", "paused", "deleted"} /\ (status # "none" => status' = status)
      /\ profile' \in {"none", "discoverable", "hidden", "paused"} /\ (profile # "none" => profile' = profile)
      /\ content' = content /\ aged' = aged /\ sanctioned' = sanctioned
      /\ index' \in {"none", "visible", "hidden"} /\ (index # "none" => index' = index)
      /\ (index = "none" => index' # "visible")
  BY DEF Inv, TypeOK, EnsureStep, GetMember, InsertMember, InsertRows, rows
<1>6. {content', aged', sanctioned'} \subseteq BOOLEAN
  BY <1>5 DEF Inv, TypeOK
<1>7. Rooted'
  BY <1>3, <1>4, <1>5 DEF Inv, Rooted, At
<1>8. Current'
  <2> SUFFICES ASSUME NEW q \in Procs, At(q, "sync.write")', q \notin mixed'
               PROVE  FALSE
    BY DEF Current
  <2>1. q # p /\ handler[q] # Idle /\ q \notin mixed
    BY <1>1, <1>3, <1>4, Idling DEF At
  <2>2. handler[p] # Idle
    BY <1>3, Idling DEF Moves
  <2> QED
    BY <2>1, <2>2 DEF Inv, Lone
<1>9. Mended'
  BY <1>1, <1>5 DEF Inv, TypeOK, Rooted, Mended
<1>10. Settled'
  <2> SUFFICES ASSUME past = "settled" PROVE Settled'
    BY <1>1 DEF Settled
  <2>1. /\ status # "none" /\ (\A q \in Procs : handler[q].at \notin {"insertMember", "insertRows"})
        /\ ((\A q \in Procs : ~Syncing(q)) => Agrees)
    BY DEF Inv, Settled
  <2>2. GetMember(p)
    BY <2>1 DEF EnsureStep, InsertMember, InsertRows, At
  <2>3. UNCHANGED rows /\ ~Syncing(p)
    BY <2>2 DEF GetMember, Syncing, At
  <2>4. handler'[p].at \notin {"insertMember", "insertRows"}
    <3>1. Return(p) \/ Goto(p, "statement")
      BY <2>1, <2>2 DEF GetMember, Ensured
    <3>2. CASE Return(p)
      BY <1>1, <3>2, Returning, Idling DEF Inv
    <3>3. CASE Goto(p, "statement")
      <4>1. "statement" \in Steps
        BY DEF Steps
      <4>2. Moves(p) /\ handler'[p] = [handler[p] EXCEPT !.at = "statement"]
        BY <1>1, <3>3, <4>1, GoingOn DEF Inv
      <4> QED
        BY <4>2 DEF Moves, InFlight
    <3> QED
      BY <3>1, <3>2, <3>3
  <2>5. (\A q \in Procs : ~Syncing(q)') => \A q \in Procs : ~Syncing(q)
    BY <1>4, <2>3 DEF Syncing
  <2>6. Agrees' <=> Agrees
    BY <2>3 DEF Agrees, Entitled, rows
  <2> QED
    BY <1>4, <2>1, <2>3, <2>4, <2>5, <2>6 DEF Settled, rows
<1> QED
  BY <1>1, <1>3, <1>5, <1>6, <1>7, <1>8, <1>9, <1>10, Rest

(* Nothing else is at the write of a sync while a request stands elsewhere *)
(* and has not been mixed with it.                                         *)
LEMMA CurrentKept ==
    ASSUME Inv, NEW p \in Procs, Moves(p), ~At(p, "sync.write")'
    PROVE  Current'
<1> SUFFICES ASSUME NEW q \in Procs, At(q, "sync.write")', q \notin mixed'
             PROVE  FALSE
  BY DEF Current
<1>1. q # p /\ handler'[q] = handler[q] /\ mixed' = mixed
  BY DEF Inv, TypeOK, Moves
<1>2. handler[q] # Idle /\ q \notin mixed
  BY <1>1, Idling DEF At
<1>3. handler[p] # Idle
  BY Idling DEF Moves
<1> QED
  BY <1>1, <1>2, <1>3 DEF Inv, Lone

(* While nothing has raced and a request stands before its sync, no other  *)
(* request syncs.                                                          *)
LEMMA NobodySyncs ==
    ASSUME Inv, past = "settled", NEW p \in Procs, handler[p].at \in Steps, ~Syncing(p)
    PROVE  Agrees
<1>1. handler[p] # Idle
  BY Idling DEF Steps
<1>2. \A q \in Procs : q # p => handler[q] = Idle
  BY <1>1 DEF Inv, Unmixed, Lone
<1>3. \A q \in Procs : ~Syncing(q)
  BY <1>2, Idling DEF Syncing
<1> QED
  BY <1>3 DEF Inv, Settled

(* The statement that is the operation's own *)
LEMMA OwnInductive ==
    ASSUME Inv, NEW p \in Procs, OwnStep(p)
    PROVE  Inv'
<1>1. At(p, "statement") /\ past' = past /\ mixed' = mixed
  BY DEF OwnStep, UpdateProfileContent, UpdateLocation, SetVisibility, PauseMember, ResumeMember,
       DeleteMember, history
<1>2. \/ Goto(p, "sync.read")
      \/ DeleteMember(p) /\ Return(p)
  BY DEF OwnStep, UpdateProfileContent, UpdateLocation, SetVisibility, PauseMember, ResumeMember,
       DeleteMember
<1>3. /\ Moves(p)
      /\ \/ handler'[p].at = "sync.read"
         \/ DeleteMember(p) /\ handler'[p].at = "idle"
  <2>1. CASE Goto(p, "sync.read")
    <3>1. "sync.read" \in Steps /\ handler[p].at \in Steps
      BY <1>1 DEF Steps, At
    <3>2. Moves(p) /\ handler'[p] = [handler[p] EXCEPT !.at = "sync.read"]
      BY <1>1, <2>1, <3>1, GoingOn DEF Inv
    <3> QED
      BY <3>2 DEF Moves, InFlight
  <2>2. CASE DeleteMember(p) /\ Return(p)
    BY <1>1, <2>2, Returning, Idling DEF Inv, At, Steps
  <2> QED
    BY <1>2, <2>1, <2>2
<1>4. \A q \in Procs : q # p => handler'[q] = handler[q]
  BY <1>3 DEF Inv, TypeOK, Moves
<1>5. /\ status' \in {"none", "active", "paused", "deleted"} /\ (status # "none" => status' # "none")
      /\ profile' \in {"none", "discoverable", "hidden", "paused"} /\ (profile # "none" => profile' # "none")
      /\ (content => content') /\ content' \in BOOLEAN /\ (content' => profile' # "none" \/ content)
      /\ aged' = aged /\ sanctioned' = sanctioned
      /\ index' \in {"none", "visible", "hidden"}
  <2> USE DEF Inv, TypeOK, Set
  <2>1. CASE UpdateProfileContent(p)
    BY <2>1 DEF UpdateProfileContent
  <2>2. CASE UpdateLocation(p)
    BY <2>2 DEF UpdateLocation
  <2>3. CASE SetVisibility(p)
    BY <2>3 DEF SetVisibility
  <2>4. CASE PauseMember(p)
    BY <2>4 DEF PauseMember
  <2>5. CASE ResumeMember(p)
    BY <2>5 DEF ResumeMember
  <2>6. CASE DeleteMember(p)
    BY <2>6 DEF DeleteMember
  <2> QED
    BY <2>1, <2>2, <2>3, <2>4, <2>5, <2>6 DEF OwnStep
<1>6. {content', aged', sanctioned'} \subseteq BOOLEAN
  BY <1>5 DEF Inv, TypeOK
<1>7. Rooted'
  <2>1. ~At(p, "sync.write")'
    BY <1>3 DEF At
  <2> QED
    BY <1>4, <1>5, <2>1 DEF Inv, Rooted, At
<1>8. Current'
  BY <1>3, CurrentKept DEF At
<1>9. Mended'
  <2> SUFFICES ASSUME past # "raced", index' = "visible", aged PROVE profile' = "discoverable"
    BY <1>1, <1>5 DEF Mended
  <2>1. profile # "none" /\ (index = "visible" => profile = "discoverable")
    BY DEF Inv, TypeOK, Rooted, Mended
  <2> QED
    BY <2>1 DEF OwnStep, UpdateProfileContent, UpdateLocation, SetVisibility, PauseMember,
         ResumeMember, DeleteMember, Set
<1>10. Settled'
  <2> SUFFICES ASSUME past = "settled" PROVE Settled'
    BY <1>1 DEF Settled
  <2>1. /\ status # "none" /\ (\A q \in Procs : handler[q].at \notin {"insertMember", "insertRows"})
    BY DEF Inv, Settled
  <2>2. handler'[p].at \notin {"insertMember", "insertRows"}
    BY <1>3
  <2>3. ASSUME ~Syncing(p)' PROVE Agrees'
    <3>1. DeleteMember(p)
      BY <1>3, <2>3 DEF Syncing
    <3>2. Agrees
      BY <1>1, NobodySyncs DEF At, Steps, Syncing
    <3> QED
      BY <1>5, <2>1, <3>1, <3>2 DEF DeleteMember, Agrees, Entitled, Set
  <2> QED
    BY <1>4, <1>5, <2>1, <2>2, <2>3 DEF Settled
<1> QED
  BY <1>1, <1>3, <1>5, <1>6, <1>7, <1>8, <1>9, <1>10, Rest

(* syncDiscoveryIndex reads *)
LEMMA SyncReadInductive ==
    ASSUME Inv, NEW p \in Procs, SyncRead(p)
    PROVE  Inv'
<1> DEFINE seen == IF Entitled THEN "visible" ELSE "hidden"
           h == [handler[p] EXCEPT !.at = "sync.write", !.aged = content, !.visible = seen]
<1>1. At(p, "sync.read") /\ past' = past /\ mixed' = mixed /\ UNCHANGED rows /\ handler[p] \in InFlight
  BY Flying DEF SyncRead, history, At, Steps, Inv
<1>2. h \in InFlight /\ h.at = "sync.write" /\ h.aged = content /\ h.visible = seen
  BY <1>1 DEF InFlight, Steps, Inv, TypeOK
<1>3. /\ Moves(p)
      /\ \/ status = "none" /\ handler'[p].at = "idle"
         \/ status # "none" /\ handler'[p] = h
  <2>1. CASE status = "none"
    BY <1>1, <2>1, Returning, Idling DEF SyncRead, Inv, At, Steps
  <2>2. CASE status # "none"
    <3>1. handler' = [handler EXCEPT ![p] = h]
      BY <2>2 DEF SyncRead
    <3> QED
      BY <1>1, <1>2, <2>2, <3>1 DEF Moves, Handlers, InFlight, Inv, TypeOK
  <2> QED
    BY <2>1, <2>2
<1>4. \A q \in Procs : q # p => handler'[q] = handler[q]
  BY <1>3 DEF Inv, TypeOK, Moves
<1>5. Rooted'
  BY <1>1, <1>2, <1>3, <1>4 DEF Inv, Rooted, At, rows
<1>6. Current'
  <2>1. CASE handler'[p].at = "idle"
    BY <1>3, <2>1, CurrentKept DEF At
  <2>2. CASE handler'[p] = h
    <3> SUFFICES ASSUME NEW q \in Procs, At(q, "sync.write")', q \notin mixed'
                 PROVE  /\ (handler'[q].visible = "visible" <=> Entitled')
                        /\ (handler'[q].aged <=> content')
      BY DEF Current
    <3>1. handler[p] # Idle /\ mixed' = mixed
      BY <1>1, Idling
    <3>2. q = p
      BY <1>4, <3>1, Idling DEF Inv, Lone, At
    <3>3. handler'[q].visible = seen /\ handler'[q].aged = content
      BY <1>2, <2>2, <3>2
    <3>4. seen = "visible" <=> Entitled
      OBVIOUS
    <3>5. handler'[q].visible = "visible" <=> Entitled'
      BY <1>1, <3>3, <3>4 DEF rows, Entitled
    <3> HIDE DEF h, seen
    <3> QED
      BY <1>1, <3>3, <3>5 DEF rows
  <2> QED
    BY <1>3, <2>1, <2>2
<1>7. Mended'
  BY <1>1 DEF Inv, Mended, rows
<1>8. Settled'
  <2> SUFFICES ASSUME past = "settled" PROVE Settled'
    BY <1>1 DEF Settled
  <2>1. /\ status # "none" /\ (\A q \in Procs : handler[q].at \notin {"insertMember", "insertRows"})
    BY DEF Inv, Settled
  <2>2. handler'[p].at = "sync.write"
    BY <1>2, <1>3, <2>1
  <2> QED
    BY <1>1, <1>4, <2>1, <2>2 DEF Settled, Syncing, rows
<1> QED
  BY <1>1, <1>3, <1>5, <1>6, <1>7, <1>8, Rest DEF rows, Inv, TypeOK

(* syncDiscoveryIndex writes *)
LEMMA SyncWriteInductive ==
    ASSUME Inv, NEW p \in Procs, SyncWrite(p)
    PROVE  Inv'
<1>1. At(p, "sync.write") /\ mixed' = mixed /\ handler[p] \in InFlight /\ handler[p].at \in Steps
  BY Flying DEF SyncWrite, At, Steps, Inv
<1>2. Moves(p) /\ handler'[p] = Idle
  BY <1>1, Returning DEF SyncWrite, Inv
<1>3. \A q \in Procs : q # p => handler'[q] = handler[q]
  BY <1>2 DEF Inv, TypeOK, Moves
<1>4. /\ index' \in {"none", "visible", "hidden"} /\ index' = handler[p].visible
      /\ aged' \in BOOLEAN /\ aged' = handler[p].aged
      /\ status' = status /\ profile' = profile /\ content' = content /\ sanctioned' = sanctioned
  BY <1>1 DEF SyncWrite, InFlight
<1>5. /\ past' = IF p \in mixed THEN past ELSE "settled"
      /\ p \in mixed => past = "raced"
  BY <1>1, Idling DEF SyncWrite, Inv, Unmixed, TypeOK
<1>6. Rooted'
  BY <1>1, <1>2, <1>3, <1>4, Idling DEF Inv, Rooted, At
<1>7. Current'
  BY <1>2, CurrentKept, Idling DEF At
<1>8. ASSUME p \notin mixed PROVE Agrees'
  <2>1. (handler[p].visible = "visible" <=> Entitled) /\ (handler[p].aged <=> content)
    BY <1>1, <1>8 DEF Inv, Current
  <2> QED
    BY <1>4, <2>1 DEF Agrees, Entitled
<1>9. Mended'
  BY <1>4, <1>5, <1>8 DEF Mended, Agrees, Entitled
<1>10. Settled'
  <2>1. ASSUME p \notin mixed PROVE \A q \in Procs : handler'[q] = Idle
    BY <1>1, <1>2, <1>3, <2>1, Idling DEF Inv, Lone
  <2> QED
    BY <1>1, <1>4, <1>5, <1>8, <2>1, Idling DEF Settled, Inv, Rooted
<1>11. past' \in {"settled", "cut", "raced"}
  BY <1>5 DEF Inv, TypeOK
<1>12. Lone' /\ Unmixed' /\ handler' \in [Procs -> Handlers] /\ mixed' \subseteq Procs
  BY <1>2, <1>5, <1>11, MovesKeep
<1> QED
  BY <1>4, <1>6, <1>7, <1>9, <1>10, <1>11, <1>12 DEF Inv, TypeOK

(* The statements of a sanction leave the other rows alone. *)
LEMMA SanctionInductive ==
    ASSUME Inv, NEW p \in Procs, SanctionInsert(p) \/ SanctionHide(p)
    PROVE  Inv'
<1>1. /\ handler[p].at \in Steps /\ ~Syncing(p) /\ past' = past /\ mixed' = mixed
      /\ status' = status /\ profile' = profile /\ content' = content /\ aged' = aged /\ index' = index
      /\ sanctioned' \in BOOLEAN
  BY DEF SanctionInsert, SanctionHide, At, Steps, Syncing, rows, history, Inv, TypeOK
<1>2. /\ Moves(p) /\ ~Syncing(p)'
      /\ handler'[p].at \notin {"insertMember", "insertRows"}
  <2>1. CASE Return(p)
    BY <1>1, <2>1, Returning, Idling DEF Inv, Syncing
  <2>2. CASE Goto(p, "sanction.hide")
    <3>1. "sanction.hide" \in Steps
      BY DEF Steps
    <3>2. Moves(p) /\ handler'[p] = [handler[p] EXCEPT !.at = "sanction.hide"]
      BY <1>1, <2>2, <3>1, GoingOn DEF Inv
    <3> QED
      BY <3>2 DEF Moves, InFlight, Syncing
  <2> QED
    BY <2>1, <2>2 DEF SanctionInsert, SanctionHide
<1>3. \A q \in Procs : q # p => handler'[q] = handler[q]
  BY <1>2 DEF Inv, TypeOK, Moves
<1>4. Rooted'
  BY <1>1, <1>2, <1>3 DEF Inv, Rooted, At, Syncing
<1>5. Current'
  BY <1>2, CurrentKept DEF At, Syncing
<1>6. Mended'
  BY <1>1 DEF Inv, Mended
<1>7. Settled'
  <2> SUFFICES ASSUME past = "settled" PROVE Settled'
    BY <1>1 DEF Settled
  <2>1. Agrees
    BY <1>1, NobodySyncs
  <2>2. Agrees'
    BY <1>1, <2>1 DEF Agrees, Entitled
  <2> QED
    BY <1>1, <1>2, <1>3, <2>2 DEF Settled, Inv
<1> QED
  BY <1>1, <1>2, <1>4, <1>5, <1>6, <1>7, Rest DEF Inv, TypeOK

(* A request that is cut off *)
LEMMA AbortInductive ==
    ASSUME Inv, NEW p \in Procs, Abort(p)
    PROVE  Inv'
<1>1. handler[p] \in InFlight /\ handler[p].at \in Steps /\ mixed' = mixed /\ UNCHANGED rows
  BY DEF Abort, Inv, TypeOK, Handlers, InFlight
<1>2. Moves(p) /\ handler'[p] = Idle
  BY <1>1, Returning DEF Abort, Inv
<1>3. \A q \in Procs : q # p => handler'[q] = handler[q]
  BY <1>2 DEF Inv, TypeOK, Moves
<1>4. past' = (IF past = "settled" THEN "cut" ELSE past) /\ past' \in {"cut", "raced"}
  BY DEF Abort, Inv, TypeOK
<1>5. Rooted'
  BY <1>1, <1>2, <1>3, Idling DEF Inv, Rooted, At, rows
<1>6. Current'
  BY <1>2, CurrentKept, Idling DEF At
<1>7. Mended' /\ Settled'
  BY <1>1, <1>4 DEF Inv, Mended, Settled, rows
<1>8. Lone' /\ Unmixed' /\ handler' \in [Procs -> Handlers] /\ mixed' \subseteq Procs
  BY <1>2, <1>4, MovesKeep
<1> QED
  BY <1>1, <1>4, <1>5, <1>6, <1>7, <1>8 DEF Inv, TypeOK, rows

(* A request that arrives: alone, or mixed with whatever is in flight *)
LEMMA BeginInductive ==
    ASSUME Inv, MembershipOps, NEW p \in Procs, NEW op \in Ops, Begin(p, op)
    PROVE  Inv'
<1> DEFINE others == {q \in Procs : handler[q] # Idle}
<1>1. /\ handler[p] = Idle /\ UNCHANGED rows
      /\ mixed' = (IF others = {} THEN {} ELSE mixed \cup others \cup {p})
      /\ past' = (IF others = {} THEN past ELSE "raced")
  BY DEF Begin
<1>2. /\ handler'[p] \in InFlight /\ ~Syncing(p)'
      /\ handler'[p].at \notin {"insertMember", "insertRows"}
      /\ \A q \in Procs : q # p => handler'[q] = handler[q]
      /\ handler' \in [Procs -> Handlers]
  BY MembershipOps DEF Begin, Inv, TypeOK, Handlers, InFlight, Steps, Syncing
<1>3. Lone' /\ Unmixed'
  <2>1. CASE others = {}
    BY <1>1, <1>2, <2>1 DEF Lone, Unmixed
  <2>2. CASE others # {}
    BY <1>1, <1>2, <2>2 DEF Lone, Unmixed
  <2> QED
    BY <2>1, <2>2
<1>4. Rooted'
  BY <1>1, <1>2 DEF Inv, Rooted, At, Syncing, rows
<1>5. Current'
  <2> SUFFICES ASSUME NEW q \in Procs, At(q, "sync.write")', q \notin mixed'
               PROVE  FALSE
    BY DEF Current
  <2>1. handler[q] # Idle
    BY <1>2, Idling DEF At, Syncing
  <2> QED
    BY <1>1, <2>1
<1>6. Mended'
  BY <1>1 DEF Inv, Mended, rows
<1>7. Settled'
  <2> SUFFICES ASSUME past = "settled", others = {} PROVE Settled'
    BY <1>1 DEF Settled
  <2>1. \A q \in Procs : ~Syncing(q)
    BY Idling DEF Syncing
  <2>2. status # "none" /\ Agrees
    BY <2>1 DEF Inv, Settled
  <2>3. status' # "none" /\ Agrees'
    BY <1>1, <2>2 DEF Agrees, Entitled, rows
  <2> QED
    BY <1>2, <2>3, Idling DEF Settled
<1>8. mixed' \subseteq Procs /\ past' \in {"settled", "cut", "raced"}
  BY <1>1 DEF Inv, TypeOK
<1> QED
  BY <1>1, <1>2, <1>3, <1>4, <1>5, <1>6, <1>7, <1>8 DEF Inv, TypeOK, rows

(* The invariant is inductive. *)
LEMMA InvInductive ==
    ASSUME Inv, MembershipOps, [Next]_vars
    PROVE  Inv'
<1>1. CASE UNCHANGED vars
  BY <1>1 DEF vars, rows, history, Inv, TypeOK, Lone, Unmixed, Rooted, Current, Mended, Settled, Agrees,
       Entitled, Syncing, At
<1>2. ASSUME NEW p \in Procs, Step(p) PROVE Inv'
  BY <1>2, EnsureInductive, OwnInductive, SyncReadInductive, SyncWriteInductive, SanctionInductive
     DEF Step
<1> QED
  BY <1>1, <1>2, AbortInductive, BeginInductive DEF Next

LEMMA InvInitial == Init => Inv
BY Idling, Zenon DEF Init, Inv, TypeOK, Handlers, Lone, Unmixed, Rooted, Current, Mended, Settled, At, Idle

(* The rows keep their shapes, whatever is raced or cut off. *)
THEOREM TypeCorrect == Spec => []TypeOK
<1>1. Inv => TypeOK
  BY DEF Inv
<1> QED
  BY <1>1, InvInitial, InvInductive, MembershipOps, PTL DEF Spec

(* While requests of a member run one at a time, and again as soon as one  *)
(* has synced on its own, nobody is dealt a member who is not discoverable *)
(* (syncDiscoveryIndex and the batches of storage/d1/membership.ts).       *)
THEOREM ListedAreEntitled == Spec => []ListedIsEntitled
<1>1. Inv => ListedIsEntitled
  BY DEF Inv, Mended, ListedIsEntitled, Listed
<1> QED
  BY <1>1, InvInitial, InvInductive, MembershipOps, PTL DEF Spec

(* The index agrees with the member and the profile it repeats, once a     *)
(* request has synced on its own and until another is cut off or raced.    *)
THEOREM IndexIsRight == Spec => []IndexAgrees
<1>1. Inv => IndexAgrees
  BY Idling DEF Inv, Settled, IndexAgrees, Agrees, Syncing
<1> QED
  BY <1>1, InvInitial, InvInductive, MembershipOps, PTL DEF Spec

(* Nothing but a pause or a resume lifts the tombstone of a deleted        *)
(* account: the insert of ensureMember ignores a row that exists, however  *)
(* long ago the handler read that there was none.                          *)
THEOREM TombstoneStands == Spec => TombstoneHolds
<1>1. [Next]_vars =>
        [\/ status = "deleted" => status' = "deleted"
         \/ \E p \in Procs : PauseMember(p) \/ ResumeMember(p)]_vars
  <2> SUFFICES ASSUME Next, status = "deleted",
                      ~\E p \in Procs : PauseMember(p) \/ ResumeMember(p)
               PROVE  status' = "deleted"
    BY DEF vars
  <2> QED
    BY DEF Next, Step, EnsureStep, OwnStep, Begin, Abort, GetMember, InsertMember, InsertRows,
         UpdateProfileContent, UpdateLocation, SetVisibility, DeleteMember, SyncRead, SyncWrite,
         SanctionInsert, SanctionHide, Set, rows
<1> QED
  BY <1>1, PTL DEF Spec, TombstoneHolds

-----------------------------------------------------------------------------
(* Deck: what a step does to the requests in flight *)

InService(c) == call[c] # Free
Unmoved(c) == call'[c] = call[c]
\* Something happened that the request does not know of.
Aside(c) == call'[c] = IF call[c] = Free THEN Free ELSE [call[c] EXCEPT !.alone = FALSE]

LEMMA RequestOf ==
    ASSUME DeckTypeOK, NEW c \in Calls, InService(c)
    PROVE  call[c] \in DeckRequests
BY DEF DeckTypeOK, InService

LEMMA InServiceAt ==
    ASSUME NEW c \in Calls, NEW step \in {"drop", "load", "search", "persist", "answer"}, Is(c, step)
    PROVE  InService(c)
BY DEF Is, InService, Free

LEMMA ApartEffect ==
    ASSUME DeckTypeOK, NEW c \in Calls, NEW h \in {Free} \cup DeckRequests, call' = [Apart(c) EXCEPT ![c] = h]
    PROVE  /\ call' \in [Calls -> {Free} \cup DeckRequests]
           /\ call'[c] = h
           /\ \A d \in Calls \ {c} : Aside(d)
<1>1. \A d \in Calls : call[d] # Free => [call[d] EXCEPT !.alone = FALSE] \in DeckRequests
  BY DEF DeckTypeOK, DeckRequests
<1> QED BY <1>1 DEF Apart, Aside, DeckTypeOK

LEMMA NobodyEffect ==
    ASSUME DeckTypeOK, call' = Nobody
    PROVE  /\ call' \in [Calls -> {Free} \cup DeckRequests]
           /\ \A d \in Calls : Aside(d)
<1>1. \A d \in Calls : call[d] # Free => [call[d] EXCEPT !.alone = FALSE] \in DeckRequests
  BY DEF DeckTypeOK, DeckRequests
<1> QED BY <1>1 DEF Nobody, Aside, DeckTypeOK

LEMMA OwnEffect ==
    ASSUME DeckTypeOK, NEW c \in Calls, NEW h \in {Free} \cup DeckRequests, call' = [call EXCEPT ![c] = h]
    PROVE  /\ call' \in [Calls -> {Free} \cup DeckRequests]
           /\ call'[c] = h
           /\ \A d \in Calls \ {c} : Unmoved(d)
BY DEF DeckTypeOK, Unmoved

LEMMA DropEffect ==
    ASSUME DeckTypeOK, NEW c \in Calls, DropDeck(c) \/ Answer(c) \/ Abandon(c)
    PROVE  /\ call' \in [Calls -> {Free} \cup DeckRequests]
           /\ call'[c] = Free
           /\ \A d \in Calls \ {c} : Aside(d) \/ (Unmoved(d) /\ UNCHANGED tables)
<1>1. CASE DropDeck(c)
  BY <1>1, ApartEffect DEF DropDeck
<1>2. CASE Answer(c) \/ Abandon(c)
  BY <1>2, OwnEffect DEF Answer, Abandon
<1> QED BY <1>1, <1>2

LEMMA BeginEffect ==
    ASSUME DeckTypeOK, NEW c \in Calls,
           (\E f \in Filters : UpsertPrefs(c, f)) \/ (\E from \in Cursors : Ask(c, from))
    PROVE  /\ call' \in [Calls -> {Free} \cup DeckRequests]
           /\ call[c] = Free /\ call'[c].at \in {"drop", "load"} /\ call'[c].fresh = {}
           /\ \A d \in Calls \ {c} : Aside(d) \/ (Unmoved(d) /\ UNCHANGED tables)
<1> USE DeckSizes
<1>0. NoCursor \in Cursors /\ time \in Moments /\ filter \in Filters /\ cursor \in Cursors
  BY DEF NoCursor, Cursors, DeckTypeOK
<1>1. ASSUME NEW f \in Filters, UpsertPrefs(c, f)
      PROVE  /\ call' \in [Calls -> {Free} \cup DeckRequests]
             /\ call[c] = Free /\ call'[c].at \in {"drop", "load"} /\ call'[c].fresh = {}
             /\ \A d \in Calls \ {c} : Aside(d)
  <2> DEFINE h == [at |-> "drop", now |-> time, filter |-> f, from |-> NoCursor, cards |-> {},
          fresh |-> {}, last |-> NoCursor, tier |-> 1, alone |-> FALSE]
  <2>1. h \in DeckRequests
    BY <1>0 DEF DeckRequests
  <2>2. call' = [Apart(c) EXCEPT ![c] = h]
    BY <1>1 DEF UpsertPrefs
  <2>3. h.at = "drop" /\ h.fresh = {}
    OBVIOUS
  <2> HIDE DEF h
  <2> QED BY <1>1, <2>1, <2>2, <2>3, ApartEffect DEF UpsertPrefs
<1>2. ASSUME NEW from \in Cursors, Ask(c, from)
      PROVE  /\ call' \in [Calls -> {Free} \cup DeckRequests]
             /\ call[c] = Free /\ call'[c].at \in {"drop", "load"} /\ call'[c].fresh = {}
             /\ \A d \in Calls \ {c} : Unmoved(d) /\ UNCHANGED tables
  <2> DEFINE h == [at |-> "load", now |-> time, filter |-> filter, from |-> from, cards |-> {},
          fresh |-> {}, last |-> NoCursor, tier |-> 1, alone |-> TRUE]
  <2>1. h \in DeckRequests
    BY <1>0 DEF DeckRequests
  <2>2. call' = [call EXCEPT ![c] = h]
    BY <1>2 DEF Ask
  <2>3. h.at = "load" /\ h.fresh = {}
    OBVIOUS
  <2> HIDE DEF h
  <2> QED BY <1>2, <2>1, <2>2, <2>3, OwnEffect DEF Ask
<1> QED BY <1>1, <1>2

LEMMA LoadEffect ==
    ASSUME DeckTypeOK, NEW c \in Calls, LoadGrants(c)
    PROVE  /\ call' \in [Calls -> {Free} \cup DeckRequests]
           /\ \A d \in Calls \ {c} : Unmoved(d) /\ UNCHANGED tables
           /\ \E first \in SUBSET Candidates, end \in Cursors :
                /\ Leading(c, first)
                /\ call'[c] = [call[c] EXCEPT
                     !.at = IF Cardinality(first) < Page THEN "search" ELSE "answer",
                     !.cards = {[who |-> w, since |-> grants[w]] : w \in first},
                     !.last = end]
<1> USE DeckSizes
<1>1. call[c] \in DeckRequests
  BY RequestOf, InServiceAt DEF LoadGrants
<1>2. PICK first \in SUBSET Candidates, end \in Cursors :
         /\ Leading(c, first)
         /\ call' = [call EXCEPT
                     ![c].at = IF Cardinality(first) < Page THEN "search" ELSE "answer",
                     ![c].cards = {[who |-> w, since |-> grants[w]] : w \in first},
                     ![c].last = end]
  BY DEF LoadGrants
<1> DEFINE h == [call[c] EXCEPT
                     !.at = IF Cardinality(first) < Page THEN "search" ELSE "answer",
                     !.cards = {[who |-> w, since |-> grants[w]] : w \in first},
                     !.last = end]
<1>3. \A w \in first : grants[w] \in Moments
  <2>1. \A w \in first : w \in Candidates /\ grants[w] # 0
    BY <1>2 DEF Leading, Eligible, InForce, Unexpired
  <2>2. \A w \in Candidates : grants[w] \in 0..LastTime
    BY DEF DeckTypeOK
  <2> QED BY <2>1, <2>2 DEF Moments
<1>4. {[who |-> w, since |-> grants[w]] : w \in first} \subseteq Cards
  BY <1>3 DEF Cards
<1>5. h \in DeckRequests
  BY <1>1, <1>4 DEF DeckRequests
<1>6. call' = [call EXCEPT ![c] = h]
  BY <1>2 DEF DeckTypeOK
<1>7. /\ call' \in [Calls -> {Free} \cup DeckRequests]
      /\ call'[c] = h
      /\ \A d \in Calls \ {c} : Unmoved(d)
  <2> HIDE DEF h
  <2> QED BY <1>5, <1>6, OwnEffect
<1> QED BY <1>2, <1>7 DEF LoadGrants

LEMMA SearchEffect ==
    ASSUME DeckTypeOK, NEW c \in Calls, Search(c)
    PROVE  LET r     == call[c]
               fresh == r.fresh \cup Found(r)
               more  == Cardinality(fresh) < Wanted(r) /\ Widens(r)
           IN /\ call' \in [Calls -> {Free} \cup DeckRequests]
              /\ \A d \in Calls \ {c} : Unmoved(d) /\ UNCHANGED tables
              /\ \E end \in Cursors :
                   call'[c] = [r EXCEPT
                     !.at = IF more THEN "search" ELSE IF fresh = {} THEN "answer" ELSE "persist",
                     !.tier = IF more THEN r.tier + 1 ELSE r.tier,
                     !.fresh = fresh, !.last = end]
<1> USE DeckSizes
<1> DEFINE r     == call[c]
           fresh == r.fresh \cup Found(r)
           more  == Cardinality(fresh) < Wanted(r) /\ Widens(r)
<1>1. r \in DeckRequests
  BY RequestOf, InServiceAt DEF Search
<1>2. r.fresh \cup (Found(r) \ r.fresh) = fresh
  OBVIOUS
<1>3. PICK end \in Cursors :
         call' = [call EXCEPT
                     ![c].at = IF more THEN "search" ELSE IF fresh = {} THEN "answer" ELSE "persist",
                     ![c].tier = IF more THEN @ + 1 ELSE @,
                     ![c].fresh = fresh, ![c].last = end]
  BY <1>2 DEF Search
<1> DEFINE h == [r EXCEPT
                     !.at = IF more THEN "search" ELSE IF fresh = {} THEN "answer" ELSE "persist",
                     !.tier = IF more THEN r.tier + 1 ELSE r.tier,
                     !.fresh = fresh, !.last = end]
<1>4. fresh \subseteq Candidates
  BY <1>1 DEF DeckRequests, Found, InCell
<1>5. more => r.tier + 1 \in 1..3
  BY <1>1 DEF Widens, DeckRequests
<1>6. h \in DeckRequests
  <2> HIDE DEF more, fresh
  <2> QED BY <1>1, <1>4, <1>5 DEF DeckRequests
<1>7. call' = [call EXCEPT ![c] = h]
  <2> HIDE DEF more, fresh
  <2> QED BY <1>3 DEF DeckTypeOK
<1>8. /\ call' \in [Calls -> {Free} \cup DeckRequests]
      /\ call'[c] = h
      /\ \A d \in Calls \ {c} : Unmoved(d)
  <2> HIDE DEF h
  <2> QED BY <1>6, <1>7, OwnEffect
<1>9. UNCHANGED tables
  BY DEF Search
<1> QED BY <1>3, <1>8, <1>9

LEMMA PersistEffect ==
    ASSUME DeckTypeOK, NEW c \in Calls, Persist(c)
    PROVE  LET r == call[c] IN
              /\ call' \in [Calls -> {Free} \cup DeckRequests]
              /\ \A d \in Calls \ {c} : Aside(d)
              /\ call'[c] = [r EXCEPT !.at = "answer",
                   !.cards = r.cards \cup {[who |-> w, since |-> r.now] : w \in r.fresh}]
<1> DEFINE r == call[c]
           h == [r EXCEPT !.at = "answer",
                   !.cards = r.cards \cup {[who |-> w, since |-> r.now] : w \in r.fresh}]
<1>1. r \in DeckRequests
  BY RequestOf, InServiceAt DEF Persist
<1>2. {[who |-> w, since |-> r.now] : w \in r.fresh} \subseteq Cards
  BY <1>1 DEF Cards, DeckRequests
<1>3. h \in DeckRequests
  BY <1>1, <1>2 DEF DeckRequests
<1>4. call' = [Apart(c) EXCEPT ![c] = h]
  <2>1. Apart(c)[c] = call[c] /\ Apart(c) \in [Calls -> {Apart(c)[d] : d \in Calls}]
    BY DEF Apart
  <2>2. call' = [Apart(c) EXCEPT ![c] = [Apart(c)[c] EXCEPT !.at = "answer",
           !.cards = Apart(c)[c].cards \cup {[who |-> w, since |-> r.now] : w \in r.fresh}]]
    BY DEF Persist
  <2> QED BY <2>1, <2>2
<1> HIDE DEF h
<1>5. /\ call' \in [Calls -> {Free} \cup DeckRequests]
      /\ call'[c] = h
      /\ \A d \in Calls \ {c} : Aside(d)
  BY <1>3, <1>4, ApartEffect
<1> QED BY <1>5 DEF h

(* Every step keeps the tables and the requests well typed. *)
LEMMA DeckTypeInductive == DeckTypeOK /\ [DeckNext]_deckVars => DeckTypeOK'
<1> SUFFICES ASSUME DeckTypeOK, [DeckNext]_deckVars PROVE DeckTypeOK'
  OBVIOUS
<1> USE DeckSizes
<1>1. ASSUME NEW c \in Calls, CallStep(c) PROVE DeckTypeOK'
  <2>1. ASSUME NEW f \in Filters, UpsertPrefs(c, f) PROVE DeckTypeOK'
    <3>1. call' \in [Calls -> {Free} \cup DeckRequests]
      BY <2>1, BeginEffect
    <3> QED BY <2>1, <3>1 DEF UpsertPrefs, DeckTypeOK
  <2>2. ASSUME NEW from \in Cursors, Ask(c, from) PROVE DeckTypeOK'
    <3>1. call' \in [Calls -> {Free} \cup DeckRequests]
      BY <2>2, BeginEffect
    <3> QED BY <2>2, <3>1 DEF Ask, tables, DeckTypeOK
  <2>3. CASE DropDeck(c)
    <3>1. call' \in [Calls -> {Free} \cup DeckRequests]
      BY <2>3, DropEffect
    <3> QED BY <2>3, <3>1 DEF DropDeck, DeckTypeOK
  <2>4. CASE LoadGrants(c)
    <3>1. call' \in [Calls -> {Free} \cup DeckRequests]
      BY <2>4, LoadEffect
    <3> QED BY <2>4, <3>1 DEF LoadGrants, tables, DeckTypeOK
  <2>5. CASE Search(c)
    <3>1. call' \in [Calls -> {Free} \cup DeckRequests]
      BY <2>5, SearchEffect
    <3> QED BY <2>5, <3>1 DEF Search, tables, DeckTypeOK
  <2>6. CASE Persist(c)
    <3>1. call' \in [Calls -> {Free} \cup DeckRequests]
      BY <2>6, PersistEffect
    <3>2. call[c].now \in 0..LastTime
      BY <2>6, RequestOf, InServiceAt DEF Persist, DeckRequests, Moments
    <3> QED BY <2>6, <3>1, <3>2 DEF Persist, DeckTypeOK
  <2>7. CASE Answer(c)
    <3>1. call' \in [Calls -> {Free} \cup DeckRequests]
      BY <2>7, DropEffect
    <3>2. call[c].last \in Cursors /\ NoCursor \in Cursors
      BY <2>7, RequestOf, InServiceAt DEF Answer, DeckRequests, NoCursor, Cursors
    <3> QED BY <2>7, <3>1, <3>2 DEF Answer, tables, DeckTypeOK
  <2>8. CASE Abandon(c)
    <3>1. call' \in [Calls -> {Free} \cup DeckRequests]
      BY <2>8, DropEffect
    <3> QED BY <2>8, <3>1 DEF Abandon, tables, DeckTypeOK
  <2> QED BY <1>1, <2>1, <2>2, <2>3, <2>4, <2>5, <2>6, <2>7, <2>8 DEF CallStep
<1>2. ASSUME NEW w \in Candidates, UseGrant(w) \/ PurgeLedger(w) PROVE DeckTypeOK'
  <2>1. call' \in [Calls -> {Free} \cup DeckRequests]
    BY <1>2, NobodyEffect DEF UseGrant, PurgeLedger
  <2> QED BY <1>2, <2>1 DEF UseGrant, PurgeLedger, DeckTypeOK
<1>3. ASSUME NEW w \in Movers, NEW s \in {"listed", "hidden", "away"}, Move(w, s) PROVE DeckTypeOK'
  <2>1. call' \in [Calls -> {Free} \cup DeckRequests]
    BY <1>3, NobodyEffect DEF Move
  <2> QED BY <1>3, <2>1 DEF Move, DeckTypeOK
<1>4. CASE Pass
  BY <1>4 DEF Pass, tables, DeckTypeOK, Moments
<1>5. CASE UNCHANGED deckVars
  BY <1>5 DEF deckVars, tables, DeckTypeOK
<1> QED BY <1>1, <1>2, <1>3, <1>4, <1>5 DEF DeckNext

LEMMA DeckInitialType == DeckInit => DeckTypeOK
<1> SUFFICES ASSUME DeckInit PROVE DeckTypeOK
  OBVIOUS
<1>1. 1 \in Moments
  BY DeckSizes DEF Moments
<1> QED BY <1>1, DeckSizes DEF DeckInit, DeckTypeOK, NoCursor, Cursors

(* The shapes of the deck's tables and requests, for any candidates, cells, *)
(* page, preferences and requests in flight.                                *)
THEOREM DeckTypeCorrect == DeckSpec => []DeckTypeOK
BY DeckInitialType, DeckTypeInductive, PTL DEF DeckSpec

-----------------------------------------------------------------------------
(* A face is dealt once by every request at most: whoever holds it, having *)
(* found it unseen, may still deal it, and once it is seen nobody else     *)
(* finds it.                                                               *)
Holds(c, w) == InService(c) /\ call[c].at \in {"load", "search", "persist"} /\ w \in call[c].fresh
Holders(w) == {c \in Calls : Holds(c, w)}
Counted(w) ==
    /\ seenAt[w] = 0 => deals[w] = 0
    /\ deals[w] + Cardinality(Holders(w)) <= Cardinality(Calls)

LEMMA HoldersFinite ==
    ASSUME NEW w
    PROVE  /\ IsFiniteSet(Holders(w)) /\ Cardinality(Holders(w)) \in Nat
           /\ Cardinality(Holders(w)) <= Cardinality(Calls) /\ Cardinality(Calls) \in Nat
BY DeckSizes, FS_Subset, FS_CardinalityType DEF Holders

LEMMA HoldersFinitePrime ==
    ASSUME NEW w
    PROVE  /\ IsFiniteSet(Holders(w)') /\ Cardinality(Holders(w)') \in Nat
           /\ Cardinality(Holders(w)') <= Cardinality(Calls)
BY DeckSizes, FS_Subset, FS_CardinalityType DEF Holders

LEMMA OthersHold ==
    ASSUME DeckTypeOK, NEW d \in Calls, Unmoved(d) \/ Aside(d), NEW w, Holds(d, w)'
    PROVE  Holds(d, w)
<1>1. CASE Unmoved(d)
  BY <1>1 DEF Unmoved, Holds, InService
<1>2. CASE Aside(d)
  <2>1. InService(d) /\ call'[d] = [call[d] EXCEPT !.alone = FALSE]
    BY <1>2 DEF Aside, Holds, InService
  <2>2. call[d] \in DeckRequests
    BY <2>1, RequestOf
  <2>3. call'[d].at = call[d].at /\ call'[d].fresh = call[d].fresh
    BY <2>1, <2>2 DEF DeckRequests
  <2> QED BY <2>1, <2>3 DEF Holds
<1> QED BY <1>1, <1>2

LEMMA StaysCounted ==
    ASSUME DeckTypeOK, NEW w \in Candidates, Counted(w), \A d \in Calls : Holds(d, w)' => Holds(d, w),
           deals'[w] = deals[w], seenAt'[w] = 0 => seenAt[w] = 0
    PROVE  Counted(w)'
<1>1. Holders(w)' \in SUBSET Holders(w)
  BY DEF Holders
<1>2. Cardinality(Holders(w)') <= Cardinality(Holders(w))
  BY <1>1, HoldersFinite, FS_Subset
<1>3. deals[w] \in Nat
  BY DEF DeckTypeOK
<1> QED BY <1>2, <1>3, HoldersFinite, HoldersFinitePrime DEF Counted

LEMMA StartsCounted ==
    ASSUME NEW w \in Candidates, deals'[w] = 0
    PROVE  Counted(w)'
BY HoldersFinite, HoldersFinitePrime DEF Counted

LEMMA CountedInductive ==
    ASSUME DeckTypeOK, [DeckNext]_deckVars, NEW w \in Candidates, Counted(w)
    PROVE  Counted(w)'
<1>1. ASSUME NEW c \in Calls, \A d \in Calls \ {c} : Unmoved(d) \/ Aside(d), ~Holds(c, w)',
             UNCHANGED <<deals, seenAt>>
      PROVE  Counted(w)'
  <2>1. \A d \in Calls : Holds(d, w)' => Holds(d, w)
    BY <1>1, OthersHold
  <2> QED BY <1>1, <2>1, StaysCounted
<1>2. ASSUME \A d \in Calls : Unmoved(d) \/ Aside(d), UNCHANGED <<deals, seenAt>>
      PROVE  Counted(w)'
  BY <1>2, OthersHold, StaysCounted
<1>3. ASSUME NEW c \in Calls,
             (\E f \in Filters : UpsertPrefs(c, f)) \/ (\E from \in Cursors : Ask(c, from))
      PROVE  Counted(w)'
  <2>1. ~Holds(c, w)' /\ \A d \in Calls \ {c} : Unmoved(d) \/ Aside(d)
    BY <1>3, BeginEffect DEF Holds
  <2>2. UNCHANGED <<deals, seenAt>>
    BY <1>3 DEF UpsertPrefs, Ask, tables
  <2> QED BY <1>1, <2>1, <2>2
<1>4. ASSUME NEW c \in Calls, DropDeck(c) \/ Answer(c) \/ Abandon(c) PROVE Counted(w)'
  <2>1. ~Holds(c, w)' /\ \A d \in Calls \ {c} : Unmoved(d) \/ Aside(d)
    BY <1>4, DropEffect DEF Holds, InService
  <2>2. UNCHANGED <<deals, seenAt>>
    BY <1>4 DEF DropDeck, Answer, Abandon, tables
  <2> QED BY <1>1, <2>1, <2>2
<1>5. ASSUME NEW c \in Calls, LoadGrants(c) PROVE Counted(w)'
  <2>1. UNCHANGED <<deals, seenAt>> /\ \A d \in Calls \ {c} : Unmoved(d)
    BY <1>5, LoadEffect DEF LoadGrants, tables
  <2>2. call[c] \in DeckRequests
    BY <1>5, RequestOf, InServiceAt DEF LoadGrants
  <2>3. call'[c].fresh = call[c].fresh
    <3>1. PICK first \in SUBSET Candidates, end \in Cursors :
             call'[c] = [call[c] EXCEPT
                     !.at = IF Cardinality(first) < Page THEN "search" ELSE "answer",
                     !.cards = {[who |-> v, since |-> grants[v]] : v \in first},
                     !.last = end]
      BY <1>5, LoadEffect
    <3> QED BY <2>2, <3>1 DEF DeckRequests
  <2>4. Holds(c, w)' => Holds(c, w)
    BY <1>5, <2>3, InServiceAt DEF Holds, LoadGrants, Is
  <2>5. \A d \in Calls : Holds(d, w)' => Holds(d, w)
    BY <2>1, <2>4, OthersHold
  <2> QED BY <2>1, <2>5, StaysCounted
<1>6. ASSUME NEW c \in Calls, Search(c) PROVE Counted(w)'
  <2>1. UNCHANGED <<deals, seenAt>>
    BY <1>6 DEF Search, tables
  <2>2. CASE seenAt[w] = 0
    BY <2>1, <2>2, StartsCounted DEF Counted
  <2>3. CASE seenAt[w] # 0
    <3>1. w \notin Found(call[c])
      BY <2>3 DEF Found, InCell
    <3>2. call'[c].fresh = call[c].fresh \cup Found(call[c]) /\ \A d \in Calls \ {c} : Unmoved(d)
      <4>1. call[c] \in DeckRequests
        BY <1>6, RequestOf, InServiceAt DEF Search
      <4> DEFINE fresh == call[c].fresh \cup Found(call[c])
                 more  == Cardinality(fresh) < Wanted(call[c]) /\ Widens(call[c])
      <4>2. PICK end \in Cursors : call'[c] = [call[c] EXCEPT
                     !.at = IF more THEN "search" ELSE IF fresh = {} THEN "answer" ELSE "persist",
                     !.tier = IF more THEN call[c].tier + 1 ELSE call[c].tier,
                     !.fresh = fresh, !.last = end]
        BY <1>6, SearchEffect
      <4> QED BY <1>6, <4>1, <4>2, SearchEffect DEF DeckRequests
    <3>3. Holds(c, w)' => Holds(c, w)
      BY <1>6, <3>1, <3>2, InServiceAt DEF Holds, Search, Is
    <3>4. \A d \in Calls : Holds(d, w)' => Holds(d, w)
      BY <3>2, <3>3, OthersHold
    <3> QED BY <2>1, <3>4, StaysCounted
  <2> QED BY <2>2, <2>3
<1>7. ASSUME NEW c \in Calls, Persist(c) PROVE Counted(w)'
  <2>1. /\ call[c] \in DeckRequests /\ ~Holds(c, w)'
        /\ \A d \in Calls \ {c} : Aside(d)
    <3>1. call[c] \in DeckRequests
      BY <1>7, RequestOf, InServiceAt DEF Persist
    <3>2. call'[c].at = "answer"
      <4>1. PICK k : call'[c] = [call[c] EXCEPT !.at = "answer", !.cards = k]
        BY <1>7, PersistEffect
      <4> QED BY <3>1, <4>1 DEF DeckRequests
    <3> QED BY <1>7, <3>1, <3>2, PersistEffect DEF Holds
  <2>2. \A d \in Calls : Holds(d, w)' => Holds(d, w) /\ d # c
    BY <2>1, OthersHold
  <2>3. call[c].now # 0 /\ w \in Candidates /\ deals[w] \in Nat
    BY <2>1 DEF DeckRequests, Moments, DeckTypeOK
  <2>4. CASE w \in call[c].fresh
    <3>1. deals'[w] = deals[w] + 1 /\ seenAt'[w] # 0
      BY <1>7, <2>3, <2>4 DEF Persist
    <3>2. c \in Holders(w)
      BY <1>7, <2>4, InServiceAt DEF Holders, Holds, Persist, Is
    <3>3. Holders(w)' \in SUBSET (Holders(w) \ {c})
      BY <2>2 DEF Holders
    <3>4. IsFiniteSet(Holders(w) \ {c}) /\ Cardinality(Holders(w) \ {c}) = Cardinality(Holders(w)) - 1
      BY <3>2, HoldersFinite, FS_RemoveElement
    <3>5. Cardinality(Holders(w)') <= Cardinality(Holders(w)) - 1
      BY <3>3, <3>4, FS_Subset
    <3> QED BY <2>3, <3>1, <3>5, HoldersFinite, HoldersFinitePrime DEF Counted
  <2>5. CASE w \notin call[c].fresh
    <3>1. deals'[w] = deals[w] /\ seenAt'[w] = seenAt[w]
      BY <1>7, <2>3, <2>5 DEF Persist
    <3> QED BY <2>2, <3>1, StaysCounted
  <2> QED BY <2>4, <2>5
<1>8. ASSUME NEW v \in Candidates, UseGrant(v) \/ PurgeLedger(v) PROVE Counted(w)'
  <2>1. \A d \in Calls : Aside(d)
    BY <1>8, NobodyEffect DEF UseGrant, PurgeLedger
  <2>2. CASE UseGrant(v)
    BY <1>2, <2>1, <2>2 DEF UseGrant
  <2>3. CASE PurgeLedger(v) /\ w = v
    BY <2>3, StartsCounted DEF PurgeLedger, DeckTypeOK
  <2>4. CASE PurgeLedger(v) /\ w # v
    <3>1. deals'[w] = deals[w] /\ seenAt'[w] = seenAt[w]
      BY <2>4 DEF PurgeLedger, DeckTypeOK
    <3> QED BY <2>1, <3>1, OthersHold, StaysCounted
  <2> QED BY <1>8, <2>2, <2>3, <2>4
<1>9. ASSUME NEW v \in Movers, NEW s \in {"listed", "hidden", "away"}, Move(v, s) PROVE Counted(w)'
  BY <1>2, <1>9, NobodyEffect DEF Move
<1>10. CASE Pass \/ UNCHANGED deckVars
  BY <1>2, <1>10 DEF Pass, deckVars, tables, Unmoved
<1> QED BY <1>3, <1>4, <1>5, <1>6, <1>7, <1>8, <1>9, <1>10 DEF DeckNext, CallStep

(* Nobody is dealt more often than there are requests in flight, until the *)
(* ledger forgets, for any number of requests, candidates and any lives of *)
(* grants and of the ledger.                                               *)
THEOREM DealtOnceHolds == DeckSpec => []DealtOnce
<1> DEFINE Counts == DeckTypeOK /\ \A w \in Candidates : Counted(w)
<1>1. DeckInit => Counts
  <2> SUFFICES ASSUME DeckInit, NEW w \in Candidates PROVE Counted(w)
    BY DeckInitialType
  <2>1. Holders(w) = {}
    BY DEF DeckInit, Holders, Holds, InService
  <2> QED BY <2>1, FS_EmptySet, HoldersFinite DEF DeckInit, Counted
<1>2. Counts /\ [DeckNext]_deckVars => Counts'
  BY DeckTypeInductive, CountedInductive
<1>3. Counts => DealtOnce
  BY HoldersFinite DEF Counted, DealtOnce, DeckTypeOK
<1> QED BY <1>1, <1>2, <1>3, PTL DEF DeckSpec

-----------------------------------------------------------------------------
(* What a request has put together, while nothing happened that it does    *)
(* not know of: valid tokens only, all of them on a first page, and, if    *)
(* there is room, everybody but those who live farther away than someone   *)
(* it found.                                                               *)
Tokens(S) == {[who |-> w, since |-> grants[w]] : w \in S}
Valid(c) == {w \in Candidates : InForce(w, call[c].now)}
Fitting(c) == {w \in Candidates : standing[w] = "listed" /\ w \in call[c].filter.who
                                  /\ seenAt[w] = 0 /\ w \notin Valid(c)}
Farther(c, w) == \E v \in call[c].fresh : Cell[v] < Cell[w]

Blank(c) == call[c].fresh = {} /\ call[c].tier = 1
Honest(c) ==
    /\ call[c].cards \subseteq Tokens(Valid(c))
    /\ call[c].from = NoCursor => call[c].cards = Tokens(Valid(c))
    /\ Cardinality(call[c].cards) < Page
    /\ call[c].fresh \cap Valid(c) = {}
Nearest(c) ==
    /\ \A v \in call[c].fresh : Cell[v] < call[c].tier
    /\ Cardinality(call[c].fresh) < Wanted(call[c]) =>
         \A w \in Fitting(c) \ call[c].fresh : Cell[w] >= call[c].tier \/ Farther(c, w)
Reached(c) ==
    Cardinality(call[c].fresh) < Wanted(call[c]) =>
         \A w \in Fitting(c) \ call[c].fresh : Cell[w] > call[c].filter.reach \/ Farther(c, w)
Whole(c) ==
    FirstPage(c) => call[c].cards = Tokens(Valid(c))
Near(c) ==
    Quiet(c) /\ Cardinality(call[c].cards) < Page => \A w \in Remaining(c) : Farther(c, w)

Collects(c) ==
    /\ Is(c, "load") => Blank(c)
    /\ Is(c, "search") /\ call[c].alone => Honest(c) /\ Nearest(c)
    /\ Is(c, "persist") /\ call[c].alone => Honest(c) /\ Reached(c)
    /\ Whole(c) /\ Near(c)

(* Cards are as many as the people on them. *)
LEMMA SizeOfTokens ==
    ASSUME NEW S \in SUBSET Candidates, NEW g
    PROVE  /\ IsFiniteSet({[who |-> w, since |-> g[w]] : w \in S})
           /\ Cardinality({[who |-> w, since |-> g[w]] : w \in S}) = Cardinality(S)
           /\ IsFiniteSet(S) /\ Cardinality(S) \in Nat
<1> DEFINE T == {[who |-> w, since |-> g[w]] : w \in S}
           f == [w \in S |-> [who |-> w, since |-> g[w]]]
<1>1. IsFiniteSet(S) /\ Cardinality(S) \in Nat
  BY DeckSizes, FS_Subset, FS_CardinalityType
<1>2. f \in Bijection(S, T)
  <2>1. f \in [S -> T] /\ \A t \in T : \E w \in S : f[w] = t
    OBVIOUS
  <2>2. \A v, w \in S : f[v] = f[w] => v = w
    <3> SUFFICES ASSUME NEW v \in S, NEW w \in S, f[v] = f[w] PROVE v = w
      OBVIOUS
    <3>1. f[v].who = v /\ f[w].who = w
      OBVIOUS
    <3> QED BY <3>1
  <2> HIDE DEF f, T
  <2> QED BY <2>1, <2>2 DEF Bijection, Injection, Surjection, IsInjective
<1>3. ExistsBijection(S, T)
  BY <1>2 DEF ExistsBijection
<1> QED BY <1>1, <1>3, FS_Bijection

LEMMA SizeOfCards ==
    ASSUME NEW S \in SUBSET Candidates
    PROVE  IsFiniteSet(Tokens(S)) /\ Cardinality(Tokens(S)) = Cardinality(S)
<1>1. PICK g : g = grants
  OBVIOUS
<1>2. Tokens(S) = {[who |-> w, since |-> g[w]] : w \in S}
  BY <1>1 DEF Tokens
<1> QED BY <1>2, SizeOfTokens

TokensAt(g, S) == {[who |-> w, since |-> g[w]] : w \in S}

LEMMA SizeOfTokensAt ==
    ASSUME NEW S \in SUBSET Candidates, NEW g
    PROVE  Cardinality(TokensAt(g, S)) = Cardinality(S)
  BY SizeOfTokens DEF TokensAt

(* The rows that LIMIT lets through are all of the tier, or as many as     *)
(* asked for.                                                              *)
LEMMA LimitFills ==
    ASSUME NEW r \in DeckRequests, Wanted(r) \in Int, Cardinality(r.fresh) \in Nat
    PROVE  /\ Found(r) \in SUBSET InCell(r)
           /\ Found(r) = InCell(r) \/ Cardinality(Found(r)) >= Wanted(r) - Cardinality(r.fresh)
<1> DEFINE k == Wanted(r) - Cardinality(r.fresh)
           Before(w) == {v \in InCell(r) : Rank[v] < Rank[w]}
           R == {ss \in Nat \X Nat : ss[1] < ss[2]}
<1>1. Found(r) = {w \in InCell(r) : Cardinality(Before(w)) < k}
  BY DEF Found
<1>2. InCell(r) \in SUBSET Candidates
  BY DEF InCell
<1>3. \A w \in Candidates : Rank[w] \in Nat
  BY DeckSizes
<1>4. \A w \in Candidates : IsFiniteSet(Before(w)) /\ Cardinality(Before(w)) \in Nat
  <2> TAKE w \in Candidates
  <2>1. Before(w) \in SUBSET Candidates
    BY <1>2
  <2> HIDE DEF Before
  <2> QED BY <2>1, DeckSizes, FS_Subset, FS_CardinalityType
<1>5. k \in Int
  OBVIOUS
<1>6. IsFiniteSet(Found(r)) /\ Cardinality(Found(r)) \in Nat
  <2>1. Found(r) \in SUBSET Candidates
    BY <1>1, <1>2
  <2> QED BY <2>1, DeckSizes, FS_Subset, FS_CardinalityType
<1> HIDE DEF k
<1>7. ASSUME Found(r) # InCell(r) PROVE Cardinality(Found(r)) >= k
  <2> DEFINE T == {Rank[w] : w \in InCell(r) \ Found(r)}
  <2>1. T \in SUBSET Nat /\ T # {}
    BY <1>1, <1>2, <1>3, <1>7
  <2>2. IsWellFoundedOn(R, Nat)
    BY NatLessThanWellFounded DEF OpToRel
  <2>3. PICK m \in T : \A n \in T : ~(<<n, m>> \in R)
    <3> HIDE DEF R, T
    <3> QED BY <2>1, <2>2, WFMin
  <2>4. PICK w \in InCell(r) \ Found(r) : m = Rank[w]
    OBVIOUS
  <2>5. Before(w) \in SUBSET Found(r)
    <3> SUFFICES ASSUME NEW v \in InCell(r), Rank[v] < Rank[w], v \notin Found(r) PROVE FALSE
      OBVIOUS
    <3>1. Rank[v] \in T /\ Rank[v] \in Nat /\ Rank[w] \in Nat
      BY <1>2, <1>3
    <3>2. <<Rank[v], m>> \in R
      BY <2>4, <3>1
    <3> QED BY <2>3, <3>1, <3>2
  <2>6. Cardinality(Before(w)) <= Cardinality(Found(r))
    <3> HIDE DEF Before
    <3> QED BY <1>6, <2>5, FS_Subset
  <2>7. ~(Cardinality(Before(w)) < k) /\ Cardinality(Before(w)) \in Nat
    <3> HIDE DEF Before
    <3> QED BY <1>1, <1>2, <1>4, <2>4
  <2> HIDE DEF Before
  <2> QED BY <1>5, <1>6, <2>6, <2>7
<1> QED BY <1>1, <1>7 DEF k

(* The other requests *)
LEMMA UnmovedCollects ==
    ASSUME NEW d \in Calls, Collects(d), Unmoved(d), UNCHANGED tables
    PROVE  Collects(d)'
BY DEF Collects, Unmoved, tables, Is, Blank, Honest, Nearest, Reached, Whole, Near, Tokens, Valid, Fitting,
       Farther, FirstPage, Quiet, Remaining, InForce

LEMMA AsideCollects ==
    ASSUME DeckTypeOK, NEW d \in Calls, Collects(d), Aside(d)
    PROVE  Collects(d)'
<1>1. CASE call[d] = Free
  <2>1. call'[d].at = "free"
    BY <1>1 DEF Aside, Free
  <2> QED BY <2>1 DEF Collects, Is, Whole, Near, FirstPage, Quiet
<1>2. CASE call[d] # Free
  <2>1. call[d] \in DeckRequests
    BY <1>2, RequestOf DEF InService
  <2>2. /\ ~call'[d].alone /\ call'[d].at = call[d].at
        /\ call'[d].fresh = call[d].fresh /\ call'[d].tier = call[d].tier
    BY <1>2, <2>1 DEF Aside, DeckRequests
  <2> QED BY <2>2 DEF Collects, Is, Whole, Near, FirstPage, Quiet, Blank
<1> QED BY <1>1, <1>2

LEMMA FreeCollects ==
    ASSUME NEW c \in Calls, call'[c].at \in {"free", "drop"} \/ (call'[c].at = "load" /\ Blank(c)')
    PROVE  Collects(c)'
BY DEF Collects, Is, Whole, Near, FirstPage, Quiet

(* What is granted already *)
LEMMA LoadCollects ==
    ASSUME DeckTypeOK, NEW c \in Calls, Collects(c), LoadGrants(c)
    PROVE  Collects(c)'
<1> USE DeckSizes
<1>1. call[c] \in DeckRequests /\ Blank(c)
  BY RequestOf, InServiceAt DEF LoadGrants, Collects
<1>2. PICK first \in SUBSET Candidates, end \in Cursors :
         /\ Leading(c, first)
         /\ call'[c] = [call[c] EXCEPT
                     !.at = IF Cardinality(first) < Page THEN "search" ELSE "answer",
                     !.cards = {[who |-> w, since |-> grants[w]] : w \in first},
                     !.last = end]
  BY LoadEffect
<1>3. /\ call'[c].at = IF Cardinality(first) < Page THEN "search" ELSE "answer"
      /\ call'[c].cards = Tokens(first)
      /\ call'[c].fresh = {} /\ call'[c].tier = 1
      /\ call'[c].from = call[c].from /\ call'[c].now = call[c].now
  BY <1>1, <1>2 DEF DeckRequests, Blank, Tokens
<1>4. UNCHANGED <<filter, standing, grants, seenAt>>
  BY DEF LoadGrants, tables
<1>5. /\ Cardinality(Tokens(first)) = Cardinality(first) /\ Cardinality(first) \in Nat
  BY SizeOfTokens DEF Tokens
<1>6. Valid(c)' = Valid(c) /\ \A S : Tokens(S)' = Tokens(S)
  BY <1>3, <1>4 DEF Valid, InForce, Tokens
<1>7. Eligible(c) \subseteq Valid(c) /\ (call[c].from = NoCursor => Eligible(c) = Valid(c))
  BY DEF Eligible, Valid
<1>8. first \subseteq Eligible(c) /\ (Cardinality(first) < Page => first = Eligible(c))
  BY <1>2 DEF Leading
<1>9. CASE Cardinality(first) < Page
  <2>1. call'[c].at = "search"
    BY <1>3, <1>9
  <2>2. Honest(c)'
    <3>1. call'[c].cards \subseteq Tokens(Valid(c))
      BY <1>3, <1>7, <1>8 DEF Tokens
    <3>2. call'[c].from = NoCursor => call'[c].cards = Tokens(Valid(c))
      BY <1>3, <1>7, <1>8, <1>9
    <3> QED BY <1>3, <1>5, <1>6, <1>9, <3>1, <3>2 DEF Honest
  <2>3. Nearest(c)'
    <3>1. \A w \in Candidates : Cell[w] >= 1
      OBVIOUS
    <3> QED BY <1>3, <3>1 DEF Nearest, Fitting
  <2> QED BY <2>1, <2>2, <2>3 DEF Collects, Is, Whole, Near, FirstPage, Quiet
<1>10. CASE ~(Cardinality(first) < Page)
  BY <1>3, <1>5, <1>10 DEF Collects, Is, Whole, Near, FirstPage, Quiet
<1> QED BY <1>9, <1>10

(* One tier more *)
LEMMA SearchCollects ==
    ASSUME DeckTypeOK, NEW c \in Calls, Collects(c), Search(c)
    PROVE  Collects(c)'
<1> USE DeckSizes
<1> DEFINE r     == call[c]
           fresh == r.fresh \cup Found(r)
           more  == Cardinality(fresh) < Wanted(r) /\ Widens(r)
<1>1. r \in DeckRequests /\ r.at = "search"
  BY RequestOf, InServiceAt DEF Search, Is
<1>2. PICK end \in Cursors :
           call'[c] = [r EXCEPT
                     !.at = IF more THEN "search" ELSE IF fresh = {} THEN "answer" ELSE "persist",
                     !.tier = IF more THEN r.tier + 1 ELSE r.tier,
                     !.fresh = fresh, !.last = end]
  BY SearchEffect
<1>3. PICK all : all = fresh
  OBVIOUS
<1>4. PICK on \in BOOLEAN : on <=> more
  OBVIOUS
<1>5. /\ call'[c].at = IF on THEN "search" ELSE IF all = {} THEN "answer" ELSE "persist"
      /\ call'[c].tier = IF on THEN r.tier + 1 ELSE r.tier
      /\ call'[c].fresh = all /\ call'[c].cards = r.cards /\ call'[c].filter = r.filter
      /\ call'[c].from = r.from /\ call'[c].now = r.now /\ call'[c].alone = r.alone
  <2> HIDE DEF more, fresh
  <2> QED BY <1>1, <1>2, <1>3, <1>4 DEF DeckRequests
<1>6. UNCHANGED <<filter, standing, grants, seenAt>>
  BY DEF Search, tables
<1>7. CASE ~r.alone
  BY <1>5, <1>7 DEF Collects, Is, Whole, Near, FirstPage, Quiet
<1>8. CASE r.alone
  <2>1. Honest(c) /\ Nearest(c)
    BY <1>1, <1>8 DEF Collects, Is
  <2>2. Valid(c)' = Valid(c) /\ Fitting(c)' = Fitting(c) /\ Tokens(Valid(c))' = Tokens(Valid(c))
    BY <1>5, <1>6 DEF Valid, Fitting, InForce, Tokens
  <2>3. /\ r.tier \in 1..3 /\ r.filter.reach \in 1..3
        /\ \A w \in Candidates : Cell[w] \in 1..3
    BY <1>1 DEF DeckRequests
  <2>4. /\ Found(r) \in SUBSET InCell(r)
        /\ Found(r) = InCell(r) \/ Cardinality(Found(r)) >= Wanted(r) - Cardinality(r.fresh)
        /\ {r.fresh, Found(r), all} \subseteq SUBSET Candidates
        /\ \A S \in SUBSET Candidates : IsFiniteSet(S) /\ Cardinality(S) \in Nat
        /\ Wanted(r) \in Int /\ Wanted(r) > 0
    <3>1. \A S \in SUBSET Candidates : IsFiniteSet(S) /\ Cardinality(S) \in Nat
      BY FS_Subset, FS_CardinalityType
    <3>2. r.fresh \in SUBSET Candidates /\ Found(r) \in SUBSET Candidates
      BY <1>1 DEF DeckRequests, Found, InCell
    <3>3. Wanted(r) \in Int /\ Wanted(r) > 0
      <4>1. r.cards \subseteq Tokens(Valid(c))
        BY <2>1 DEF Honest
      <4>2. Valid(c) \in SUBSET Candidates
        BY DEF Valid
      <4>3. IsFiniteSet(Tokens(Valid(c)))
        BY <4>2, SizeOfCards
      <4>4. Cardinality(r.cards) \in Nat
        BY <4>1, <4>3, FS_Subset, FS_CardinalityType
      <4> QED BY <2>1, <4>4 DEF Wanted, Honest
    <3> QED BY <1>1, <1>3, <3>1, <3>2, <3>3, LimitFills
  <2>5. Cardinality(r.fresh) <= Cardinality(all)
    <3>1. r.fresh \in SUBSET all /\ IsFiniteSet(all)
      BY <1>3, <2>4
    <3> QED BY <3>1, FS_Subset
  <2>6. InCell(r) = {w \in Fitting(c) : Cell[w] <= r.tier}
    BY DEF InCell, Fitting, Valid
  <2>7. ASSUME Cardinality(all) < Wanted(r), NEW w \in Fitting(c) \ all
        PROVE  Cell[w] > r.tier \/ \E v \in all : Cell[v] < Cell[w]
    <3>1. Cell[w] >= r.tier \/ \E v \in all : Cell[v] < Cell[w]
      BY <1>3, <2>1, <2>4, <2>5, <2>7 DEF Nearest, Farther
    <3>2. CASE Cell[w] = r.tier
      <4>1. w \in InCell(r) /\ w \notin Found(r)
        BY <1>3, <2>3, <2>6, <2>7, <3>2
      <4>2. Cardinality(Found(r)) >= Wanted(r) - Cardinality(r.fresh)
        BY <2>4, <4>1
      <4>3. r.fresh # {}
        <5> SUFFICES ASSUME r.fresh = {} PROVE FALSE
          OBVIOUS
        <5>1. all = Found(r) /\ Cardinality(r.fresh) = 0 /\ Cardinality(all) \in Nat
          BY <1>3, <2>4, FS_EmptySet
        <5> QED BY <2>4, <2>7, <4>2, <5>1
      <4> QED BY <1>3, <2>1, <3>2, <4>3 DEF Nearest
    <3>3. Cell[w] \in 1..3
      BY <2>3, <2>7 DEF Fitting
    <3> QED BY <2>3, <3>1, <3>2, <3>3
  <2>8. \A v \in all : Cell[v] <= r.tier
    <3> TAKE v \in all
    <3>1. v \in Candidates
      BY <2>4
    <3>2. CASE v \in r.fresh
      BY <2>1, <2>3, <3>1, <3>2 DEF Nearest
    <3>3. CASE v \in Found(r)
      BY <2>4, <2>6, <3>3
    <3> QED BY <1>3, <3>2, <3>3
  <2>9. Honest(c)'
    <3>1. all \cap Valid(c) = {}
      BY <1>3, <2>1, <2>4, <2>6 DEF Honest, Fitting
    <3> QED BY <1>5, <2>1, <2>2, <3>1 DEF Honest
  <2>10. CASE on
    <3>1. Nearest(c)'
      <4>1. \A v \in all : Cell[v] < r.tier + 1
        <5> TAKE v \in all
        <5>1. v \in Candidates
          BY <2>4
        <5>2. Cell[v] \in Nat /\ r.tier \in Nat
          BY <2>3, <5>1
        <5> QED BY <2>8, <5>2
      <4>2. Cardinality(all) < Wanted(r) =>
              \A w \in Fitting(c) \ all : Cell[w] >= r.tier + 1 \/ \E v \in all : Cell[v] < Cell[w]
        BY <2>3, <2>7 DEF Fitting
      <4> QED BY <1>5, <2>2, <2>10, <4>1, <4>2 DEF Nearest, Farther, Wanted
    <3> QED BY <1>5, <2>9, <2>10, <3>1 DEF Collects, Is, Whole, Near, FirstPage, Quiet
  <2>11. CASE ~on
    <3>1. Cardinality(all) < Wanted(r) =>
            \A w \in Fitting(c) \ all : Cell[w] > r.filter.reach \/ \E v \in all : Cell[v] < Cell[w]
      <4>1. Cardinality(all) < Wanted(r) => ~(r.tier < r.filter.reach)
        BY <1>3, <1>4, <2>11 DEF Widens
      <4> QED BY <2>3, <2>7, <4>1 DEF Fitting
    <3>2. Reached(c)'
      BY <1>5, <2>2, <3>1 DEF Reached, Farther, Wanted
    <3>3. CASE all # {}
      BY <1>5, <2>9, <2>11, <3>2, <3>3 DEF Collects, Is, Whole, Near, FirstPage, Quiet
    <3>4. CASE all = {}
      <4>1. Whole(c)'
        BY <1>5, <2>9 DEF Whole, Honest, FirstPage
      <4>2. Cardinality(all) < Wanted(r)
        BY <2>4, <3>4, FS_EmptySet
      <4>3. \A w \in Remaining(c)' : w \in Fitting(c) /\ Cell[w] <= r.filter.reach
        BY <1>5, <1>6 DEF Remaining, Fits, Fitting, Valid, InForce
      <4>4. Near(c)'
        <5>1. \A w \in Remaining(c)' : Farther(c, w)'
          <6> TAKE w \in Remaining(c)'
          <6>0. w \in Fitting(c) \ all /\ Cell[w] <= r.filter.reach
            BY <3>4, <4>3
          <6>2. Cell[w] \in 1..3 /\ r.filter.reach \in 1..3
            BY <2>3, <6>0 DEF Fitting
          <6>1. \E v \in all : Cell[v] < Cell[w]
            BY <3>1, <4>2, <6>0, <6>2
          <6> QED BY <1>5, <6>1 DEF Farther
        <5> QED BY <5>1 DEF Near
      <4> QED BY <1>5, <2>11, <3>4, <4>1, <4>4 DEF Collects, Is
    <3> QED BY <3>3, <3>4
  <2> QED BY <2>10, <2>11
<1> QED BY <1>7, <1>8

(* The deck is written *)
LEMMA PersistCollects ==
    ASSUME DeckTypeOK, NEW c \in Calls, Collects(c), Persist(c)
    PROVE  Collects(c)'
<1> USE DeckSizes
<1> DEFINE r == call[c]
           h == [r EXCEPT !.at = "answer",
                   !.cards = r.cards \cup {[who |-> w, since |-> r.now] : w \in r.fresh}]
<1>1. r \in DeckRequests /\ r.at = "persist"
  BY RequestOf, InServiceAt DEF Persist, Is
<1>2. call'[c] = h
  BY PersistEffect
<1>3. PICK all : all = r.cards \cup {[who |-> w, since |-> r.now] : w \in r.fresh}
  OBVIOUS
<1>4. /\ call'[c].at = "answer" /\ call'[c].cards = all
      /\ call'[c].fresh = r.fresh /\ call'[c].filter = r.filter
      /\ call'[c].from = r.from /\ call'[c].now = r.now /\ call'[c].alone = r.alone
  BY <1>1, <1>2, <1>3 DEF DeckRequests
<1>5. CASE ~r.alone
  BY <1>4, <1>5 DEF Collects, Is, Whole, Near, FirstPage, Quiet
<1>6. CASE r.alone
  <2>1. Honest(c) /\ Reached(c)
    BY <1>1, <1>6 DEF Collects, Is
  <2>2. r.now \in Nat \ {0} /\ r.fresh \in SUBSET Candidates
    BY <1>1 DEF DeckRequests, Moments
  <2>3. grants' = [w \in Candidates |-> IF w \in r.fresh THEN r.now ELSE grants[w]]
    BY DEF Persist
  <2>4. \A w \in Candidates : seenAt'[w] = 0 => seenAt[w] = 0 /\ w \notin r.fresh
    BY <2>2 DEF Persist
  <2>5. Valid(c)' = Valid(c) \cup r.fresh
    <3>1. \A w \in r.fresh : w \in Valid(c)'
      BY <1>4, <2>2, <2>3 DEF Valid, InForce, Unexpired
    <3>2. \A w \in Candidates \ r.fresh : w \in Valid(c)' <=> w \in Valid(c)
      BY <1>4, <2>3 DEF Valid, InForce
    <3>3. Valid(c) \subseteq Candidates /\ Valid(c)' \subseteq Candidates
      BY DEF Valid
    <3> QED BY <2>1, <2>2, <3>1, <3>2, <3>3 DEF Honest
  <2>6. PICK X \in SUBSET Valid(c) : r.cards = Tokens(X) /\ (r.from = NoCursor => X = Valid(c))
    <3>1. CASE r.from = NoCursor
      BY <2>1, <3>1 DEF Honest
    <3>2. CASE r.from # NoCursor
      <4> DEFINE Y == {w \in Valid(c) : [who |-> w, since |-> grants[w]] \in r.cards}
      <4>1. r.cards \subseteq {[who |-> w, since |-> grants[w]] : w \in Valid(c)}
        BY <2>1 DEF Honest, Tokens
      <4>2. r.cards = {[who |-> w, since |-> grants[w]] : w \in Y}
        <5>1. ASSUME NEW k \in r.cards PROVE k \in {[who |-> w, since |-> grants[w]] : w \in Y}
          <6>1. PICK w \in Valid(c) : k = [who |-> w, since |-> grants[w]]
            BY <4>1
          <6> QED BY <6>1
        <5>2. \A w \in Y : [who |-> w, since |-> grants[w]] \in r.cards
          OBVIOUS
        <5> QED BY <5>1, <5>2
      <4>3. Y \in SUBSET Valid(c)
        OBVIOUS
      <4> HIDE DEF Y
      <4> QED BY <3>2, <4>2, <4>3 DEF Tokens
    <3> QED BY <3>1, <3>2
  <2>7. X \in SUBSET Candidates /\ X \cap r.fresh = {}
    BY <2>1, <2>6 DEF Honest, Valid
  <2>8. all = {[who |-> w, since |-> grants'[w]] : w \in X \cup r.fresh}
    <3>1. \A w \in X : grants'[w] = grants[w]
      BY <2>3, <2>7
    <3>2. \A w \in r.fresh : grants'[w] = r.now
      BY <2>2, <2>3
    <3>3. {[who |-> w, since |-> grants'[w]] : w \in X} = Tokens(X)
      BY <3>1 DEF Tokens
    <3>4. {[who |-> w, since |-> grants'[w]] : w \in r.fresh} = {[who |-> w, since |-> r.now] : w \in r.fresh}
      BY <3>2
    <3> QED BY <1>3, <2>6, <3>3, <3>4
  <2>9. Cardinality(all) = Cardinality(r.cards) + Cardinality(r.fresh)
        /\ Cardinality(r.cards) \in Nat /\ Cardinality(r.fresh) \in Nat
    <3>1. X \cup r.fresh \in SUBSET Candidates
      BY <2>2, <2>7
    <3>2. Cardinality(all) = Cardinality(X \cup r.fresh)
      <4>1. PICK g : g = grants'
        OBVIOUS
      <4> PICK S \in SUBSET Candidates : S = X \cup r.fresh
        BY <3>1
      <4>2. all = TokensAt(g, S)
        BY <2>8, <4>1 DEF TokensAt
      <4> QED BY <4>2, SizeOfTokensAt
    <3>3. Cardinality(r.cards) = Cardinality(X)
      BY <2>6, <2>7, SizeOfCards
    <3>4. IsFiniteSet(X) /\ IsFiniteSet(r.fresh) /\ Cardinality(X) \in Nat /\ Cardinality(r.fresh) \in Nat
      BY <2>2, <2>7, SizeOfTokens
    <3>5. Cardinality(X \cup r.fresh) = Cardinality(X) + Cardinality(r.fresh) - 0
      BY <2>7, <3>4, FS_Union, FS_EmptySet
    <3> QED BY <3>2, <3>3, <3>4, <3>5
  <2>10. Whole(c)'
    <3>1. r.from = NoCursor => all = Tokens(Valid(c))'
      BY <2>5, <2>6, <2>8 DEF Tokens
    <3> QED BY <1>4, <3>1 DEF Whole, FirstPage
  <2>11. Near(c)'
    <3> SUFFICES ASSUME Cardinality(all) < Page, NEW w \in Remaining(c)' PROVE Farther(c, w)'
      BY <1>4 DEF Near
    <3>1. Cardinality(r.fresh) < Wanted(r)
      BY <2>9 DEF Wanted
    <3>2. w \in Candidates /\ standing'[w] = "listed" /\ seenAt'[w] = 0 /\ Fits(w, r.filter) /\ ~InForce(w, r.now)'
      BY <1>4 DEF Remaining
    <3>3. w \notin r.fresh /\ seenAt[w] = 0
      BY <2>4, <3>2
    <3>4. standing[w] = "listed" /\ w \notin Valid(c)
      <4>1. grants'[w] = grants[w] /\ standing' = standing
        BY <2>3, <3>2, <3>3 DEF Persist
      <4> QED BY <1>4, <3>2, <4>1 DEF Valid, InForce
    <3>5. w \in Fitting(c) \ r.fresh /\ Cell[w] <= r.filter.reach
      BY <3>2, <3>3, <3>4 DEF Fitting, Fits
    <3>6. Cell[w] \in Nat /\ r.filter.reach \in Nat
      <4>1. Cell[w] \in 1..3
        BY <3>2
      <4>2. r.filter.reach \in 1..3
        BY <1>1 DEF DeckRequests
      <4> QED BY <4>1, <4>2
    <3>7. Farther(c, w)
      BY <2>1, <3>1, <3>5, <3>6 DEF Reached
    <3> QED BY <1>4, <3>7 DEF Farther
  <2> QED BY <1>4, <2>10, <2>11 DEF Collects, Is
<1> QED BY <1>5, <1>6

LEMMA CollectsInductive ==
    ASSUME DeckTypeOK, [DeckNext]_deckVars, \A d \in Calls : Collects(d), NEW c \in Calls
    PROVE  Collects(c)'
<1>1. ASSUME Aside(c) \/ (Unmoved(c) /\ UNCHANGED tables) PROVE Collects(c)'
  BY <1>1, AsideCollects, UnmovedCollects
<1>2. ASSUME NEW d \in Calls,
             (\E f \in Filters : UpsertPrefs(d, f)) \/ (\E from \in Cursors : Ask(d, from))
      PROVE  Collects(c)'
  <2>1. CASE d # c
    BY <1>1, <1>2, <2>1, BeginEffect
  <2>2. CASE d = c
    <3>1. call'[c].at \in {"drop", "load"} /\ call'[c].fresh = {}
      BY <1>2, <2>2, BeginEffect
    <3>2. call'[c].tier = 1
      <4>1. \A f \in Filters : UpsertPrefs(c, f) => call'[c].tier = 1
        <5> SUFFICES ASSUME NEW f \in Filters, UpsertPrefs(c, f) PROVE call'[c].tier = 1
          OBVIOUS
        <5>1. call'[c] = [at |-> "drop", now |-> time, filter |-> f, from |-> NoCursor, cards |-> {},
                          fresh |-> {}, last |-> NoCursor, tier |-> 1, alone |-> FALSE]
          BY DEF UpsertPrefs, Apart
        <5> QED BY <5>1
      <4>2. \A from \in Cursors : Ask(c, from) => call'[c].tier = 1
        BY DEF Ask, DeckTypeOK
      <4> QED BY <1>2, <2>2, <4>1, <4>2
    <3> QED BY <3>1, <3>2, FreeCollects DEF Blank
  <2> QED BY <2>1, <2>2
<1>3. ASSUME NEW d \in Calls, DropDeck(d) \/ Answer(d) \/ Abandon(d) PROVE Collects(c)'
  BY <1>1, <1>3, DropEffect, FreeCollects DEF Free
<1>4. ASSUME NEW d \in Calls, LoadGrants(d) PROVE Collects(c)'
  BY <1>1, <1>4, LoadEffect, LoadCollects
<1>5. ASSUME NEW d \in Calls, Search(d) PROVE Collects(c)'
  <2>1. d # c => Unmoved(c) /\ UNCHANGED tables
    BY <1>5, SearchEffect
  <2> QED BY <1>1, <1>5, <2>1, SearchCollects
<1>6. ASSUME NEW d \in Calls, Persist(d) PROVE Collects(c)'
  <2>1. d # c => Aside(c)
    BY <1>6, PersistEffect
  <2> QED BY <1>1, <1>6, <2>1, PersistCollects
<1>7. ASSUME NEW v \in Candidates, UseGrant(v) \/ PurgeLedger(v) PROVE Collects(c)'
  BY <1>1, <1>7, NobodyEffect DEF UseGrant, PurgeLedger
<1>8. ASSUME NEW v \in Movers, NEW s \in {"listed", "hidden", "away"}, Move(v, s) PROVE Collects(c)'
  BY <1>1, <1>8, NobodyEffect DEF Move
<1>9. CASE Pass \/ UNCHANGED deckVars
  BY <1>1, <1>9 DEF Pass, deckVars, Unmoved
<1> QED BY <1>2, <1>3, <1>4, <1>5, <1>6, <1>7, <1>8, <1>9 DEF DeckNext, CallStep

LEMMA AllCollect == DeckSpec => [](DeckTypeOK /\ \A c \in Calls : Collects(c))
<1>1. DeckInit => \A c \in Calls : Collects(c)
  BY DEF DeckInit, Free, Collects, Is, Whole, Near, FirstPage, Quiet
<1>2. DeckTypeOK /\ (\A c \in Calls : Collects(c)) /\ [DeckNext]_deckVars => (\A c \in Calls : Collects(c))'
  BY CollectsInductive
<1> QED BY <1>1, <1>2, DeckInitialType, DeckTypeInductive, PTL DEF DeckSpec

(* A first page with room left is the whole deck, with the tokens in force, *)
(* unless something happened that the request does not know of, whatever    *)
(* the other requests, the candidates and the housekeeper do before.        *)
THEOREM NothingBurnedHolds == DeckSpec => []NothingBurned
<1>1. (\A c \in Calls : Collects(c)) => NothingBurned
  BY DEF Collects, Whole, NothingBurned, Tokens, Valid
<1> QED BY <1>1, AllCollect, PTL

(* A page with room left leaves out only people farther away than somebody *)
(* it deals anew, for any ranks, cells, preferences and size of a page.    *)
THEOREM NobodyNearerHolds == DeckSpec => []NobodyNearer
<1>1. (\A c \in Calls : Collects(c)) => NobodyNearer
  BY DEF Collects, Near, NobodyNearer, Farther
<1> QED BY <1>1, AllCollect, PTL
=============================================================================
