--------------------------- MODULE MatchingProofs ---------------------------
(* Proofs about Matching, for every set of members and of handlers.        *)
EXTENDS Matching, TLAPS

USE DEF Never, Times

-----------------------------------------------------------------------------
(* Which kind of handler runs which step. *)
LEMMA KindOfHandler ==
    ASSUME handler \in [Procs -> Handlers], NEW p \in Procs
    PROVE  /\ handler[p].at \in PairSteps => handler[p] \in PairHandlers
           /\ handler[p].at \in DeleteSteps => handler[p] \in DeleteHandlers
<1>1. handler[p] \in Handlers
  OBVIOUS
<1>2. CASE handler[p] = Idle
  BY <1>2 DEF Idle, PairSteps, LikeSteps, DeleteSteps
<1>3. CASE handler[p] \in PairHandlers
  BY <1>3 DEF PairHandlers, PairSteps, LikeSteps, DeleteSteps
<1>4. CASE handler[p] \in DeleteHandlers
  BY <1>4 DEF DeleteHandlers, PairSteps, LikeSteps, DeleteSteps
<1> QED
  BY <1>1, <1>2, <1>3, <1>4 DEF Handlers

(* A handler of a pair operation acts on two different members. *)
LEMMA PairOfHandler ==
    ASSUME handler \in [Procs -> Handlers], NEW p \in Procs, handler[p].at \in PairSteps
    PROVE  /\ handler[p].pair \in Pairs
           /\ Swap(handler[p].pair) \in Pairs
           /\ Swap(Swap(handler[p].pair)) = handler[p].pair
           /\ handler[p].time \in Times
<1>1. handler[p].pair \in Pairs /\ handler[p].time \in Times
  BY KindOfHandler DEF PairHandlers
<1> QED
  BY <1>1 DEF Pairs, Swap

(* Moving a handler on keeps it a handler. *)
LEMMA GotoHandler ==
    ASSUME handler \in [Procs -> Handlers], NEW p \in Procs, NEW step,
           \/ step \in PairSteps /\ handler[p].at \in PairSteps
           \/ step \in DeleteSteps /\ handler[p].at \in DeleteSteps,
           Goto(p, step)
    PROVE  handler' \in [Procs -> Handlers]
<1>1. CASE step \in PairSteps /\ handler[p].at \in PairSteps
  <2>1. handler[p] \in PairHandlers
    BY <1>1, KindOfHandler
  <2>2. [handler[p] EXCEPT !.at = step] \in PairHandlers
    BY <1>1, <2>1 DEF PairHandlers
  <2> QED
    BY <2>2 DEF Goto, Handlers
<1>2. CASE step \in DeleteSteps /\ handler[p].at \in DeleteSteps
  <2>1. handler[p] \in DeleteHandlers
    BY <1>2, KindOfHandler
  <2>2. [handler[p] EXCEPT !.at = step] \in DeleteHandlers
    BY <1>2, <2>1 DEF DeleteHandlers
  <2> QED
    BY <2>2 DEF Goto, Handlers
<1> QED
  BY <1>1, <1>2

(* Moving a handler on changes its step and nothing else. *)
LEMMA GotoEffect ==
    ASSUME handler \in [Procs -> Handlers], NEW p \in Procs, handler[p].at \in PairSteps,
           NEW step, Goto(p, step)
    PROVE  /\ handler'[p].at = step
           /\ handler'[p].pair = handler[p].pair
           /\ \A q \in Procs \ {p} : handler'[q] = handler[q]
<1>1. handler[p] \in PairHandlers
  BY KindOfHandler
<1>2. handler'[p] = [handler[p] EXCEPT !.at = step]
  BY DEF Goto
<1>3. handler'[p].at = step /\ handler'[p].pair = handler[p].pair
  BY <1>1, <1>2 DEF PairHandlers
<1> QED
  BY <1>3 DEF Goto

(* Ending a handler leaves an idle one. *)
LEMMA ReturnHandler ==
    ASSUME handler \in [Procs -> Handlers], NEW p \in Procs, Return(p)
    PROVE  handler' \in [Procs -> Handlers]
BY DEF Return, Handlers

-----------------------------------------------------------------------------
(* Every statement of every handler keeps the tables well typed. *)
LEMMA TypeInductive == TypeOK /\ [Next]_vars => TypeOK'
<1> SUFFICES ASSUME TypeOK, [Next]_vars PROVE TypeOK'
  OBVIOUS
<1> USE TimeAssumption DEF TypeOK, rows, history
<1>1. ASSUME NEW p \in Procs, NEW op \in Ops, NEW x \in Targets(op), NEW t \in 0..clock,
             Begin(p, op, x, t)
      PROVE  TypeOK'
  <2>1. [at |-> FirstStep[op], pair |-> x, time |-> t] \in Handlers
    <3>1. t \in Times
      OBVIOUS
    <3>2. CASE op = "delete"
      BY <3>1, <3>2, OpsAssumption
         DEF FirstStep, AllOps, Handlers, DeleteHandlers, DeleteSteps
    <3>3. CASE op # "delete"
      BY <3>1, <3>3, OpsAssumption
         DEF FirstStep, AllOps, Handlers, PairHandlers, PairSteps, LikeSteps, Targets
    <3> QED
      BY <3>2, <3>3
  <2> QED
    BY <1>1, <2>1 DEF Begin
<1>2. ASSUME NEW p \in Procs, LikeStep(p) PROVE TypeOK'
  <2>1. CASE LikeConsume(p)
    <3>1. handler' \in [Procs -> Handlers]
      BY <2>1, GotoHandler, ReturnHandler DEF LikeConsume, At, PairSteps, LikeSteps, DeleteSteps
    <3> QED
      BY <2>1, <3>1, PairOfHandler DEF LikeConsume, At, PairSteps, LikeSteps
  <2>2. CASE LikeIntent(p)
    <3>1. handler' \in [Procs -> Handlers]
      BY <2>2, GotoHandler, ReturnHandler DEF LikeIntent, At, PairSteps, LikeSteps, DeleteSteps
    <3> QED
      BY <2>2, <3>1, PairOfHandler DEF LikeIntent, At, PairSteps, LikeSteps, IntentStates
  <2>3. CASE LikeReciprocal(p)
    <3>1. handler' \in [Procs -> Handlers]
      BY <2>3, GotoHandler, ReturnHandler DEF LikeReciprocal, At, PairSteps, LikeSteps, DeleteSteps
    <3> QED
      BY <2>3, <3>1, PairOfHandler DEF LikeReciprocal, At, PairSteps, LikeSteps
  <2>4. CASE LikeMatch(p)
    <3>1. handler' \in [Procs -> Handlers]
      BY <2>4, GotoHandler, ReturnHandler DEF LikeMatch, At, PairSteps, LikeSteps, DeleteSteps
    <3> QED
      BY <2>4, <3>1, PairOfHandler DEF LikeMatch, At, PairSteps, LikeSteps, MatchStates, ClosedStates
  <2>5. CASE LikeNotify(p)
    <3>1. handler' \in [Procs -> Handlers]
      BY <2>5, GotoHandler, ReturnHandler DEF LikeNotify, At, PairSteps, LikeSteps, DeleteSteps
    <3> QED
      BY <2>5, <3>1, PairOfHandler DEF LikeNotify, At, PairSteps, LikeSteps, Both
  <2> QED
    BY <1>2, <2>1, <2>2, <2>3, <2>4, <2>5 DEF LikeStep
<1>3. ASSUME NEW p \in Procs, Revoke(p) PROVE TypeOK'
  <2>1. handler' \in [Procs -> Handlers]
    BY <1>3, ReturnHandler DEF Revoke
  <2> QED
    BY <1>3, <2>1, PairOfHandler DEF Revoke, At, PairSteps, IntentStates
<1>4. ASSUME NEW p \in Procs, DiscoverPersist(p) PROVE TypeOK'
  <2>1. handler' \in [Procs -> Handlers]
    BY <1>4, ReturnHandler DEF DiscoverPersist
  <2> QED
    BY <1>4, <2>1, PairOfHandler DEF DiscoverPersist, At, PairSteps
<1>5. ASSUME NEW p \in Procs, BlockStep(p) PROVE TypeOK'
  <2>1. CASE BlockInsert(p)
    <3>1. handler' \in [Procs -> Handlers]
      BY <2>1, GotoHandler, ReturnHandler DEF BlockInsert, At, PairSteps, LikeSteps, DeleteSteps
    <3> QED
      BY <2>1, <3>1, PairOfHandler DEF BlockInsert, At, PairSteps, LikeSteps
  <2>2. CASE BlockMatches(p)
    <3>1. handler' \in [Procs -> Handlers]
      BY <2>2, GotoHandler, ReturnHandler DEF BlockMatches, At, PairSteps, LikeSteps, DeleteSteps
    <3> QED
      BY <2>2, <3>1, PairOfHandler DEF BlockMatches, At, PairSteps, LikeSteps, MatchStates, ClosedStates
  <2>3. CASE BlockIntents(p)
    <3>1. handler' \in [Procs -> Handlers]
      BY <2>3, GotoHandler, ReturnHandler DEF BlockIntents, At, PairSteps, LikeSteps, DeleteSteps
    <3> QED
      BY <2>3, <3>1, PairOfHandler DEF BlockIntents, At, PairSteps, LikeSteps, IntentStates
  <2>4. CASE BlockGrants(p)
    <3>1. handler' \in [Procs -> Handlers]
      BY <2>4, GotoHandler, ReturnHandler DEF BlockGrants, At, PairSteps, LikeSteps, DeleteSteps
    <3> QED
      BY <2>4, <3>1, PairOfHandler DEF BlockGrants, At, PairSteps, LikeSteps
  <2> QED
    BY <1>5, <2>1, <2>2, <2>3, <2>4 DEF BlockStep
<1>6. ASSUME NEW p \in Procs, Unblock(p) PROVE TypeOK'
  <2>1. handler' \in [Procs -> Handlers]
    BY <1>6, ReturnHandler DEF Unblock
  <2> QED
    BY <1>6, <2>1, PairOfHandler DEF Unblock, At, PairSteps
<1>7. ASSUME NEW p \in Procs, UnmatchStep(p) PROVE TypeOK'
  <2>1. CASE UnmatchA(p)
    <3>1. handler' \in [Procs -> Handlers]
      BY <2>1, GotoHandler, ReturnHandler DEF UnmatchA, At, PairSteps, LikeSteps, DeleteSteps
    <3> QED
      BY <2>1, <3>1, PairOfHandler DEF UnmatchA, At, PairSteps, LikeSteps, MatchStates, ClosedStates
  <2>2. CASE UnmatchB(p)
    <3>1. handler' \in [Procs -> Handlers]
      BY <2>2, GotoHandler, ReturnHandler DEF UnmatchB, At, PairSteps, LikeSteps, DeleteSteps
    <3> QED
      BY <2>2, <3>1, PairOfHandler DEF UnmatchB, At, PairSteps, LikeSteps, MatchStates, ClosedStates
  <2> QED
    BY <1>7, <2>1, <2>2 DEF UnmatchStep
<1>8. ASSUME NEW p \in Procs, DeleteStep(p) PROVE TypeOK'
  <2>1. CASE DeleteMember(p)
    <3>1. handler' \in [Procs -> Handlers]
      BY <2>1, GotoHandler, ReturnHandler DEF DeleteMember, At, DeleteSteps
    <3>2. Me(p) \in Members
      BY <2>1, KindOfHandler DEF DeleteMember, At, Me, DeleteSteps, DeleteHandlers, Targets
    <3> QED
      BY <2>1, <3>1, <3>2 DEF DeleteMember
  <2>2. CASE DeleteIntents(p)
    <3>1. handler' \in [Procs -> Handlers]
      BY <2>2, GotoHandler, ReturnHandler DEF DeleteIntents, At, DeleteSteps
    <3>2. Me(p) \in Members
      BY <2>2, KindOfHandler DEF DeleteIntents, At, Me, DeleteSteps, DeleteHandlers, Targets
    <3> QED
      BY <2>2, <3>1, <3>2 DEF DeleteIntents, IntentStates
  <2>3. CASE DeleteMatches(p)
    <3>1. handler' \in [Procs -> Handlers]
      BY <2>3, GotoHandler, ReturnHandler DEF DeleteMatches, At, DeleteSteps
    <3>2. Me(p) \in Members
      BY <2>3, KindOfHandler DEF DeleteMatches, At, Me, DeleteSteps, DeleteHandlers, Targets
    <3> QED
      BY <2>3, <3>1, <3>2 DEF DeleteMatches, MatchStates, ClosedStates
  <2>4. CASE DeleteBlocks(p)
    <3>1. handler' \in [Procs -> Handlers]
      BY <2>4, GotoHandler, ReturnHandler DEF DeleteBlocks, At, DeleteSteps
    <3>2. Me(p) \in Members
      BY <2>4, KindOfHandler DEF DeleteBlocks, At, Me, DeleteSteps, DeleteHandlers, Targets
    <3> QED
      BY <2>4, <3>1, <3>2 DEF DeleteBlocks
  <2>5. CASE DeleteGrants(p)
    <3>1. handler' \in [Procs -> Handlers]
      BY <2>5, GotoHandler, ReturnHandler DEF DeleteGrants, At, DeleteSteps
    <3>2. Me(p) \in Members
      BY <2>5, KindOfHandler DEF DeleteGrants, At, Me, DeleteSteps, DeleteHandlers, Targets
    <3> QED
      BY <2>5, <3>1, <3>2 DEF DeleteGrants
  <2> QED
    BY <1>8, <2>1, <2>2, <2>3, <2>4, <2>5 DEF DeleteStep
<1>9. ASSUME NEW p \in Procs, Abort(p) PROVE TypeOK'
  <2>1. handler' \in [Procs -> Handlers]
    BY <1>9, ReturnHandler DEF Abort
  <2>2. cut' \subseteq Pairs
    BY <1>9, PairOfHandler DEF Abort, Both, PairSteps, LikeSteps
  <2> QED
    BY <1>9, <2>1, <2>2 DEF Abort
<1>10. ASSUME NEW m \in Members, DropDeck(m) \/ Resume(m) PROVE TypeOK'
  BY <1>10 DEF DropDeck, Resume
<1>11. ASSUME NEW x \in Pairs, PruneGrant(x) \/ PurgeSeen(x) PROVE TypeOK'
  BY <1>11 DEF PruneGrant, PurgeSeen
<1>12. CASE Tick
  BY <1>12 DEF Tick
<1>13. CASE UNCHANGED vars
  BY <1>13 DEF vars
<1> QED
  BY <1>1, <1>2, <1>3, <1>4, <1>5, <1>6, <1>7, <1>8, <1>9, <1>10, <1>11, <1>12, <1>13
     DEF Next, Step

LEMMA InitialType == Init => TypeOK
BY TimeAssumption DEF Init, TypeOK, Handlers, IntentStates, MatchStates

(* The type invariant, for any number of members, handlers and ticks: no   *)
(* interleaving or cut-off writes a row outside its table's domain.        *)
THEOREM TypeCorrect == Spec => []TypeOK
BY InitialType, TypeInductive, PTL DEF Spec

-----------------------------------------------------------------------------
(* Where a row or a step of a like comes from.  None of this can be        *)
(* undone: intents and match rows change state but are never deleted, and  *)
(* "granted" only grows.                                                   *)
Provenance ==
    /\ \A x \in Pairs : grants[x] # Never => x \in granted
    /\ \A x \in Pairs : intents[x] # "none" => x \in granted
    /\ \A x \in Pairs : matches[x] # "none" => intents[x] # "none" /\ intents[Swap(x)] # "none"
    /\ \A p \in Procs :
         /\ handler[p].at \in LikeSteps \ {"like.consume"} => handler[p].pair \in granted
         /\ handler[p].at \in {"like.reciprocal", "like.match", "like.notify"}
              => intents[handler[p].pair] # "none"
         /\ handler[p].at \in {"like.match", "like.notify"}
              => intents[Swap(handler[p].pair)] # "none"

OneRow == \A x \in Pairs : matches[x] # "none" => matches[Swap(x)] = "none"

(* The inductive invariant: MutualLikesMatch needs only the types, a match *)
(* being earned also needs to know where the match step comes from.        *)
IInv == TypeOK /\ Provenance /\ OneRow /\ MutualLikesMatch

(* The other orientation of a pair is a pair, and its other orientation. *)
LEMMA SwapPair == \A x \in Pairs : Swap(x) \in Pairs /\ Swap(Swap(x)) = x
BY DEF Pairs, Swap

(* Every statement of every handler preserves the inductive invariant. *)
LEMMA InvInductive == IInv /\ [Next]_vars => IInv'
<1> SUFFICES ASSUME IInv, [Next]_vars PROVE (Provenance /\ OneRow /\ MutualLikesMatch)'
  BY TypeInductive DEF IInv
<1>0. TypeOK /\ TypeOK'
  BY TypeInductive DEF IInv
<1> USE DEF IInv, TypeOK, Provenance, OneRow, MutualLikesMatch, Pending, MatchRow, rows, history
<1>1. ASSUME NEW p \in Procs, LikeConsume(p)
      PROVE  (Provenance /\ OneRow /\ MutualLikesMatch)'
  <2>2. Provenance'
    <3>1. CASE grants[handler[p].pair] = handler[p].time
      BY <3>1, <1>0, <1>1, GotoEffect, PairOfHandler, SwapPair DEF LikeConsume, At, LikeSteps, PairSteps, Both, Idle
    <3>2. CASE ~(grants[handler[p].pair] = handler[p].time)
      BY <3>2, <1>0, <1>1, PairOfHandler, SwapPair DEF LikeConsume, At, Goto, Return, LikeSteps, PairSteps, Both, Idle
    <3> QED
      BY <3>1, <3>2
  <2>3. OneRow'
    BY <1>0, <1>1, PairOfHandler, SwapPair DEF LikeConsume, Both, At, LikeSteps, PairSteps
  <2>4. MutualLikesMatch'
    BY <1>0, <1>1, PairOfHandler, SwapPair DEF LikeConsume, At, Goto, Return, LikeSteps, PairSteps, Both, Idle
  <2> QED
    BY <2>2, <2>3, <2>4
<1>2. ASSUME NEW p \in Procs, LikeIntent(p)
      PROVE  (Provenance /\ OneRow /\ MutualLikesMatch)'
  <2>2. Provenance'
    BY <1>0, <1>2, PairOfHandler, SwapPair DEF LikeIntent, At, Goto, Return, LikeSteps, PairSteps, Both, Idle
  <2>3. OneRow'
    BY <1>0, <1>2, PairOfHandler, SwapPair DEF LikeIntent, Both, At, LikeSteps, PairSteps
  <2>4. MutualLikesMatch'
    BY <1>0, <1>2, PairOfHandler, SwapPair DEF LikeIntent, At, Goto, Return, LikeSteps, PairSteps, Both, Idle
  <2> QED
    BY <2>2, <2>3, <2>4
<1>3. ASSUME NEW p \in Procs, LikeReciprocal(p)
      PROVE  (Provenance /\ OneRow /\ MutualLikesMatch)'
  <2>2. Provenance'
    <3>1. CASE intents[Swap(handler[p].pair)] = "active"
      BY <3>1, <1>0, <1>3, GotoEffect, PairOfHandler, SwapPair DEF LikeReciprocal, At, LikeSteps, PairSteps, Both, Idle
    <3>2. CASE ~(intents[Swap(handler[p].pair)] = "active")
      BY <3>2, <1>0, <1>3, PairOfHandler, SwapPair DEF LikeReciprocal, At, Goto, Return, LikeSteps, PairSteps, Both, Idle
    <3> QED
      BY <3>1, <3>2
  <2>3. OneRow'
    BY <1>0, <1>3, PairOfHandler, SwapPair DEF LikeReciprocal, Both, At, LikeSteps, PairSteps
  <2>4. MutualLikesMatch'
    <3>1. CASE intents[Swap(handler[p].pair)] = "active"
      BY <3>1, <1>0, <1>3, GotoEffect, PairOfHandler, SwapPair DEF LikeReciprocal, At, LikeSteps, PairSteps, Both, Idle
    <3>2. CASE ~(intents[Swap(handler[p].pair)] = "active")
      BY <3>2, <1>0, <1>3, PairOfHandler, SwapPair DEF LikeReciprocal, At, Goto, Return, LikeSteps, PairSteps, Both, Idle
    <3> QED
      BY <3>1, <3>2
  <2> QED
    BY <2>2, <2>3, <2>4
<1>4. ASSUME NEW p \in Procs, LikeMatch(p)
      PROVE  (Provenance /\ OneRow /\ MutualLikesMatch)'
  <2>2. Provenance'
    BY <1>0, <1>4, PairOfHandler, SwapPair DEF LikeMatch, At, Goto, Return, LikeSteps, PairSteps, Both, Idle
  <2>3. OneRow'
    <3>1. CASE MatchRow(handler[p].pair)
      BY <3>1, <1>0, <1>4, PairOfHandler, SwapPair DEF LikeMatch, Both, At, LikeSteps, PairSteps
    <3>2. CASE ~(MatchRow(handler[p].pair))
      <4> DEFINE x == handler[p].pair
      <4>1. x \in Pairs /\ Swap(x) \in Pairs /\ Swap(Swap(x)) = x
        BY <1>0, <1>4, PairOfHandler DEF LikeMatch, At, LikeSteps, PairSteps
      <4>2. matches' = [matches EXCEPT ![x] = "active"]
        BY <1>4, <3>2 DEF LikeMatch
      <4>3. matches[x] = "none" /\ matches[Swap(x)] = "none" /\ Swap(x) # x
        BY <3>2, <4>1 DEF Pairs, Swap
      <4>4. ASSUME NEW y \in Pairs, matches'[y] # "none" PROVE matches'[Swap(y)] = "none"
        <5>1. CASE y = x
          BY <4>1, <4>2, <4>3, <5>1
        <5>2. CASE y # x
          <6>1. Swap(y) # x
            BY <4>1, <4>2, <4>3, <4>4, <5>2, SwapPair
          <6> QED
            BY <4>2, <4>4, <5>2, <6>1, SwapPair
        <5> QED
          BY <5>1, <5>2
      <4> QED
        BY <4>4
    <3> QED
      BY <3>1, <3>2
  <2>4. MutualLikesMatch'
    BY <1>0, <1>4, PairOfHandler, SwapPair DEF LikeMatch, At, Goto, Return, LikeSteps, PairSteps, Both, Idle
  <2> QED
    BY <2>2, <2>3, <2>4
<1>5. ASSUME NEW p \in Procs, LikeNotify(p)
      PROVE  (Provenance /\ OneRow /\ MutualLikesMatch)'
  <2>2. Provenance'
    BY <1>0, <1>5, PairOfHandler, SwapPair DEF LikeNotify, At, Goto, Return, LikeSteps, PairSteps, Both, Idle
  <2>3. OneRow'
    BY <1>0, <1>5, PairOfHandler, SwapPair DEF LikeNotify, Both, At, LikeSteps, PairSteps
  <2>4. MutualLikesMatch'
    BY <1>0, <1>5, PairOfHandler, SwapPair DEF LikeNotify, At, Goto, Return, LikeSteps, PairSteps, Both, Idle
  <2> QED
    BY <2>2, <2>3, <2>4
<1>6. ASSUME NEW p \in Procs, Revoke(p)
      PROVE  (Provenance /\ OneRow /\ MutualLikesMatch)'
  <2>2. Provenance'
    BY <1>0, <1>6, PairOfHandler, SwapPair DEF Revoke, At, Goto, Return, LikeSteps, PairSteps, Both, Idle
  <2>3. OneRow'
    BY <1>0, <1>6, PairOfHandler, SwapPair DEF Revoke, Both, At, LikeSteps, PairSteps
  <2>4. MutualLikesMatch'
    BY <1>0, <1>6, PairOfHandler, SwapPair DEF Revoke, At, Goto, Return, LikeSteps, PairSteps, Both, Idle
  <2> QED
    BY <2>2, <2>3, <2>4
<1>7. ASSUME NEW p \in Procs, DiscoverPersist(p)
      PROVE  (Provenance /\ OneRow /\ MutualLikesMatch)'
  <2>2. Provenance'
    BY <1>0, <1>7, PairOfHandler, SwapPair DEF DiscoverPersist, At, Goto, Return, LikeSteps, PairSteps, Both, Idle
  <2>3. OneRow'
    BY <1>0, <1>7, PairOfHandler, SwapPair DEF DiscoverPersist, Both, At, LikeSteps, PairSteps
  <2>4. MutualLikesMatch'
    BY <1>0, <1>7, PairOfHandler, SwapPair DEF DiscoverPersist, At, Goto, Return, LikeSteps, PairSteps, Both, Idle
  <2> QED
    BY <2>2, <2>3, <2>4
<1>8. ASSUME NEW p \in Procs, BlockInsert(p)
      PROVE  (Provenance /\ OneRow /\ MutualLikesMatch)'
  <2>2. Provenance'
    BY <1>0, <1>8, PairOfHandler, SwapPair DEF BlockInsert, At, Goto, Return, LikeSteps, PairSteps, Both, Idle
  <2>3. OneRow'
    BY <1>0, <1>8, PairOfHandler, SwapPair DEF BlockInsert, Both, At, LikeSteps, PairSteps
  <2>4. MutualLikesMatch'
    BY <1>0, <1>8, PairOfHandler, SwapPair DEF BlockInsert, At, Goto, Return, LikeSteps, PairSteps, Both, Idle
  <2> QED
    BY <2>2, <2>3, <2>4
<1>9. ASSUME NEW p \in Procs, BlockMatches(p)
      PROVE  (Provenance /\ OneRow /\ MutualLikesMatch)'
  <2>2. Provenance'
    BY <1>0, <1>9, PairOfHandler, SwapPair DEF BlockMatches, At, Goto, Return, LikeSteps, PairSteps, Both, Idle
  <2>3. OneRow'
    BY <1>0, <1>9, PairOfHandler, SwapPair DEF BlockMatches, Both, At, LikeSteps, PairSteps
  <2>4. MutualLikesMatch'
    BY <1>0, <1>9, PairOfHandler, SwapPair DEF BlockMatches, At, Goto, Return, LikeSteps, PairSteps, Both, Idle
  <2> QED
    BY <2>2, <2>3, <2>4
<1>10. ASSUME NEW p \in Procs, BlockIntents(p)
      PROVE  (Provenance /\ OneRow /\ MutualLikesMatch)'
  <2>2. Provenance'
    BY <1>0, <1>10, PairOfHandler, SwapPair DEF BlockIntents, At, Goto, Return, LikeSteps, PairSteps, Both, Idle
  <2>3. OneRow'
    BY <1>0, <1>10, PairOfHandler, SwapPair DEF BlockIntents, Both, At, LikeSteps, PairSteps
  <2>4. MutualLikesMatch'
    BY <1>0, <1>10, PairOfHandler, SwapPair DEF BlockIntents, At, Goto, Return, LikeSteps, PairSteps, Both, Idle
  <2> QED
    BY <2>2, <2>3, <2>4
<1>11. ASSUME NEW p \in Procs, BlockGrants(p)
      PROVE  (Provenance /\ OneRow /\ MutualLikesMatch)'
  <2>2. Provenance'
    BY <1>0, <1>11, PairOfHandler, SwapPair DEF BlockGrants, At, Goto, Return, LikeSteps, PairSteps, Both, Idle
  <2>3. OneRow'
    BY <1>0, <1>11, PairOfHandler, SwapPair DEF BlockGrants, Both, At, LikeSteps, PairSteps
  <2>4. MutualLikesMatch'
    BY <1>0, <1>11, PairOfHandler, SwapPair DEF BlockGrants, At, Goto, Return, LikeSteps, PairSteps, Both, Idle
  <2> QED
    BY <2>2, <2>3, <2>4
<1>12. ASSUME NEW p \in Procs, Unblock(p)
      PROVE  (Provenance /\ OneRow /\ MutualLikesMatch)'
  <2>2. Provenance'
    BY <1>0, <1>12, PairOfHandler, SwapPair DEF Unblock, At, Goto, Return, LikeSteps, PairSteps, Both, Idle
  <2>3. OneRow'
    BY <1>0, <1>12, PairOfHandler, SwapPair DEF Unblock, Both, At, LikeSteps, PairSteps
  <2>4. MutualLikesMatch'
    BY <1>0, <1>12, PairOfHandler, SwapPair DEF Unblock, At, Goto, Return, LikeSteps, PairSteps, Both, Idle
  <2> QED
    BY <2>2, <2>3, <2>4
<1>13. ASSUME NEW p \in Procs, UnmatchA(p)
      PROVE  (Provenance /\ OneRow /\ MutualLikesMatch)'
  <2>2. Provenance'
    <3>1. CASE matches[handler[p].pair] = "active"
      BY <3>1, <1>0, <1>13, PairOfHandler, SwapPair DEF UnmatchA, At, Goto, Return, LikeSteps, PairSteps, Both, Idle
    <3>2. CASE ~(matches[handler[p].pair] = "active")
      BY <3>2, <1>0, <1>13, GotoEffect, PairOfHandler, SwapPair DEF UnmatchA, At, LikeSteps, PairSteps, Both, Idle
    <3> QED
      BY <3>1, <3>2
  <2>3. OneRow'
    BY <1>0, <1>13, PairOfHandler, SwapPair DEF UnmatchA, Both, At, LikeSteps, PairSteps
  <2>4. MutualLikesMatch'
    BY <1>0, <1>13, PairOfHandler, SwapPair DEF UnmatchA, At, Goto, Return, LikeSteps, PairSteps, Both, Idle
  <2> QED
    BY <2>2, <2>3, <2>4
<1>14. ASSUME NEW p \in Procs, UnmatchB(p)
      PROVE  (Provenance /\ OneRow /\ MutualLikesMatch)'
  <2>2. Provenance'
    BY <1>0, <1>14, PairOfHandler, SwapPair DEF UnmatchB, At, Goto, Return, LikeSteps, PairSteps, Both, Idle
  <2>3. OneRow'
    BY <1>0, <1>14, PairOfHandler, SwapPair DEF UnmatchB, Both, At, LikeSteps, PairSteps
  <2>4. MutualLikesMatch'
    BY <1>0, <1>14, PairOfHandler, SwapPair DEF UnmatchB, At, Goto, Return, LikeSteps, PairSteps, Both, Idle
  <2> QED
    BY <2>2, <2>3, <2>4
<1>15. ASSUME NEW p \in Procs, DeleteMember(p)
      PROVE  (Provenance /\ OneRow /\ MutualLikesMatch)'
  <2>2. Provenance'
    BY <1>0, <1>15, KindOfHandler, SwapPair DEF DeleteMember, At, Goto, Return, LikeSteps, DeleteSteps, Me, Involving, Both, Idle
  <2>3. OneRow'
    BY <1>0, <1>15, KindOfHandler, SwapPair DEF DeleteMember, Me, Involving, Both, At, LikeSteps, DeleteSteps
  <2>4. MutualLikesMatch'
    BY <1>0, <1>15, KindOfHandler, SwapPair DEF DeleteMember, At, Goto, Return, LikeSteps, DeleteSteps, Me, Involving, Both, Idle
  <2> QED
    BY <2>2, <2>3, <2>4
<1>16. ASSUME NEW p \in Procs, DeleteIntents(p)
      PROVE  (Provenance /\ OneRow /\ MutualLikesMatch)'
  <2>2. Provenance'
    BY <1>0, <1>16, KindOfHandler, SwapPair DEF DeleteIntents, At, Goto, Return, LikeSteps, DeleteSteps, Me, Involving, Both, Idle
  <2>3. OneRow'
    BY <1>0, <1>16, KindOfHandler, SwapPair DEF DeleteIntents, Me, Involving, Both, At, LikeSteps, DeleteSteps
  <2>4. MutualLikesMatch'
    BY <1>0, <1>16, KindOfHandler, SwapPair DEF DeleteIntents, At, Goto, Return, LikeSteps, DeleteSteps, Me, Involving, Both, Idle
  <2> QED
    BY <2>2, <2>3, <2>4
<1>17. ASSUME NEW p \in Procs, DeleteMatches(p)
      PROVE  (Provenance /\ OneRow /\ MutualLikesMatch)'
  <2>2. Provenance'
    BY <1>0, <1>17, KindOfHandler, SwapPair DEF DeleteMatches, At, Goto, Return, LikeSteps, DeleteSteps, Me, Involving, Both, Idle
  <2>3. OneRow'
    BY <1>0, <1>17, KindOfHandler, SwapPair DEF DeleteMatches, Me, Involving, Both, At, LikeSteps, DeleteSteps
  <2>4. MutualLikesMatch'
    BY <1>0, <1>17, KindOfHandler, SwapPair DEF DeleteMatches, At, Goto, Return, LikeSteps, DeleteSteps, Me, Involving, Both, Idle
  <2> QED
    BY <2>2, <2>3, <2>4
<1>18. ASSUME NEW p \in Procs, DeleteBlocks(p)
      PROVE  (Provenance /\ OneRow /\ MutualLikesMatch)'
  <2>2. Provenance'
    BY <1>0, <1>18, KindOfHandler, SwapPair DEF DeleteBlocks, At, Goto, Return, LikeSteps, DeleteSteps, Me, Involving, Both, Idle
  <2>3. OneRow'
    BY <1>0, <1>18, KindOfHandler, SwapPair DEF DeleteBlocks, Me, Involving, Both, At, LikeSteps, DeleteSteps
  <2>4. MutualLikesMatch'
    BY <1>0, <1>18, KindOfHandler, SwapPair DEF DeleteBlocks, At, Goto, Return, LikeSteps, DeleteSteps, Me, Involving, Both, Idle
  <2> QED
    BY <2>2, <2>3, <2>4
<1>19. ASSUME NEW p \in Procs, DeleteGrants(p)
      PROVE  (Provenance /\ OneRow /\ MutualLikesMatch)'
  <2>2. Provenance'
    BY <1>0, <1>19, KindOfHandler, SwapPair DEF DeleteGrants, At, Goto, Return, LikeSteps, DeleteSteps, Me, Involving, Both, Idle
  <2>3. OneRow'
    BY <1>0, <1>19, KindOfHandler, SwapPair DEF DeleteGrants, Me, Involving, Both, At, LikeSteps, DeleteSteps
  <2>4. MutualLikesMatch'
    BY <1>0, <1>19, KindOfHandler, SwapPair DEF DeleteGrants, At, Goto, Return, LikeSteps, DeleteSteps, Me, Involving, Both, Idle
  <2> QED
    BY <2>2, <2>3, <2>4
<1>20. ASSUME NEW p \in Procs, Abort(p)
      PROVE  (Provenance /\ OneRow /\ MutualLikesMatch)'
  <2>1. Provenance'
    BY <1>0, <1>20 DEF Abort, Return, Idle, LikeSteps
  <2>2. OneRow'
    BY <1>20 DEF Abort
  <2>3. ASSUME NEW x \in Pairs, x \notin cut', \A q \in Procs : ~Pending(q, x)'
        PROVE  \A q \in Procs : ~Pending(q, x)
    BY <1>0, <1>20, <2>3 DEF Abort, Return, Both
  <2>4. MutualLikesMatch'
    BY <1>20, <2>3 DEF Abort
  <2> QED
    BY <2>1, <2>2, <2>4
<1>21. ASSUME NEW p \in Procs, NEW op \in Ops, NEW x \in Targets(op), NEW t \in 0..clock,
             Begin(p, op, x, t)
      PROVE  (Provenance /\ OneRow /\ MutualLikesMatch)'
  <2>1. FirstStep[op] \notin {"like.reciprocal", "like.match", "like.notify", "like.intent"}
    BY OpsAssumption DEF FirstStep, AllOps
  <2> QED
    BY <1>0, <1>21, <2>1, SwapPair DEF Begin, LikeSteps, Both, Idle
<1>22. ASSUME NEW m \in Members, DropDeck(m) \/ Resume(m)
      PROVE  (Provenance /\ OneRow /\ MutualLikesMatch)'
  BY <1>0, <1>22 DEF DropDeck, Resume, Both, Idle
<1>23. ASSUME NEW x \in Pairs, PruneGrant(x) \/ PurgeSeen(x)
      PROVE  (Provenance /\ OneRow /\ MutualLikesMatch)'
  BY <1>0, <1>23 DEF PruneGrant, PurgeSeen, Both
<1>24. CASE Tick \/ UNCHANGED vars
  BY <1>24 DEF Tick, vars, Both
<1> QED
  BY <1>1, <1>2, <1>3, <1>4, <1>5, <1>6, <1>7, <1>8, <1>9, <1>10, <1>11, <1>12, <1>13, <1>14, <1>15, <1>16, <1>17, <1>18, <1>19, <1>20, <1>21, <1>22, <1>23, <1>24
     DEF Next, Step, LikeStep, BlockStep, UnmatchStep, DeleteStep

(* The inductive invariant holds in every reachable state. *)
THEOREM Invariant == Spec => []IInv
<1>1. Init => IInv
  BY TimeAssumption
     DEF Init, IInv, TypeOK, Handlers, IntentStates, MatchStates, Provenance, OneRow,
         MutualLikesMatch, MatchRow, Idle, LikeSteps, Pairs, Swap
<1> QED
  BY <1>1, InvInductive, PTL DEF Spec

(* Two mutual likes are matched, for any number of handlers racing on any  *)
(* number of pairs: the two handlers' insert-then-read cannot both miss.   *)
THEOREM MutualLikes == Spec => []MutualLikesMatch
BY Invariant, PTL DEF IInv

(* A match needs a grant and a like in both directions.                    *)
THEOREM Earned == Spec => []MatchIsEarned
<1>1. IInv => MatchIsEarned
  <2> SUFFICES ASSUME IInv, NEW x \in Pairs, MatchRow(x)
               PROVE  /\ x \in granted /\ Swap(x) \in granted
                      /\ intents[x] # "none" /\ intents[Swap(x)] # "none"
    BY DEF MatchIsEarned
  <2>1. intents[x] # "none" /\ intents[Swap(x)] # "none"
    BY SwapPair DEF IInv, Provenance, MatchRow
  <2> QED
    BY <2>1, SwapPair DEF IInv, Provenance
<1> QED
  BY <1>1, Invariant, PTL

-----------------------------------------------------------------------------
(* What a step does to the match rows. *)
LEMMA ClosedRow ==
    ASSUME IInv, [Next]_vars, NEW x \in Pairs, matches[x] \in ClosedStates
    PROVE  matches'[x] \in ClosedStates
<1> USE DEF IInv, TypeOK, MatchStates, ClosedStates, rows, history
<1>1. ASSUME NEW p \in Procs, LikeMatch(p) PROVE matches'[x] \in ClosedStates
  <2>1. handler[p].pair \in Pairs
    BY <1>1, PairOfHandler DEF LikeMatch, At, LikeSteps, PairSteps
  <2> QED
    BY <1>1, <2>1, SwapPair DEF LikeMatch, MatchRow
<1>2. ASSUME NEW p \in Procs, BlockMatches(p) \/ UnmatchA(p) \/ UnmatchB(p) \/ DeleteMatches(p)
      PROVE  matches'[x] \in ClosedStates
  BY <1>2 DEF BlockMatches, UnmatchA, UnmatchB, DeleteMatches
<1>3. ASSUME UNCHANGED matches PROVE matches'[x] \in ClosedStates
  BY <1>3
<1>4. CASE \E p \in Procs : Step(p)
  BY <1>1, <1>2, <1>3, <1>4
     DEF Step, LikeStep, BlockStep, UnmatchStep, DeleteStep, LikeConsume, LikeIntent,
         LikeReciprocal, LikeNotify, Revoke, DiscoverPersist, BlockInsert, BlockIntents,
         BlockGrants, Unblock, DeleteMember, DeleteIntents, DeleteBlocks, DeleteGrants
<1>5. CASE \E p \in Procs, op \in Ops : \E y \in Targets(op), t \in 0..clock : Begin(p, op, y, t)
  BY <1>3, <1>5 DEF Begin
<1>6. CASE \/ \E p \in Procs : Abort(p)
           \/ \E m \in Members : DropDeck(m) \/ Resume(m)
           \/ \E y \in Pairs : PruneGrant(y) \/ PurgeSeen(y)
           \/ Tick \/ UNCHANGED vars
  BY <1>3, <1>6 DEF Abort, DropDeck, Resume, PruneGrant, PurgeSeen, Tick, vars
<1> QED
  BY <1>4, <1>5, <1>6 DEF Next

(* Once a match has been ended, no handler ever opens direct messages      *)
(* between the two again.                                                  *)
THEOREM ClosedStays == Spec => ClosedStaysClosed
<1>1. IInv /\ [Next]_vars =>
        [\A x \in Pairs : matches[x] \in ClosedStates =>
           matches'[x] \in ClosedStates /\ DmDecision(x)' # "allowed"]_vars
  <2> SUFFICES ASSUME IInv, [Next]_vars, NEW x \in Pairs, matches[x] \in ClosedStates
               PROVE  matches'[x] \in ClosedStates /\ DmDecision(x)' # "allowed"
    OBVIOUS
  <2>1. matches'[x] \in ClosedStates
    BY ClosedRow
  <2>2. IInv'
    BY InvInductive
  <2>3. matches'[Swap(x)] = "none"
    BY <2>1, <2>2 DEF IInv, OneRow, ClosedStates
  <2> QED
    BY <2>1, <2>3 DEF DmDecision, MatchActive, ClosedStates
<1> QED
  BY <1>1, Invariant, PTL DEF Spec, ClosedStaysClosed

-----------------------------------------------------------------------------
(* Matching implements Courtship: every statement of every handler is one  *)
(* abstract step of a pair, or none.                                       *)

\* The likes on record, as the abstract specification sees them.
liked == {x \in Pairs : intents[x] # "none"}

(* Both specifications speak of the same pairs. *)
LEMMA SamePairs ==
    /\ Promise!Pairs = Pairs
    /\ \A x : Promise!Swap(x) = Swap(x)
BY DEF Promise!Pairs, Pairs, Promise!Swap, Swap

(* A step that leaves intents, matches and blocks alone is a stutter. *)
LEMMA Stutter ==
    ASSUME UNCHANGED <<intents, matches, blocks>>
    PROVE  UNCHANGED Promise!vars
BY DEF Promise!vars, Stage, MatchActive, MatchRow

(* A step of the intents that keeps rows rows is a stutter too. *)
LEMMA IntentStutter ==
    ASSUME \A x \in Pairs : intents'[x] = "none" <=> intents[x] = "none",
           UNCHANGED <<matches, blocks>>
    PROVE  UNCHANGED Promise!vars
BY DEF Promise!vars, Stage, MatchActive, MatchRow

(* Closing the active rows among a set of pairs parts them. *)
LEMMA PartStep ==
    ASSUME TypeOK, OneRow, NEW S \in SUBSET Pairs, \A x \in S : Swap(x) \in S,
           \A x \in Pairs \ S : matches'[x] = matches[x],
           \A x \in S : matches'[x] = "none" <=> matches[x] = "none",
           \A x \in S : matches'[x] # "active",
           UNCHANGED <<intents, blocks>>
    PROVE  Promise!Part(S)
<1>1. \A x \in S : Swap(x) \in Pairs
  BY SwapPair
<1>2. \A x \in Pairs \ S : Swap(x) \in Pairs \ S
  BY SwapPair
<1>3. ASSUME NEW x \in Pairs
      PROVE  Stage(x)' = IF x \in S /\ Stage(x) = "matched" THEN "parted" ELSE Stage(x)
  <2>1. CASE x \in S
    BY <1>1, <2>1 DEF Stage, MatchActive, MatchRow
  <2>2. CASE x \notin S
    BY <1>2, <2>2 DEF Stage, MatchActive, MatchRow
  <2> QED
    BY <2>1, <2>2
<1> QED
  BY <1>3, SamePairs DEF Promise!Part

(* A new intent row is an abstract like. *)
LEMMA LikeSimulation ==
    ASSUME NEW x \in Pairs, {y \in Pairs : intents'[y] # "none"} = liked \cup {x},
           UNCHANGED <<matches, blocks>>
    PROVE  Promise!Next
<1>1. Promise!Like(x)
  BY DEF Promise!Like, liked, Stage, MatchActive, MatchRow
<1> QED
  BY <1>1, SamePairs DEF Promise!Next

(* Every statement is an abstract step or a stutter. *)
LEMMA StepSimulation == IInv /\ [Next]_vars => [Promise!Next]_(Promise!vars)
<1> SUFFICES ASSUME IInv, [Next]_vars PROVE Promise!Next \/ UNCHANGED Promise!vars
  OBVIOUS
<1> USE DEF rows, history
<1>0. TypeOK /\ OneRow /\ Provenance
  BY DEF IInv
<1>1. ASSUME NEW p \in Procs, LikeIntent(p)
      PROVE  Promise!Next \/ UNCHANGED Promise!vars
  <2> DEFINE x == handler[p].pair
  <2>1. x \in Pairs
    BY <1>0, <1>1, PairOfHandler DEF TypeOK, LikeIntent, At, LikeSteps, PairSteps
  <2>2. CASE intents[x] = "none"
    <3>1. {y \in Pairs : intents'[y] # "none"} = liked \cup {x}
      BY <1>0, <1>1, <2>1, <2>2 DEF TypeOK, LikeIntent, liked
    <3>2. UNCHANGED <<matches, blocks>>
      BY <1>1 DEF LikeIntent
    <3> QED
      BY <2>1, <3>1, <3>2, LikeSimulation
  <2>3. CASE intents[x] # "none"
    BY <1>1, <2>3, Stutter DEF LikeIntent
  <2> QED
    BY <2>2, <2>3
<1>2. ASSUME NEW p \in Procs, LikeMatch(p)
      PROVE  Promise!Next \/ UNCHANGED Promise!vars
  <2> DEFINE x == handler[p].pair
  <2>1. x \in Pairs /\ Swap(x) \in Pairs /\ Swap(Swap(x)) = x
    BY <1>0, <1>2, PairOfHandler DEF TypeOK, LikeMatch, At, LikeSteps, PairSteps
  <2>2. CASE MatchRow(x)
    BY <1>2, <2>2, Stutter DEF LikeMatch
  <2>3. CASE ~MatchRow(x)
    <3>1. matches' = [matches EXCEPT ![x] = "active"] /\ UNCHANGED <<intents, blocks>>
      BY <1>2, <2>3 DEF LikeMatch
    <3>2. x \in liked /\ Swap(x) \in liked
      BY <1>0, <1>2, <2>1 DEF Provenance, LikeMatch, At, liked
    <3>3. Stage(x) = "apart"
      BY <2>3 DEF Stage, MatchRow, MatchActive
    <3>4. ASSUME NEW y \in Pairs
          PROVE  Stage(y)' = IF y \in {x, Swap(x)} THEN "matched" ELSE Stage(y)
      <4>1. CASE y \in {x, Swap(x)}
        BY <1>0, <2>1, <3>1, <4>1 DEF TypeOK, Stage, MatchActive
      <4>2. CASE y \notin {x, Swap(x)}
        <5>1. Swap(y) \in Pairs /\ Swap(y) # x
          BY <2>1, <4>2, SwapPair
        <5> QED
          BY <1>0, <3>1, <4>2, <5>1 DEF TypeOK, Stage, MatchActive, MatchRow
      <4> QED
        BY <4>1, <4>2
    <3>5. Promise!Meet(x)
      BY <2>1, <3>1, <3>2, <3>3, <3>4, SamePairs DEF Promise!Meet, liked
    <3> QED
      BY <2>1, <3>5, SamePairs DEF Promise!Next
  <2> QED
    BY <2>2, <2>3
<1>3. ASSUME NEW p \in Procs, BlockMatches(p)
      PROVE  Promise!Next \/ UNCHANGED Promise!vars
  <2>1. Both(p) \subseteq Pairs /\ \A x \in Both(p) : Swap(x) \in Both(p)
    BY <1>0, <1>3, PairOfHandler DEF TypeOK, BlockMatches, At, LikeSteps, PairSteps, Both
  <2>2. Promise!Part(Both(p))
    BY <1>0, <1>3, <2>1, PartStep DEF BlockMatches
  <2> QED
    BY <2>1, <2>2, SamePairs DEF Promise!Next
<1>4. ASSUME NEW p \in Procs, UnmatchStep(p)
      PROVE  Promise!Next \/ UNCHANGED Promise!vars
  <2>1. Both(p) \subseteq Pairs /\ \A x \in Both(p) : Swap(x) \in Both(p)
    BY <1>0, <1>4, PairOfHandler
       DEF TypeOK, UnmatchStep, UnmatchA, UnmatchB, At, LikeSteps, PairSteps, Both
  <2>2. CASE UNCHANGED matches
    BY <1>4, <2>2, Stutter DEF UnmatchStep, UnmatchA, UnmatchB
  <2>3. ASSUME NEW x \in Both(p), matches[x] = "active", NEW st \in ClosedStates,
               matches' = [matches EXCEPT ![x] = st], UNCHANGED <<intents, blocks>>
        PROVE  Promise!Next
    <3>1. Both(p) = {x, Swap(x)} /\ x \in Pairs
      BY <2>1, <2>3, SwapPair DEF Both
    <3>2. matches[Swap(x)] = "none"
      BY <1>0, <2>3, <3>1 DEF OneRow
    <3>3. \A y \in Pairs \ Both(p) : matches'[y] = matches[y]
      BY <1>0, <2>3, <3>1 DEF TypeOK
    <3>4. \A y \in Both(p) : (matches'[y] = "none" <=> matches[y] = "none") /\ matches'[y] # "active"
      BY <1>0, <2>1, <2>3, <3>1, <3>2 DEF TypeOK, ClosedStates
    <3>5. Promise!Part(Both(p))
      BY <1>0, <2>1, <2>3, <3>3, <3>4, PartStep
    <3> QED
      BY <2>1, <3>5, SamePairs DEF Promise!Next
  <2> QED
    BY <1>4, <2>2, <2>3 DEF UnmatchStep, UnmatchA, UnmatchB, Both, ClosedStates
<1>5. ASSUME NEW p \in Procs, DeleteMatches(p)
      PROVE  Promise!Next \/ UNCHANGED Promise!vars
  <2> DEFINE S == Involving(Me(p))
  <2>1. S \subseteq Pairs /\ \A x \in S : Swap(x) \in S
    BY SwapPair DEF Involving, Swap, Pairs
  <2>2. \A x \in S : (matches'[x] = "none" <=> matches[x] = "none") /\ matches'[x] # "active"
    BY <1>5, <2>1 DEF DeleteMatches
  <2>3. \A x \in Pairs \ S : matches'[x] = matches[x]
    BY <1>5 DEF DeleteMatches
  <2>4. Promise!Part(S)
    BY <1>0, <1>5, <2>1, <2>2, <2>3, PartStep DEF DeleteMatches
  <2> QED
    BY <2>1, <2>4, SamePairs DEF Promise!Next
<1>6. ASSUME NEW p \in Procs, BlockInsert(p) \/ Unblock(p) \/ DeleteBlocks(p)
      PROVE  Promise!Next \/ UNCHANGED Promise!vars
  <2>1. CASE BlockInsert(p)
    <3>1. handler[p].pair \in Pairs
      BY <1>0, <2>1, PairOfHandler DEF TypeOK, BlockInsert, At, LikeSteps, PairSteps
    <3>2. Promise!Block(handler[p].pair)
      BY <2>1 DEF BlockInsert, Promise!Block, Stage, MatchActive, MatchRow
    <3> QED
      BY <3>1, <3>2, SamePairs DEF Promise!Next
  <2>2. CASE Unblock(p)
    <3>1. handler[p].pair \in Pairs
      BY <1>0, <2>2, PairOfHandler DEF TypeOK, Unblock, At, LikeSteps, PairSteps
    <3>2. Promise!Unblock({handler[p].pair})
      BY <2>2 DEF Unblock, Promise!Unblock, Stage, MatchActive, MatchRow
    <3> QED
      BY <3>1, <3>2, SamePairs DEF Promise!Next
  <2>3. CASE DeleteBlocks(p)
    <3>1. Promise!Unblock(Involving(Me(p)))
      BY <2>3 DEF DeleteBlocks, Promise!Unblock, Stage, MatchActive, MatchRow
    <3>2. Involving(Me(p)) \subseteq Pairs
      BY DEF Involving
    <3> QED
      BY <3>1, <3>2, SamePairs DEF Promise!Next
  <2> QED
    BY <1>6, <2>1, <2>2, <2>3
<1>7. ASSUME NEW p \in Procs, Revoke(p) \/ BlockIntents(p) \/ DeleteIntents(p)
      PROVE  UNCHANGED Promise!vars
  <2>1. UNCHANGED <<matches, blocks>>
    BY <1>7 DEF Revoke, BlockIntents, DeleteIntents
  <2>2. \A x \in Pairs : intents'[x] = "none" <=> intents[x] = "none"
    BY <1>0, <1>7 DEF TypeOK, Revoke, BlockIntents, DeleteIntents
  <2> QED
    BY <2>1, <2>2, IntentStutter
<1>8. CASE \E p \in Procs : Step(p)
  <2>1. ASSUME NEW p \in Procs,
               \/ LikeConsume(p) \/ LikeReciprocal(p) \/ LikeNotify(p) \/ DiscoverPersist(p)
               \/ BlockGrants(p) \/ DeleteMember(p) \/ DeleteGrants(p)
        PROVE  UNCHANGED Promise!vars
    BY <2>1, Stutter
       DEF LikeConsume, LikeReciprocal, LikeNotify, DiscoverPersist, BlockGrants, DeleteMember,
           DeleteGrants
  <2> QED
    BY <1>1, <1>2, <1>3, <1>4, <1>5, <1>6, <1>7, <1>8, <2>1
       DEF Step, LikeStep, BlockStep, DeleteStep
<1>9. CASE \E p \in Procs, op \in Ops : \E x \in Targets(op), t \in 0..clock : Begin(p, op, x, t)
  BY <1>9, Stutter DEF Begin
<1>10. CASE \/ \E p \in Procs : Abort(p)
            \/ \E m \in Members : DropDeck(m) \/ Resume(m)
            \/ \E x \in Pairs : PruneGrant(x) \/ PurgeSeen(x)
            \/ Tick \/ UNCHANGED vars
  BY <1>10, Stutter DEF Abort, DropDeck, Resume, PruneGrant, PurgeSeen, Tick, vars
<1> QED
  BY <1>8, <1>9, <1>10 DEF Next

(* The services implement the abstract courtship: a pair meets only after  *)
(* both likes are on record, and a pair that parted never meets again,     *)
(* however the statements of concurrent requests interleave.               *)
THEOREM Refinement == Spec => CourtshipSpec
<1>1. Init => Promise!Init
  BY SamePairs DEF Init, Promise!Init, Stage, MatchActive, MatchRow, Pairs, Swap
<1> QED
  BY <1>1, StepSimulation, Invariant, PTL DEF Spec, CourtshipSpec, Promise!Spec

-----------------------------------------------------------------------------
(* Why the ledger of seen candidates may be purged by age: a row is never  *)
(* older than the grant it covers by more than two spans of a request, and *)
(* SeenRetention leaves that much room.                                    *)

\* A deck in flight is not late, and what it read as unseen was not written long ago.
Dated ==
    \A p \in Procs : At(p, "discover.persist") =>
        LET x == handler[p].pair
            t == handler[p].time
        IN  /\ t <= clock /\ clock <= t + MaxSpan
            /\ seen[x] # Never => seen[x] >= t - MaxSpan

Covered ==
    \A x \in Pairs : Live(x) => seen[x] # Never /\ seen[x] >= grants[x] - 2 * MaxSpan

Ledger == TypeOK /\ Dated /\ Covered

(* Steps that at most take grants away and end or move on handlers. *)
LEMMA KeepsLedger ==
    ASSUME Ledger, clock' = clock, seen' = seen,
           \A x \in Pairs : grants'[x] \in {grants[x], Never},
           \A p \in Procs : At(p, "discover.persist")' => handler'[p] = handler[p]
    PROVE  Dated' /\ Covered'
<1>1. Dated'
  BY DEF Ledger, Dated, At
<1>2. Covered'
  BY DEF Ledger, Covered, Live
<1> QED
  BY <1>1, <1>2

LEMMA Elsewhere ==
    ASSUME TypeOK, NEW p \in Procs, NEW h, h.at # "discover.persist",
           handler' = [handler EXCEPT ![p] = h]
    PROVE  \A q \in Procs : At(q, "discover.persist")' => handler'[q] = handler[q]
BY DEF TypeOK, At

LEMMA GoingElsewhere ==
    ASSUME TypeOK, NEW p \in Procs, handler[p].at \in PairSteps \cup DeleteSteps,
           NEW step, step # "discover.persist", Goto(p, step)
    PROVE  \A q \in Procs : At(q, "discover.persist")' => handler'[q] = handler[q]
<1> DEFINE h == [handler[p] EXCEPT !.at = step]
<1>1. handler[p] \in PairHandlers \cup DeleteHandlers
  BY KindOfHandler DEF TypeOK
<1>2. h.at = step
  BY <1>1 DEF PairHandlers, DeleteHandlers
<1>3. handler' = [handler EXCEPT ![p] = h]
  BY DEF Goto
<1> QED
  BY <1>2, <1>3, Elsewhere

LEMMA ReturningElsewhere ==
    ASSUME TypeOK, NEW p \in Procs, Return(p)
    PROVE  \A q \in Procs : At(q, "discover.persist")' => handler'[q] = handler[q]
BY Elsewhere DEF Return, Idle

(* The statements of a request, but for the write of a deck *)
LEMMA StepKeepsLedger ==
    ASSUME Ledger, NEW p \in Procs, Step(p), ~DiscoverPersist(p)
    PROVE  Dated' /\ Covered'
<1> USE DEF Step, LikeStep, BlockStep, UnmatchStep, DeleteStep, LikeConsume, LikeIntent,
      LikeReciprocal, LikeMatch, LikeNotify, Revoke, BlockInsert, BlockMatches, BlockIntents,
      BlockGrants, Unblock, UnmatchA, UnmatchB, DeleteMember, DeleteIntents, DeleteMatches,
      DeleteBlocks, DeleteGrants
<1>1. clock' = clock /\ seen' = seen
  BY DEF rows
<1>2. \A x \in Pairs : grants'[x] \in {grants[x], Never}
  BY DEF rows, Ledger, TypeOK
<1>3. handler[p].at \in PairSteps \cup DeleteSteps
  BY DEF At, PairSteps, LikeSteps, DeleteSteps
<1>4. Return(p) \/ \E step : step # "discover.persist" /\ Goto(p, step)
  BY DEF rows
<1>5. \A q \in Procs : At(q, "discover.persist")' => handler'[q] = handler[q]
  BY <1>3, <1>4, GoingElsewhere, ReturningElsewhere DEF Ledger
<1> QED
  BY <1>1, <1>2, <1>5, KeepsLedger

LEMMA LedgerInductive == Ledger /\ [Next]_vars => Ledger'
<1> SUFFICES ASSUME Ledger, [Next]_vars PROVE Dated' /\ Covered'
  BY TypeInductive DEF Ledger
<1> USE TimeAssumption
<1>0. clock \in Nat /\ grants \in [Pairs -> Nat \cup {Never}] /\ seen \in [Pairs -> Nat \cup {Never}]
  BY DEF Ledger, TypeOK
<1>1. ASSUME NEW p \in Procs, DiscoverPersist(p) PROVE Dated' /\ Covered'
  <2> DEFINE y == handler[p].pair
             t == handler[p].time
  <2>1. y \in Pairs /\ t \in Nat /\ t <= clock /\ clock <= t + MaxSpan
    BY <1>1, PairOfHandler DEF DiscoverPersist, At, PairSteps, Ledger, TypeOK, Dated
  <2>2. seen[y] # Never => seen[y] >= t - MaxSpan
    BY <1>1 DEF DiscoverPersist, Ledger, Dated
  <2>3. PICK now \in t..clock :
          /\ grants' = [grants EXCEPT ![y] = now]
          /\ seen' = IF seen[y] = Never THEN [seen EXCEPT ![y] = now] ELSE seen
    BY <1>1 DEF DiscoverPersist
  <2>4. clock' = clock /\ now \in Nat
    BY <1>0, <1>1, <2>1 DEF DiscoverPersist
  <2>5. seen'[y] \in Nat /\ seen'[y] >= now - 2 * MaxSpan
    BY <1>0, <2>1, <2>2, <2>3, <2>4
  <2>6. Covered'
    BY <1>0, <2>1, <2>3, <2>4, <2>5 DEF Covered, Ledger, Live
  <2>7. Dated'
    <3> SUFFICES ASSUME NEW q \in Procs, At(q, "discover.persist")'
                 PROVE  LET x == handler'[q].pair
                            u == handler'[q].time
                        IN  /\ u <= clock' /\ clock' <= u + MaxSpan
                            /\ seen'[x] # Never => seen'[x] >= u - MaxSpan
      BY DEF Dated
    <3>1. handler'[q] = handler[q] /\ At(q, "discover.persist")
      BY <1>1, ReturningElsewhere DEF DiscoverPersist, Ledger, At
    <3>2. /\ handler[q].pair \in Pairs /\ handler[q].time \in Nat
          /\ handler[q].time <= clock /\ clock <= handler[q].time + MaxSpan
          /\ seen[handler[q].pair] # Never => seen[handler[q].pair] >= handler[q].time - MaxSpan
      BY <3>1, PairOfHandler DEF At, PairSteps, Ledger, TypeOK, Dated
    <3>3. CASE handler[q].pair = y /\ seen[y] = Never
      BY <1>0, <2>1, <2>3, <2>4, <3>1, <3>2, <3>3
    <3>4. CASE handler[q].pair # y \/ seen[y] # Never
      BY <1>0, <2>1, <2>3, <2>4, <3>1, <3>2, <3>4
    <3> QED
      BY <3>3, <3>4
  <2> QED
    BY <2>6, <2>7
<1>2. ASSUME NEW p \in Procs, Step(p) \/ Abort(p), ~DiscoverPersist(p) PROVE Dated' /\ Covered'
  BY <1>2, StepKeepsLedger, KeepsLedger, ReturningElsewhere DEF Abort, rows, Ledger
<1>3. ASSUME NEW p \in Procs, NEW op \in Ops, NEW x \in Targets(op), NEW t \in 0..clock,
             Begin(p, op, x, t)
      PROVE  Dated' /\ Covered'
  <2>1. clock' = clock /\ seen' = seen /\ grants' = grants
    BY <1>3 DEF Begin, rows
  <2>2. Covered'
    BY <2>1 DEF Ledger, Covered, Live
  <2>3. /\ handler'[p] = [at |-> FirstStep[op], pair |-> x, time |-> t]
        /\ \A q \in Procs \ {p} : handler'[q] = handler[q]
    BY <1>3 DEF Begin, Ledger, TypeOK
  <2>4. FirstStep[op] = "discover.persist" => op = "discover"
    BY OpsAssumption DEF FirstStep, AllOps
  <2>5. op = "discover" => t = clock /\ seen[x] = Never
    BY <1>3 DEF Begin, Eligible
  <2>6. Dated'
    BY <1>0, <2>1, <2>3, <2>4, <2>5 DEF Dated, Ledger, At
  <2> QED
    BY <2>2, <2>6
<1>4. ASSUME NEW m \in Members, DropDeck(m) \/ Resume(m) PROVE Dated' /\ Covered'
  BY <1>4, KeepsLedger DEF DropDeck, Resume, rows, Ledger, TypeOK
<1>5. ASSUME NEW x \in Pairs, PruneGrant(x) PROVE Dated' /\ Covered'
  BY <1>5, KeepsLedger DEF PruneGrant, Ledger, TypeOK
<1>6. ASSUME NEW x \in Pairs, PurgeSeen(x) PROVE Dated' /\ Covered'
  <2>1. /\ clock' = clock /\ grants' = grants /\ handler' = handler
        /\ seen[x] \in Nat /\ seen[x] < clock - SeenRetention
        /\ seen' = [seen EXCEPT ![x] = Never]
    BY <1>0, <1>6 DEF PurgeSeen
  <2>2. ~Live(x)
    BY <1>0, <2>1 DEF Live, Ledger, Covered
  <2>3. \A y \in Pairs \ {x} : seen'[y] = seen[y]
    BY <2>1
  <2>4. seen'[x] = Never
    BY <1>0, <2>1
  <2>5. Covered'
    BY <2>1, <2>2, <2>3 DEF Ledger, Covered, Live
  <2>6. \A q \in Procs : At(q, "discover.persist") => handler[q].pair \in Pairs
    BY PairOfHandler DEF At, PairSteps, Ledger, TypeOK
  <2>7. Dated'
    BY <2>1, <2>3, <2>4, <2>6 DEF Ledger, Dated, At
  <2> QED
    BY <2>5, <2>7
<1>7. CASE Tick
  <2>1. clock' = clock + 1 /\ UNCHANGED <<grants, seen, handler>>
    BY <1>7 DEF Tick, rows
  <2>2. Covered'
    BY <1>0, <2>1 DEF Ledger, Covered, Live
  <2>3. \A q \in Procs : At(q, "discover.persist") => handler[q].time \in Nat
    BY PairOfHandler DEF At, PairSteps, Ledger, TypeOK
  <2>4. Dated'
    BY <1>0, <1>7, <2>1, <2>3 DEF Ledger, Dated, At, Tick
  <2> QED
    BY <2>2, <2>4
<1>8. CASE UNCHANGED vars
  BY <1>8 DEF vars, rows, Ledger, Dated, Covered, Live, At
<1> QED
  BY <1>1, <1>2, <1>3, <1>4, <1>5, <1>6, <1>7, <1>8 DEF Next

(* A grant that can still be liked has its row in the ledger, for every    *)
(* life of a grant and every retention that exceeds it by twice the span   *)
(* of a request, less one (services/discovery/service.ts and the two       *)
(* purges of the housekeeper).                                             *)
THEOREM LedgerCovers == Spec => []SeenCoversGrant
<1>1. Init => Ledger
  <2>1. ASSUME Init PROVE Dated /\ Covered
    BY <2>1 DEF Init, Dated, Covered, Live, At, Idle
  <2> QED
    BY <2>1, InitialType DEF Ledger
<1>2. Ledger => SeenCoversGrant
  BY DEF Ledger, Covered, SeenCoversGrant
<1> QED
  BY <1>1, <1>2, LedgerInductive, PTL DEF Spec

-----------------------------------------------------------------------------
(* Both parties of a match row are notified, or the like that made the row *)
(* is about to, or it was cut off.                                         *)
BothNotified ==
    \A x \in Pairs : matches[x] # "none" =>
        \/ {x, Swap(x)} \subseteq notified
        \/ x \in cut
        \/ \E p \in Procs : At(p, "like.notify") /\ x \in Both(p)

(* Steps that make no row and end no like that has yet to notify. *)
LEMMA KeepsNotified ==
    ASSUME BothNotified, notified \subseteq notified', cut \subseteq cut',
           \A x \in Pairs : matches'[x] # "none" => matches[x] # "none",
           \A p \in Procs : At(p, "like.notify") => handler'[p] = handler[p]
    PROVE  BothNotified'
BY DEF BothNotified, At, Both

LEMMA OthersKept ==
    ASSUME TypeOK, NEW p \in Procs, ~At(p, "like.notify"),
           Return(p) \/ \E step \in PairSteps \cup DeleteSteps : Goto(p, step)
    PROVE  \A q \in Procs : At(q, "like.notify") => handler'[q] = handler[q]
BY DEF TypeOK, Return, Goto, At

LEMMA StepKeepsNotified ==
    ASSUME TypeOK, BothNotified, NEW p \in Procs, Step(p), ~LikeMatch(p), ~LikeNotify(p)
    PROVE  BothNotified'
<1> USE DEF Step, LikeStep, BlockStep, UnmatchStep, DeleteStep, LikeConsume, LikeIntent,
      LikeReciprocal, Revoke, DiscoverPersist, BlockInsert, BlockMatches, BlockIntents,
      BlockGrants, Unblock, UnmatchA, UnmatchB, DeleteMember, DeleteIntents, DeleteMatches,
      DeleteBlocks, DeleteGrants
<1>1. notified' = notified /\ cut' = cut
  BY DEF rows, history
<1>2. \A x \in Pairs : matches'[x] # "none" => matches[x] # "none"
  BY DEF rows, TypeOK
<1>3. ~At(p, "like.notify")
  BY DEF At
<1>4. Return(p) \/ \E step \in PairSteps \cup DeleteSteps : Goto(p, step)
  BY DEF rows, PairSteps, LikeSteps, DeleteSteps
<1> QED
  BY <1>1, <1>2, <1>3, <1>4, OthersKept, KeepsNotified

LEMMA NotifiedInductive == IInv /\ BothNotified /\ [Next]_vars => BothNotified'
<1> SUFFICES ASSUME IInv, BothNotified, [Next]_vars PROVE BothNotified'
  OBVIOUS
<1>0. TypeOK
  BY DEF IInv
<1>1. ASSUME NEW p \in Procs, LikeMatch(p) PROVE BothNotified'
  <2> DEFINE y == handler[p].pair
  <2>1. At(p, "like.match") /\ y \in Pairs /\ Swap(y) \in Pairs /\ handler[p].at \in PairSteps
    BY <1>0, <1>1, PairOfHandler DEF LikeMatch, At, PairSteps, LikeSteps, TypeOK
  <2>2. /\ handler'[p].at = "like.notify" /\ handler'[p].pair = y
        /\ \A q \in Procs \ {p} : handler'[q] = handler[q]
    BY <1>0, <1>1, <2>1, GotoEffect DEF LikeMatch, TypeOK
  <2>3. ASSUME NEW x \in Pairs, matches'[x] # "none"
        PROVE  matches[x] # "none" \/ x = y
    BY <1>0, <1>1, <2>1, <2>3 DEF LikeMatch, TypeOK
  <2>4. notified' = notified /\ cut' = cut
    BY <1>1 DEF LikeMatch, history
  <2>5. \A q \in Procs : At(q, "like.notify") => At(q, "like.notify")' /\ Both(q)' = Both(q)
    BY <2>1, <2>2 DEF At, Both
  <2>6. At(p, "like.notify")' /\ \A x \in Pairs : x = y => x \in Both(p)'
    BY <2>2 DEF At, Both
  <2> QED
    BY <2>3, <2>4, <2>5, <2>6 DEF BothNotified
<1>2. ASSUME NEW p \in Procs, LikeNotify(p) PROVE BothNotified'
  <2>1. /\ notified' = notified \cup Both(p) /\ cut' = cut /\ matches' = matches
        /\ handler[p].pair \in Pairs /\ Swap(Swap(handler[p].pair)) = handler[p].pair
    BY <1>0, <1>2, PairOfHandler DEF LikeNotify, At, PairSteps, LikeSteps, TypeOK, history
  <2>2. \A x \in Both(p) : {x, Swap(x)} \subseteq notified'
    BY <2>1 DEF Both
  <2>3. \A q \in Procs \ {p} : handler'[q] = handler[q]
    BY <1>0, <1>2 DEF LikeNotify, Return, TypeOK
  <2>4. \A q \in Procs \ {p} : At(q, "like.notify") => At(q, "like.notify")' /\ Both(q)' = Both(q)
    BY <2>3 DEF At, Both
  <2> QED
    BY <2>1, <2>2, <2>4 DEF BothNotified
<1>3. ASSUME NEW p \in Procs, Abort(p) PROVE BothNotified'
  <2>1. /\ notified' = notified /\ matches' = matches /\ cut \subseteq cut'
        /\ At(p, "like.notify") => Both(p) \subseteq cut'
    BY <1>3 DEF Abort, rows, At
  <2>2. \A q \in Procs \ {p} : handler'[q] = handler[q]
    BY <1>0, <1>3 DEF Abort, Return, TypeOK
  <2>3. \A q \in Procs \ {p} : At(q, "like.notify") => At(q, "like.notify")' /\ Both(q)' = Both(q)
    BY <2>2 DEF At, Both
  <2> QED
    BY <2>1, <2>3 DEF BothNotified
<1>4. ASSUME NEW p \in Procs, NEW op \in Ops, NEW x \in Targets(op), NEW t \in 0..clock,
             Begin(p, op, x, t)
      PROVE  BothNotified'
  <2>1. \A q \in Procs : At(q, "like.notify") => handler'[q] = handler[q]
    BY <1>0, <1>4 DEF Begin, At, Idle, TypeOK
  <2> QED
    BY <1>4, <2>1, KeepsNotified DEF Begin, rows, history
<1>5. CASE \/ \E m \in Members : DropDeck(m) \/ Resume(m)
           \/ \E x \in Pairs : PruneGrant(x) \/ PurgeSeen(x)
           \/ Tick \/ UNCHANGED vars
  BY <1>5, KeepsNotified DEF DropDeck, Resume, PruneGrant, PurgeSeen, Tick, vars, rows, history
<1> QED
  BY <1>0, <1>1, <1>2, <1>3, <1>4, <1>5, StepKeepsNotified DEF Next

(* A pair never has two match rows, and no party of one is left without    *)
(* notice by anything but a like that was cut off.                         *)
THEOREM RowsAndNotices == Spec => []OneRowBothNotified
<1>1. Init => BothNotified
  BY DEF Init, BothNotified
<1>2. IInv /\ BothNotified => OneRowBothNotified
  BY DEF IInv, OneRow, BothNotified, OneRowBothNotified
<1> QED
  BY <1>1, <1>2, Invariant, NotifiedInductive, PTL DEF Spec

-----------------------------------------------------------------------------
(* One request at a time, as when the two members use the service in turn. *)
Serial == \A p, q \in Procs : p = q

Blocked(x) == x \in blocks \/ Swap(x) \in blocks

\* The handler of a block, or of a deletion, is still at one of these steps.
Blocking(x, steps) == \E p \in Procs : handler[p].at \in steps /\ x \in Both(p)
Deleting(m, steps) == \E p \in Procs : handler[p].at \in steps /\ m = Me(p)

(* What a block leaves open, while it runs. *)
Closing ==
    \A x \in Pairs : Blocked(x) =>
        /\ matches[x] = "active" => Blocking(x, {"block.matches"})
        /\ intents[x] = "active" => Blocking(x, {"block.matches", "block.intents"})
        /\ grants[x] # Never => Blocking(x, {"block.matches", "block.intents", "block.grants"})

(* What a deletion leaves open, while it runs. *)
Leaving ==
    \A x \in Pairs : \A m \in deleted \cap {x[1], x[2]} :
        /\ intents[x] = "active" /\ m = x[1] => Deleting(m, {"delete.intents"})
        /\ matches[x] = "active" => Deleting(m, {"delete.intents", "delete.matches"})
        /\ grants[x] # Never => Deleting(m, {"delete.intents", "delete.matches", "delete.blocks", "delete.grants"})

(* A like that took its grant, and a deck that was read, are of two who    *)
(* are neither blocked nor deleted.                                        *)
Opening == {"like.intent", "like.reciprocal", "like.match", "like.notify", "discover.persist"}
Free(x) == ~Blocked(x) /\ x[1] \notin deleted /\ x[2] \notin deleted
InBetween == \A p \in Procs : handler[p].at \in Opening => Free(handler[p].pair)

SerialInv == Closing /\ Leaving /\ InBetween

(* Where no block and no deletion runs, nothing is open. *)
Settled ==
    \A x \in Pairs : 
        /\ matches[x] = "active" \/ grants[x] # Never => Free(x)
        /\ intents[x] = "active" => ~Blocked(x) /\ x[1] \notin deleted

BlockWork == {"block.matches", "block.intents", "block.grants"}
DeleteWork == {"delete.intents", "delete.matches", "delete.blocks", "delete.grants"}

LEMMA SettledWhenNoneWorks ==
    ASSUME Closing, Leaving, \A p \in Procs : handler[p].at \notin BlockWork \cup DeleteWork
    PROVE  Settled
<1> SUFFICES ASSUME NEW x \in Pairs 
             PROVE  /\ matches[x] = "active" \/ grants[x] # Never => Free(x)
                    /\ intents[x] = "active" => ~Blocked(x) /\ x[1] \notin deleted
  BY DEF Settled
<1>1. \A m, y : ~Deleting(m, {"delete.intents"}) /\ ~Deleting(m, {"delete.intents", "delete.matches"})
         /\ ~Deleting(m, {"delete.intents", "delete.matches", "delete.blocks", "delete.grants"})
         /\ ~Blocking(y, {"block.matches"}) /\ ~Blocking(y, {"block.matches", "block.intents"})
         /\ ~Blocking(y, {"block.matches", "block.intents", "block.grants"})
  BY DEF Deleting, Blocking, BlockWork, DeleteWork
<1>2. ~Blocked(x) \/ (matches[x] # "active" /\ intents[x] # "active" /\ grants[x] = Never)
  BY <1>1 DEF Closing
<1>3. \A m \in deleted \cap {x[1], x[2]} :
         matches[x] # "active" /\ grants[x] = Never /\ (m = x[1] => intents[x] # "active")
  BY <1>1 DEF Leaving
<1> QED BY <1>2, <1>3 DEF Free

LEMMA SettledKeeps ==
    ASSUME Settled
    PROVE  Closing /\ Leaving
BY DEF Settled, Closing, Leaving, Free

LEMMA GotoEffectAny ==
    ASSUME TypeOK, NEW p \in Procs, handler[p].at \in PairSteps \cup DeleteSteps, NEW step, Goto(p, step)
    PROVE  handler'[p].at = step /\ handler'[p].pair = handler[p].pair
<1>1. handler[p] \in PairHandlers \cup DeleteHandlers
  BY KindOfHandler DEF TypeOK
<1>2. handler'[p] = [handler[p] EXCEPT !.at = step]
  BY DEF Goto, TypeOK
<1> QED BY <1>1, <1>2 DEF PairHandlers, DeleteHandlers

LEMMA OnlyHandler ==
    ASSUME Serial, NEW p \in Procs
    PROVE  /\ \A x, steps : Blocking(x, steps) <=> handler[p].at \in steps /\ x \in Both(p)
           /\ \A m, steps : Deleting(m, steps) <=> handler[p].at \in steps /\ m = Me(p)
           /\ \A x, steps : Blocking(x, steps)' <=> handler'[p].at \in steps /\ x \in Both(p)'
           /\ \A m, steps : Deleting(m, steps)' <=> handler'[p].at \in steps /\ m = Me(p)'
           /\ \A q \in Procs : q = p
BY DEF Serial, Blocking, Deleting

(* The statements of a like, of an unmatch, and of the requests of one     *)
(* statement: nothing is open before them, and what they open is free.     *)
LEMMA SerialOpening ==
    ASSUME Serial, TypeOK, OneRow, SerialInv, NEW p \in Procs,
           \/ LikeStep(p) \/ Revoke(p) \/ DiscoverPersist(p) \/ Unblock(p) \/ UnmatchStep(p)
    PROVE  SerialInv'
<1>0. PICK y : y = handler[p].pair
  OBVIOUS
<1>1. \A q \in Procs : q = p
  BY OnlyHandler
<1>2. handler[p].at \in PairSteps /\ handler[p].at \notin BlockWork \cup DeleteWork
  BY DEF LikeStep, UnmatchStep, LikeConsume, LikeIntent, LikeReciprocal, LikeMatch, LikeNotify, Revoke,
         DiscoverPersist, Unblock, UnmatchA, UnmatchB, At, PairSteps, LikeSteps, BlockWork, DeleteWork
<1>3. y \in Pairs /\ Swap(y) \in Pairs /\ Swap(Swap(y)) = y /\ handler[p].time \in Nat
  <2>1. handler \in [Procs -> Handlers] /\ MaxClock \in Nat
    BY TimeAssumption DEF TypeOK
  <2>2. handler[p].pair \in Pairs /\ Swap(handler[p].pair) \in Pairs
        /\ Swap(Swap(handler[p].pair)) = handler[p].pair /\ handler[p].time \in Times
    BY <1>2, <2>1, PairOfHandler
  <2>3. handler[p].time \in Nat
    BY <2>1, <2>2
  <2> QED BY <1>0, <2>2, <2>3
<1>4. Settled
  BY <1>1, <1>2, SettledWhenNoneWorks DEF SerialInv
<1>5. handler[p].at \in Opening => Free(y)
  BY <1>0 DEF SerialInv, InBetween
<1>6. ASSUME NEW step, Goto(p, step) PROVE handler'[p].at = step /\ handler'[p].pair = y
  BY <1>0, <1>2, <1>6, GotoEffectAny
<1>7. ASSUME Return(p) PROVE handler'[p].at = "idle"
  BY <1>7 DEF Return, Idle, TypeOK
<1>8. ASSUME Settled', \A z : z = handler'[p].pair /\ handler'[p].at \in Opening => Free(z)'
      PROVE  SerialInv'
  <2>1. Closing' /\ Leaving'
    BY <1>8 DEF Settled, Closing, Leaving, Free
  <2> QED BY <1>1, <1>8, <2>1 DEF SerialInv, InBetween
<1>9. CASE LikeConsume(p)
  <2>1. UNCHANGED <<deleted, intents, matches, blocks>>
    BY <1>9 DEF LikeConsume
  <2>2. CASE grants[y] = handler[p].time
    <3>1. grants' = [grants EXCEPT ![y] = Never] /\ handler'[p].at = "like.intent" /\ handler'[p].pair = y
      BY <1>0, <1>6, <1>9, <2>2 DEF LikeConsume
    <3>2. Free(y)
      BY <1>3, <1>4, <2>2 DEF Settled
    <3>3. Settled'
      BY <1>3, <1>4, <2>1, <3>1 DEF Settled, Free, Blocked, TypeOK
    <3> QED BY <1>8, <2>1, <3>1, <3>2, <3>3 DEF Free, Blocked
  <2>3. CASE grants[y] # handler[p].time
    <3>1. grants' = grants /\ handler'[p].at = "idle"
      BY <1>0, <1>7, <1>9, <2>3 DEF LikeConsume
    <3>2. Settled'
      BY <1>4, <2>1, <3>1 DEF Settled, Free, Blocked
    <3> QED BY <1>8, <3>1, <3>2 DEF Opening
  <2> QED BY <2>2, <2>3
<1>10. CASE LikeIntent(p)
  <2>1. /\ UNCHANGED <<deleted, grants, matches, blocks>> /\ Free(y)
        /\ intents' = IF intents[y] = "none" THEN [intents EXCEPT ![y] = "active"] ELSE intents
        /\ handler'[p].at = "like.reciprocal" /\ handler'[p].pair = y
    BY <1>0, <1>5, <1>6, <1>10 DEF LikeIntent, At, Opening
  <2>2. Settled'
    BY <1>3, <1>4, <2>1 DEF Settled, Free, Blocked, TypeOK
  <2> QED BY <1>8, <2>1, <2>2 DEF Free, Blocked
<1>11. CASE LikeReciprocal(p)
  <2>1. /\ UNCHANGED <<deleted, grants, intents, matches, blocks>> /\ Free(y)
        /\ \/ handler'[p].at = "like.match" /\ handler'[p].pair = y
           \/ handler'[p].at = "idle"
    BY <1>0, <1>5, <1>6, <1>7, <1>11 DEF LikeReciprocal, At, Opening, rows
  <2>2. Settled'
    BY <1>4, <2>1 DEF Settled, Free, Blocked
  <2> QED BY <1>8, <2>1, <2>2 DEF Free, Blocked, Opening
<1>12. CASE LikeMatch(p)
  <2>1. /\ UNCHANGED <<deleted, grants, intents, blocks>> /\ Free(y)
        /\ matches' = IF MatchRow(y) THEN matches ELSE [matches EXCEPT ![y] = "active"]
        /\ handler'[p].at = "like.notify" /\ handler'[p].pair = y
    BY <1>0, <1>5, <1>6, <1>12 DEF LikeMatch, At, Opening
  <2>2. Settled'
    BY <1>3, <1>4, <2>1 DEF Settled, Free, Blocked, TypeOK
  <2> QED BY <1>8, <2>1, <2>2 DEF Free, Blocked
<1>13. CASE LikeNotify(p)
  <2>1. UNCHANGED <<deleted, grants, intents, matches, blocks>> /\ handler'[p].at = "idle"
    BY <1>7, <1>13 DEF LikeNotify
  <2>2. Settled'
    BY <1>4, <2>1 DEF Settled, Free, Blocked
  <2> QED BY <1>8, <2>1, <2>2 DEF Opening
<1>14. CASE Revoke(p)
  <2>1. /\ UNCHANGED <<deleted, grants, matches, blocks>> /\ handler'[p].at = "idle"
        /\ intents' = IF intents[y] = "none" THEN intents ELSE [intents EXCEPT ![y] = "revoked"]
    BY <1>0, <1>7, <1>14 DEF Revoke
  <2>2. Settled'
    BY <1>3, <1>4, <2>1 DEF Settled, Free, Blocked, TypeOK
  <2> QED BY <1>8, <2>1, <2>2 DEF Opening
<1>15. CASE DiscoverPersist(p)
  <2>1. /\ UNCHANGED <<deleted, intents, matches, blocks>> /\ handler'[p].at = "idle" /\ Free(y)
        /\ \E now \in handler[p].time..clock : grants' = [grants EXCEPT ![y] = now]
    BY <1>0, <1>5, <1>7, <1>15 DEF DiscoverPersist, At, Opening
  <2>2. Settled'
    BY <1>3, <1>4, <2>1 DEF Settled, Free, Blocked, TypeOK
  <2> QED BY <1>8, <2>1, <2>2 DEF Opening
<1>16. CASE Unblock(p)
  <2>1. /\ UNCHANGED <<deleted, grants, intents, matches>> /\ handler'[p].at = "idle"
        /\ blocks' = blocks \ {y}
    BY <1>0, <1>7, <1>16 DEF Unblock
  <2>2. Settled'
    BY <1>4, <2>1 DEF Settled, Free, Blocked
  <2> QED BY <1>8, <2>1, <2>2 DEF Opening
<1>17. CASE UnmatchStep(p)
  <2>1. /\ UNCHANGED <<deleted, grants, intents, blocks>>
        /\ \A x \in Pairs : matches'[x] = "active" => matches[x] = "active"
        /\ \/ handler'[p].at = "idle"
           \/ handler'[p].at = "unmatch.b"
    BY <1>0, <1>3, <1>6, <1>7, <1>17 DEF UnmatchStep, UnmatchA, UnmatchB, TypeOK
  <2>2. Settled'
    BY <1>4, <2>1 DEF Settled, Free, Blocked
  <2> QED BY <1>8, <2>1, <2>2 DEF Opening
<1> QED
  BY <1>9, <1>10, <1>11, <1>12, <1>13, <1>14, <1>15, <1>16, <1>17 DEF LikeStep

(* The statements of a block close what it left open, one table each. *)
LEMMA SerialBlock ==
    ASSUME Serial, TypeOK, SerialInv, NEW p \in Procs, BlockStep(p)
    PROVE  SerialInv'
<1> USE DEF BlockStep, BlockInsert, BlockMatches, BlockIntents, BlockGrants
<1>0. PICK y : y = handler[p].pair
  OBVIOUS
<1>1. handler[p].at \in {"block.insert", "block.matches", "block.intents", "block.grants"}
  BY DEF At
<1>2. y \in Pairs /\ Swap(y) \in Pairs /\ Swap(Swap(y)) = y
  BY <1>0, <1>1, PairOfHandler DEF TypeOK, PairSteps
<1>3. Both(p) = {y, Swap(y)}
  BY <1>0 DEF Both
<1>4. ASSUME NEW step, Goto(p, step) PROVE handler'[p].at = step /\ Both(p)' = {y, Swap(y)}
  <2>1. handler'[p].at = step /\ handler'[p].pair = y
    BY <1>0, <1>1, <1>4, GotoEffectAny DEF PairSteps
  <2> QED BY <2>1 DEF Both
<1>5. ASSUME Return(p) PROVE handler'[p].at = "idle"
  BY <1>5 DEF Return, Idle, TypeOK
<1>6. /\ deleted' = deleted
      /\ \A x \in Pairs : /\ matches'[x] = "active" => matches[x] = "active"
                          /\ intents'[x] = "active" => intents[x] = "active"
                          /\ grants'[x] # Never => grants[x] # Never
  OBVIOUS
<1>7. handler'[p].at \notin Opening
  BY <1>4, <1>5 DEF Opening
<1>8. InBetween'
  BY <1>7, OnlyHandler DEF InBetween
<1>9. Leaving'
  <2>1. \A x \in Pairs : \A m \in deleted \cap {x[1], x[2]} :
           matches[x] # "active" /\ grants[x] = Never /\ (m = x[1] => intents[x] # "active")
    BY <1>1, OnlyHandler DEF SerialInv, Leaving
  <2> QED BY <1>6, <2>1 DEF Leaving
<1>10. \A x : \A steps : Blocking(x, steps) <=> handler[p].at \in steps /\ x \in {y, Swap(y)}
  BY <1>3, OnlyHandler
<1>11. \A x : \A steps : Blocking(x, steps)' <=> handler'[p].at \in steps /\ x \in Both(p)'
  BY OnlyHandler
<1>12. CASE BlockInsert(p)
  <2>1. /\ UNCHANGED <<deleted, grants, intents, matches>> /\ blocks' = blocks \cup {y}
        /\ handler'[p].at = "block.matches" /\ Both(p)' = {y, Swap(y)}
    BY <1>0, <1>4, <1>12
  <2>2. Settled
    BY <1>1, <1>12, OnlyHandler, SettledWhenNoneWorks DEF SerialInv, At, BlockWork, DeleteWork
  <2>3. ASSUME NEW x \in Pairs, Blocked(x)' PROVE Blocked(x) \/ x \in {y, Swap(y)}
    BY <1>2, <2>1, <2>3, SwapPair DEF Blocked
  <2>4. Closing'
    BY <1>11, <2>1, <2>2, <2>3 DEF Closing, Settled, Free
  <2> QED BY <1>8, <1>9, <2>4 DEF SerialInv
<1>13. CASE BlockMatches(p)
  <2>1. /\ UNCHANGED <<grants, intents, blocks>> /\ handler[p].at = "block.matches"
        /\ \A x \in Pairs : x \in {y, Swap(y)} => matches'[x] # "active"
        /\ handler'[p].at = "block.intents" /\ Both(p)' = {y, Swap(y)}
    BY <1>3, <1>4, <1>13 DEF At
  <2>2. Closing'
    BY <1>6, <1>10, <1>11, <2>1 DEF Closing, SerialInv, Blocked
  <2> QED BY <1>8, <1>9, <2>2 DEF SerialInv
<1>14. CASE BlockIntents(p)
  <2>1. /\ UNCHANGED <<grants, matches, blocks>> /\ handler[p].at = "block.intents"
        /\ \A x \in Pairs : x \in {y, Swap(y)} => intents'[x] # "active"
        /\ handler'[p].at = "block.grants" /\ Both(p)' = {y, Swap(y)}
    BY <1>3, <1>4, <1>14 DEF At
  <2>2. Closing'
    BY <1>6, <1>10, <1>11, <2>1 DEF Closing, SerialInv, Blocked
  <2> QED BY <1>8, <1>9, <2>2 DEF SerialInv
<1>15. CASE BlockGrants(p)
  <2>1. /\ UNCHANGED <<intents, matches, blocks>> /\ handler[p].at = "block.grants"
        /\ \A x \in Pairs : x \in {y, Swap(y)} => grants'[x] = Never
    BY <1>3, <1>15 DEF At
  <2>2. Closing'
    BY <1>6, <1>10, <2>1 DEF Closing, SerialInv, Blocked
  <2> QED BY <1>8, <1>9, <2>2 DEF SerialInv
<1> QED
  BY <1>12, <1>13, <1>14, <1>15

(* The statements of a deletion, likewise. *)
LEMMA SerialDelete ==
    ASSUME Serial, TypeOK, SerialInv, NEW p \in Procs, DeleteStep(p)
    PROVE  SerialInv'
<1> USE DEF DeleteStep, DeleteMember, DeleteIntents, DeleteMatches, DeleteBlocks, DeleteGrants
<1>0. PICK m : m = Me(p)
  OBVIOUS
<1>1. handler[p].at \in DeleteSteps
  BY DEF At, DeleteSteps
<1>4. ASSUME NEW step, Goto(p, step) PROVE handler'[p].at = step /\ Me(p)' = m
  BY <1>0, <1>1, <1>4, GotoEffectAny DEF Me
<1>5. ASSUME Return(p) PROVE handler'[p].at = "idle"
  BY <1>5 DEF Return, Idle, TypeOK
<1>6. /\ blocks' \subseteq blocks
      /\ \A x \in Pairs : /\ matches'[x] = "active" => matches[x] = "active"
                          /\ intents'[x] = "active" => intents[x] = "active"
                          /\ grants'[x] # Never => grants[x] # Never
  BY DEF rows
<1>7. handler'[p].at \notin Opening
  BY <1>4, <1>5 DEF Opening, rows
<1>8. InBetween'
  BY <1>7, OnlyHandler DEF InBetween
<1>9. Closing'
  <2>1. \A x \in Pairs : Blocked(x) =>
           matches[x] # "active" /\ grants[x] = Never /\ intents[x] # "active"
    BY <1>1, OnlyHandler DEF SerialInv, Closing, DeleteSteps
  <2>2. \A x \in Pairs : Blocked(x)' => Blocked(x)
    BY <1>6 DEF Blocked
  <2> QED BY <1>6, <2>1, <2>2 DEF Closing
<1>10. \A w : \A steps : Deleting(w, steps) <=> handler[p].at \in steps /\ w = m
  BY <1>0, OnlyHandler
<1>11. \A w : \A steps : Deleting(w, steps)' <=> handler'[p].at \in steps /\ w = Me(p)'
  BY OnlyHandler
<1>12. CASE DeleteMember(p)
  <2>1. /\ UNCHANGED <<grants, intents, matches, blocks>> /\ deleted' = deleted \cup {m}
        /\ handler'[p].at = "delete.intents" /\ Me(p)' = m
    BY <1>0, <1>4, <1>12 DEF rows
  <2>2. Settled
    BY <1>1, <1>12, OnlyHandler, SettledWhenNoneWorks DEF SerialInv, At, BlockWork, DeleteWork
  <2>3. Leaving'
    BY <1>11, <2>1, <2>2 DEF Leaving, Settled, Free
  <2> QED BY <1>8, <1>9, <2>3 DEF SerialInv
<1>13. CASE DeleteIntents(p)
  <2>1. /\ UNCHANGED <<deleted, grants, matches>> /\ handler[p].at = "delete.intents"
        /\ \A x \in Pairs : x[1] = m => intents'[x] # "active"
        /\ handler'[p].at = "delete.matches" /\ Me(p)' = m
    BY <1>0, <1>4, <1>13 DEF At
  <2>2. Leaving'
    BY <1>6, <1>10, <1>11, <2>1 DEF Leaving, SerialInv
  <2> QED BY <1>8, <1>9, <2>2 DEF SerialInv
<1>14. CASE DeleteMatches(p)
  <2>1. /\ UNCHANGED <<deleted, grants, intents>> /\ handler[p].at = "delete.matches"
        /\ \A x \in Pairs : m \in {x[1], x[2]} => matches'[x] # "active"
        /\ handler'[p].at = "delete.blocks" /\ Me(p)' = m
    BY <1>0, <1>4, <1>14 DEF At, Involving
  <2>2. Leaving'
    BY <1>6, <1>10, <1>11, <2>1 DEF Leaving, SerialInv
  <2> QED BY <1>8, <1>9, <2>2 DEF SerialInv
<1>15. CASE DeleteBlocks(p)
  <2>1. /\ UNCHANGED <<deleted, grants, intents, matches>> /\ handler[p].at = "delete.blocks"
        /\ handler'[p].at = "delete.grants" /\ Me(p)' = m
    BY <1>0, <1>4, <1>15 DEF At
  <2>2. Leaving'
    BY <1>10, <1>11, <2>1 DEF Leaving, SerialInv
  <2> QED BY <1>8, <1>9, <2>2 DEF SerialInv
<1>16. CASE DeleteGrants(p)
  <2>1. /\ UNCHANGED <<deleted, intents, matches>> /\ handler[p].at = "delete.grants"
        /\ \A x \in Pairs : m \in {x[1], x[2]} => grants'[x] = Never
    BY <1>0, <1>16 DEF At, Involving
  <2>2. Leaving'
    BY <1>6, <1>10, <2>1 DEF Leaving, SerialInv
  <2> QED BY <1>8, <1>9, <2>2 DEF SerialInv
<1> QED
  BY <1>12, <1>13, <1>14, <1>15, <1>16

(* A request begins where nothing is open, and a deck is read of two who   *)
(* are free.                                                               *)
LEMMA SerialBegin ==
    ASSUME Serial, TypeOK, SerialInv,
           NEW p \in Procs, NEW op \in Ops, NEW x \in Targets(op), NEW t \in 0..clock, Begin(p, op, x, t)
    PROVE  SerialInv'
<1>1. Settled
  BY OnlyHandler, SettledWhenNoneWorks DEF SerialInv, Begin, Idle, BlockWork, DeleteWork
<1>2. UNCHANGED <<deleted, grants, intents, matches, blocks>>
  BY DEF Begin, rows
<1>3. Settled'
  BY <1>1, <1>2 DEF Settled, Free, Blocked
<1>4. Closing' /\ Leaving'
  BY <1>3 DEF Settled, Closing, Leaving, Free
<1>5. handler'[p] = [at |-> FirstStep[op], pair |-> x, time |-> t]
  BY DEF Begin, TypeOK
<1>6. handler'[p].at \in Opening => op = "discover"
  BY <1>5, OpsAssumption DEF FirstStep, AllOps, Opening
<1>7. op = "discover" => Free(x)
  BY DEF Begin, Eligible, Free, Blocked
<1>8. InBetween'
  BY <1>2, <1>5, <1>6, <1>7, OnlyHandler DEF InBetween, Free, Blocked
<1> QED BY <1>4, <1>8 DEF SerialInv

(* Steps that take rows away or bring a member back. *)
LEMMA SerialAround ==
    ASSUME SerialInv, UNCHANGED <<handler, blocks, intents, matches>>, deleted' \subseteq deleted,
           \A x \in Pairs : grants'[x] \in {grants[x], Never}
    PROVE  SerialInv'
<1>1. Closing'
  BY DEF SerialInv, Closing, Blocking, Blocked, Both
<1>2. Leaving'
  BY DEF SerialInv, Leaving, Deleting, Me
<1>3. InBetween'
  BY DEF SerialInv, InBetween, Free, Blocked
<1> QED BY <1>1, <1>2, <1>3 DEF SerialInv

LEMMA SerialInductive ==
    ASSUME Serial, MayFail = FALSE, IInv, SerialInv, [Next]_vars
    PROVE  SerialInv'
<1>1. TypeOK /\ OneRow
  BY DEF IInv
<1>2. ASSUME NEW p \in Procs, Step(p) \/ Abort(p) PROVE SerialInv'
  BY <1>1, <1>2, SerialOpening, SerialBlock, SerialDelete DEF Step, Abort
<1>3. ASSUME NEW m \in Members, DropDeck(m) \/ Resume(m) PROVE SerialInv'
  BY <1>1, <1>3, SerialAround DEF DropDeck, Resume, rows, TypeOK
<1>4. ASSUME NEW x \in Pairs, PruneGrant(x) \/ PurgeSeen(x) PROVE SerialInv'
  BY <1>1, <1>4, SerialAround DEF PruneGrant, PurgeSeen, TypeOK
<1>5. ASSUME Tick \/ UNCHANGED vars PROVE SerialInv'
  BY <1>1, <1>5, SerialAround DEF Tick, vars, rows, TypeOK
<1> QED
  BY <1>1, <1>2, <1>3, <1>4, <1>5, SerialBegin DEF Next

(* Where requests run one at a time and to their end, nothing stays open   *)
(* between the two of a block and nothing of a deleted account, whatever   *)
(* sequence of requests came before, for any number of members.            *)
THEOREM NothingStaysOpen ==
    ASSUME Serial, MayFail = FALSE
    PROVE  Spec => []Severed
<1>1. Init => SerialInv
  BY DEF Init, SerialInv, Closing, Leaving, InBetween, Blocked, Idle, Opening
<1>2. IInv /\ SerialInv => Severed
  <2>1. SUFFICES ASSUME IInv, SerialInv, AllIdle PROVE Severed
    BY DEF Severed
  <2>2. Settled
    BY <2>1, SettledWhenNoneWorks DEF SerialInv, AllIdle, Idle, BlockWork, DeleteWork
  <2>0. blocks \subseteq Pairs
    BY <2>1 DEF IInv, TypeOK
  <2>3. \A x \in blocks : ~MatchActive(x) /\ \A z \in {x, Swap(x)} : intents[z] # "active" /\ ~Live(z)
    BY <2>0, <2>2, SwapPair DEF Settled, MatchActive, Live, Free, Blocked
  <2>4. \A m \in deleted : \A x \in Involving(m) :
           matches[x] # "active" /\ (x[1] = m => intents[x] # "active") /\ ~Live(x)
    BY <2>2 DEF Settled, Live, Free, Involving
  <2> QED BY <2>3, <2>4 DEF Severed
<1> QED
  BY <1>1, <1>2, SerialInductive, Invariant, PTL DEF Spec

(* An unmatch that goes on to the second orientation found no match in the *)
(* first.                                                                  *)
SecondTry ==
    \A p \in Procs : \A x \in Pairs :
        At(p, "unmatch.b") /\ x = handler[p].pair => matches[x] # "active"

(* Where requests run one at a time, cut off or not, an unmatch that runs  *)
(* to its end leaves no active match, whichever of the two is member_a.    *)
THEOREM UnmatchHolds ==
    ASSUME Serial
    PROVE  Spec => UnmatchTakesHold
<1>1. Init => SecondTry
  BY DEF Init, SecondTry, At, Idle
<1>2. IInv /\ SecondTry /\ [Next]_vars => SecondTry'
  <2> SUFFICES ASSUME IInv, SecondTry, [Next]_vars PROVE SecondTry'
    OBVIOUS
  <2>0. TypeOK
    BY DEF IInv
  <2>1. ASSUME NEW p \in Procs, handler'[p].at # "unmatch.b" PROVE SecondTry'
    BY <2>1, OnlyHandler DEF SecondTry, At
  <2>2. ASSUME UNCHANGED <<handler, matches>> PROVE SecondTry'
    BY <2>2 DEF SecondTry, At
  <2>3. ASSUME NEW p \in Procs, Return(p) PROVE SecondTry'
    BY <2>0, <2>1, <2>3 DEF Return, Idle, TypeOK
  <2>4. ASSUME NEW p \in Procs, handler[p].at \in PairSteps \cup DeleteSteps,
               NEW step, step # "unmatch.b", Goto(p, step)
        PROVE  SecondTry'
    BY <2>0, <2>1, <2>4, GotoEffectAny
  <2>5. ASSUME NEW p \in Procs, Step(p), ~UnmatchA(p) PROVE SecondTry'
    <3> USE DEF Step, LikeStep, BlockStep, UnmatchStep, DeleteStep, LikeConsume, LikeIntent,
          LikeReciprocal, LikeMatch, LikeNotify, Revoke, DiscoverPersist, BlockInsert, BlockMatches,
          BlockIntents, BlockGrants, Unblock, UnmatchB, DeleteMember, DeleteIntents, DeleteMatches,
          DeleteBlocks, DeleteGrants
    <3>1. handler[p].at \in PairSteps \cup DeleteSteps
      BY <2>5 DEF At, PairSteps, LikeSteps, DeleteSteps
    <3>2. Return(p) \/ \E step : step # "unmatch.b" /\ Goto(p, step)
      BY <2>5
    <3> QED BY <2>3, <2>4, <3>1, <3>2
  <2>6. ASSUME NEW p \in Procs, UnmatchA(p) PROVE SecondTry'
    <3>1. CASE Return(p)
      BY <2>3, <3>1
    <3>2. CASE UNCHANGED matches /\ Goto(p, "unmatch.b") /\ matches[handler[p].pair] # "active"
      <4>1. handler'[p].pair = handler[p].pair
        BY <2>0, <2>6, <3>2, GotoEffectAny DEF UnmatchA, At, PairSteps
      <4> QED BY <3>2, <4>1, OnlyHandler DEF SecondTry, At
    <3> QED BY <2>6, <3>1, <3>2 DEF UnmatchA
  <2>7. ASSUME NEW p \in Procs, NEW op \in Ops, NEW x \in Targets(op), NEW t \in 0..clock, Begin(p, op, x, t)
        PROVE  SecondTry'
    <3>1. handler'[p] = [at |-> FirstStep[op], pair |-> x, time |-> t]
      BY <2>0, <2>7 DEF Begin, TypeOK
    <3>2. FirstStep[op] # "unmatch.b"
      BY OpsAssumption DEF FirstStep, AllOps
    <3> QED BY <2>1, <3>1, <3>2
  <2>8. ASSUME \/ \E m \in Members : DropDeck(m) \/ Resume(m)
               \/ \E x \in Pairs : PruneGrant(x) \/ PurgeSeen(x)
               \/ Tick \/ UNCHANGED vars
        PROVE  SecondTry'
    BY <2>2, <2>8 DEF DropDeck, Resume, PruneGrant, PurgeSeen, Tick, vars, rows
  <2>9. ASSUME NEW p \in Procs, Abort(p) PROVE SecondTry'
    BY <2>3, <2>9 DEF Abort
  <2> QED
    BY <2>5, <2>6, <2>7, <2>8, <2>9 DEF Next
<1>3. IInv /\ SecondTry =>
        \A p \in Procs : \A x \in Pairs :
           UnmatchStep(p) /\ handler'[p] = Idle /\ x = handler[p].pair => ~MatchActive(x)'
  <2> SUFFICES ASSUME IInv, SecondTry, NEW p \in Procs, NEW x \in Pairs,
                      UnmatchStep(p), handler'[p] = Idle, x = handler[p].pair
               PROVE  matches'[x] # "active" /\ matches'[Swap(x)] # "active"
    BY DEF MatchActive
  <2>1. Swap(x) \in Pairs /\ Swap(x) # x /\ matches \in [Pairs -> MatchStates]
    BY SwapPair DEF IInv, TypeOK, Pairs, Swap
  <2>2. matches[x] = "active" => matches[Swap(x)] # "active"
    BY DEF IInv, OneRow
  <2>3. CASE UnmatchA(p)
    <3>1. ~Goto(p, "unmatch.b")
      BY <2>3, GotoEffectAny DEF UnmatchA, At, PairSteps, Idle, IInv
    <3> QED BY <2>1, <2>2, <2>3, <3>1 DEF UnmatchA
  <2>4. CASE UnmatchB(p)
    <3>1. matches[x] # "active"
      BY <2>4 DEF UnmatchB, SecondTry
    <3> QED BY <2>1, <2>4, <3>1 DEF UnmatchB
  <2> QED BY <2>3, <2>4 DEF UnmatchStep
<1> QED
  BY <1>1, <1>2, <1>3, Invariant, PTL DEF Spec, UnmatchTakesHold
=============================================================================
