----------------------------- MODULE Courtship -----------------------------
(***************************************************************************)
(* What the relationship services promise about a pair of members, with    *)
(* nothing of how requests are split into statements: likes are recorded   *)
(* one-sidedly, a pair meets only when both likes are recorded, and a pair *)
(* that met can part but never meets again.  Members may block each other  *)
(* at any time; a block is lifted without touching the rest.               *)
(*                                                                         *)
(* Matching.tla implements it (Matching!CourtshipSpec).                    *)
(***************************************************************************)
CONSTANT Members

VARIABLES
    liked,      \* <<from, to>>: from has put a like for to on record
    stage,      \* per ordered pair, the same both ways round
    blocks      \* <<blocker, blocked>>

vars == <<liked, stage, blocks>>

Pairs == {x \in Members \X Members : x[1] # x[2]}
Swap(x) == <<x[2], x[1]>>
Stages == {"apart", "matched", "parted"}

Init ==
    /\ liked = {}
    /\ stage = [x \in Pairs |-> "apart"]
    /\ blocks = {}

Like(x) ==
    /\ liked' = liked \cup {x}
    /\ UNCHANGED <<stage, blocks>>

\* Both likes are on record before anybody is told of a match.
Meet(x) ==
    /\ stage[x] = "apart"
    /\ x \in liked /\ Swap(x) \in liked
    /\ stage' = [y \in Pairs |-> IF y \in {x, Swap(x)} THEN "matched" ELSE stage[y]]
    /\ UNCHANGED <<liked, blocks>>

\* An unmatch or a block parts one pair, a deletion every pair of a member.
Part(S) ==
    /\ \A x \in S : Swap(x) \in S
    /\ stage' = [y \in Pairs |->
         IF y \in S /\ stage[y] = "matched" THEN "parted" ELSE stage[y]]
    /\ UNCHANGED <<liked, blocks>>

Block(x) ==
    /\ blocks' = blocks \cup {x}
    /\ UNCHANGED <<liked, stage>>

Unblock(S) ==
    /\ blocks' = blocks \ S
    /\ UNCHANGED <<liked, stage>>

Next ==
    \/ \E x \in Pairs : Like(x) \/ Meet(x) \/ Block(x)
    \/ \E S \in SUBSET Pairs : Part(S) \/ Unblock(S)

Spec == Init /\ [][Next]_vars
=============================================================================
