------------------------------ MODULE MCMember ------------------------------
(* One member's rows: the account and its listing, the deck it is dealt,   *)
(* and the daily limits.  The three share no variable; a behaviour is of   *)
(* one of them, so that TLC visits the sum of their states and not the     *)
(* product.                                                                *)
EXTENDS Membership, Deck, Quota, TLC
CONSTANTS p1, p2

TwoProcs == {p1, p2}
MCSymmetry == Permutations(TwoProcs)

TwoServices == {"like", "discover"}

Three == 1..3
\* 2 is in the nearest cell, 1 in the next, 3 in the farthest.
MCCell == [w \in Three |-> CASE w = 1 -> 2 [] w = 2 -> 1 [] w = 3 -> 3]
MCRank == [w \in Three |-> CASE w = 1 -> 2 [] w = 2 -> 1 [] w = 3 -> 3]
MCFilters == {[who |-> Three, reach |-> 3], [who |-> {1, 2}, reach |-> 2]}
Two == {2}

VARIABLE part
mcVars == <<vars, deckVars, quotaVars, part>>

MCInit ==
    /\ part \in {"account", "deck", "quota"}
    /\ Init /\ QuotaInit /\ DeckInit
    /\ part # "deck" => filter = CHOOSE f \in Filters : TRUE

MCNext ==
    /\ UNCHANGED part
    /\ \/ part = "account" /\ Next /\ UNCHANGED <<deckVars, quotaVars>>
       \/ part = "deck" /\ DeckNext /\ UNCHANGED <<vars, quotaVars>>
       \/ part = "quota" /\ QuotaNext /\ UNCHANGED <<vars, deckVars>>

MCSpec == MCInit /\ [][MCNext]_mcVars
=============================================================================
