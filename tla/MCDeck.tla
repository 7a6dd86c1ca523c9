------------------------------- MODULE MCDeck -------------------------------
(* Deck for one request: 1 is in the nearest cell and of the highest rank, *)
(* 2 in the next cell.                                                     *)
EXTENDS Deck
CONSTANT c1

One == {c1}
Both == {1, 2}
MCCell == [w \in Both |-> w]
MCFilters == {[who |-> Both, reach |-> 2]}
=============================================================================
