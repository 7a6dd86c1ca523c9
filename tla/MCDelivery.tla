----------------------------- MODULE MCDelivery -----------------------------
(* Delivery with one or two regions, in one colo or in two. *)
EXTENDS Delivery, TLC
CONSTANTS d1, d2, s1, s2, p1, p2

OneDO == {d1}
TwoDOs == {d1, d2}
OneColo == [d \in DOs |-> d1]
OneSession == {s1}
TwoSessions == {s1, s2}
AtD1 == [s \in Sessions |-> d1]
Apart == [s \in Sessions |-> IF s = s1 THEN d1 ELSE d2]
TwoProcs == {p1, p2}
MCSymmetry == Permutations(TwoProcs)

AllOps == {"req", "event", "reply", "close", "reconnect"}
ReadOps == {"req", "reply"}
ManyMishaps == {"query", "save", "broadcast", "isolate", "entry"}
PutFails == {"put"}
=============================================================================
