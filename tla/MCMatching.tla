----------------------------- MODULE MCMatching -----------------------------
(* Matching on two members: every hazard of the module is about one pair.  *)
EXTENDS Matching, TLC
CONSTANTS a, b, p1, p2

MCMembers == {a, b}
OneProc == {p1}
TwoProcs == {p1, p2}
\* Handlers and members are interchangeable in the specification and in the
\* properties of the runs that use this (no liveness among them).
MCSymmetry == Permutations(MCMembers) \cup Permutations(TwoProcs)

LikeOps == {"discover", "like", "revoke", "unmatch"}
BlockOps == {"discover", "like", "block", "unblock"}
=============================================================================
