---------------------------- MODULE MCEventStore ----------------------------
(* What becomes of an EVENT at the relay that stores it and at the one that*)
(* passes it on.  EventStore is given two versions of a profile, two of an *)
(* addressable event without a d tag, a note with many tags, and a deletion*)
(* request that names the older profile and somebody else's note.  Blast   *)
(* is given a note, a forged copy that carries its id, and a denied event. *)
(* The parts share no variable; a behaviour is of one of them, so that TLC *)
(* visits the sum of their states and not the product.                     *)
EXTENDS EventStore, Blast, TLC
CONSTANTS p1, p2, v1, v2, page1, page2, note, deletion, alice, bob, profile, page, none

AllEvents == {v1, v2, page1, page2, note, deletion}
Profiles == {v1, v2}
Pages == {page1, page2}
Notes == {note}
TwoProcs == {p1, p2}
MCAuthor == [e \in AllEvents |-> IF e = note THEN bob ELSE alice]
MCStamp == [e \in AllEvents |-> IF e = v2 THEN 2 ELSE 1]
MCPlace == [e \in AllEvents |->
    IF e \in Profiles THEN profile ELSE IF e \in Pages THEN page ELSE none]
MCDeletes == [e \in AllEvents |-> IF e = deletion THEN {v1, note} ELSE {}]

CONSTANTS genuine, forged, spam, b1, o1, o2
MCMessages == {genuine, forged, spam}
MCId == [m \in MCMessages |-> IF m = spam THEN spam ELSE genuine]
MCForged == {forged}
MCDenied == {spam}
MCBootstrap == {b1}
MCOthers == {o1, o2}

\* No property tells one process, or one relay, from another.
MCSymmetry == Permutations(TwoProcs) \cup Permutations(MCOthers)

VARIABLE part
mcVars == <<vars, blastVars, part>>
MCInit == part \in {"store", "blast"} /\ Init /\ BlastInit
MCNext ==
    /\ UNCHANGED part
    /\ \/ part = "store" /\ Next /\ UNCHANGED blastVars
       \/ part = "blast" /\ BlastNext /\ UNCHANGED vars
MCSpec == MCInit /\ [][MCNext]_mcVars
=============================================================================
