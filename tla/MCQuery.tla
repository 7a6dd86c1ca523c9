------------------------------ MODULE MCQuery ------------------------------
(* What a client asks of the relay: Query over four events, two of one     *)
(* second, with limits of two rows; Exchange with two requests and a direct*)
(* message; and Startup, which makes the tables that are asked, with an    *)
(* event of an older release and one that is saved meanwhile.  The parts   *)
(* share no variable; a behaviour is of one of them, so that TLC visits    *)
(* the sum of their states and not the product.                            *)
EXTENDS Query, Exchange, Startup

Tags3 == {"p", "x", "y"}
Direct == {"p"}
Weights == [d \in {"ids", "authors", "kinds", "tags"} |-> IF d = "ids" THEN 1 ELSE 2]

MCEvent(id, at, author, p, x, y) ==
    [id |-> id, at |-> at,
     has |-> [d \in Dims |-> CASE d = "ids" -> {id} [] d = "authors" -> {author} [] d = "kinds" -> {1}
                               [] d = "p" -> p [] d = "x" -> x [] OTHER -> y]]
FourEvents == {MCEvent(1, 1, 1, {1}, {1, 2}, {1}), MCEvent(2, 2, 2, {1}, {1}, {}),
               MCEvent(3, 2, 1, {1}, {2}, {1}), MCEvent(4, 3, 2, {}, {1, 2}, {1})}

MCFilter(since, until, limit) ==
    [arrays |-> Nothing, since |-> since, until |-> until, limit |-> limit, cursor |-> [at |-> 0, id |-> 0]]
With(f, d, values) == [f EXCEPT !.arrays[d] = values]

Everything == MCFilter(0, 0, 0)
ByIds == With(MCFilter(1, 0, 1), "ids", {1, 2, 3, 4})
ByIdsAndAuthors == With(With(MCFilter(2, 0, 0), "ids", {1, 2, 3}), "authors", {1, 3, 4})
ByAuthor == With(MCFilter(0, 0, 1), "authors", {1})
ByDirectTag == With(MCFilter(0, 0, 5), "p", {1})
ByTag == With(MCFilter(2, 0, 2), "x", {1, 2})
ByTags == With(With(MCFilter(1, 0, 0), "x", {1}), "y", {1})
ByTagsAndId == With(ByTags, "ids", {1})
MCRequests == {<<Everything>>, <<ByIds>>, <<ByIdsAndAuthors>>, <<ByAuthor>>, <<ByDirectTag>>, <<ByTag>>,
               <<ByTags>>, <<ByTagsAndId, ByIds>>, <<ByDirectTag, Everything>>}

CONSTANTS q1, q2, dm
\* A profile with a text; and a request for a service that an old document
\* promises and that has no fit key.
MCCalls == {q1, q2}
MCScreened == {q1}
MCLetters == {dm}
MCAdvertised == {"profile", "matcher"}
MCRole == [r \in MCCalls |-> IF r = q1 THEN "profile" ELSE "matcher"]
MCSecret == [role \in MCAdvertised |-> IF role = "profile" THEN "fit" ELSE "unfit"]

CONSTANTS old, new
MCVisits == {q1, q2}
MCOld == {old}
MCNew == {new}
Early == {"d", "t"}
Late == {"L"}
MCTagsOf == [e \in {old, new} |-> IF e = old THEN {"d", "L"} ELSE {"d", "t", "L"}]

VARIABLE part
mcVars == <<vars, exchangeVars, startupVars, part>>
MCInit ==
    /\ part \in {"query", "exchange", "startup"}
    /\ Init /\ ExchangeInit /\ StartupInit
    /\ part # "query" => stored = {}
    /\ part # "startup" => made = {}
MCNext ==
    /\ UNCHANGED part
    /\ \/ part = "query" /\ Next /\ UNCHANGED <<exchangeVars, startupVars>>
       \/ part = "exchange" /\ ExchangeNext /\ UNCHANGED <<vars, startupVars>>
       \/ part = "startup" /\ StartupNext /\ UNCHANGED <<vars, exchangeVars>>
MCSpec == MCInit /\ [][MCNext]_mcVars
=============================================================================
