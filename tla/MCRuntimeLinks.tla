--------------------------- MODULE MCRuntimeLinks ---------------------------
(* Three VDs in a row, the last with a link to a real network; for the run   *)
(* with two labs, one wire in each.                                          *)
EXTENDS RuntimeLinks, TLC

CONSTANTS labA, labB, h1, h2

\* The hosts play the same part; every property is about states or steps.
Alike == Permutations({h1, h2})

Wires == 1..3
WireEnds == 1 :> {"a", "b"} @@ 2 :> {"b", "c"} @@ 3 :> {"c"}
OneLab(S) == [s \in S |-> labA]
VdsOfA == OneLab({"a", "b", "c"})
WiresOfA == OneLab(Wires)

TwoWires == 1..2
TwoEnds == 1 :> {"a", "b"} @@ 2 :> {"c", "d"}
VdsOfTwo == [v \in {"a", "b", "c", "d"} |-> IF v \in {"a", "b"} THEN labA ELSE labB]
WiresOfTwo == 1 :> labA @@ 2 :> labB

Bases == labA :> 1 @@ labB :> 100

Set(requests, fails) == [labs |-> {labA}, requests |-> requests, fails |-> fails]

\* VDs come and go and links fail; the topology is edited; links are
\* reconciled; every request at once.
EditSettings ==
    {Set({"start", "stop", "add", "remove", "link"}, TRUE),
     Set({"start", "stop", "remove", "edit"}, TRUE),
     Set({"stop", "remove", "add", "node", "all"}, FALSE)}

NeighbourSettings == {[labs |-> {labA, labB}, requests |-> {"start", "stop", "add"}, fails |-> FALSE]}
=============================================================================
