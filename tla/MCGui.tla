------------------------------- MODULE MCGui -------------------------------
(* Two users and two of everything that can meet its like; three requests  *)
(* on one lab, three visits and tokens for two tunnels, and one trace on a *)
(* chain of three links.                                                   *)
EXTENDS Gui

CONSTANTS a1, a2, b1, b2, c1, c2, c3  \* the parts never meet: they share the model values

\* Subnets, sockets (publish schedules its callbacks in one order) and visits are not
\* taken as alike.
Alike == Permutations({a1, a2}) \cup Permutations({b1, b2}) \cup Permutations({c1, c2, c3})

\* s - w - r - d
Chain == "l1" :> <<"s", "w">> @@ "l2" :> <<"w", "r">> @@ "l3" :> <<"r", "d">>

\* w is a switch (equal TTLs around it) or a router.  The flow that ends there is answered.
Way(source, path, ttl, back) == [source |-> source, path |-> path, ttl |-> ttl, back |-> back]
Ways == {Way("s", <<"l1", "l2", "l3">>, <<3, 3, 2>>, <<>>),
         Way("d", <<"l3", "l2", "l1">>, <<3, 2, 2>>, <<>>),
         Way("s", <<"l1">>, <<3>>, <<3>>)}
=============================================================================
