----------------------------- MODULE FlowPaths -----------------------------
(***************************************************************************)
(* What Follow the Rabbit makes of the packets it has seen                 *)
(* (services/flow_reconstruct.py): the TTLs on the links of one leg give   *)
(* layers, the layers give every link a direction, and gates decide how    *)
(* sure the result is.  All packets of a leg start with one TTL, so the    *)
(* most common TTL of a link is the TTL of its packets.                    *)
(*                                                                         *)
(* Sets of nodes and links are iterated in the order of their hashes,      *)
(* which differ from process to process: the orientation is one of a set.  *)
(***************************************************************************)
EXTENDS FollowRabbit, SequencesExt, FiniteSetsExt

Unresolved == <<"", "">>

\* dict.update, for dicts that have no key in common.
Joined(f, g) == [x \in DOMAIN f \cup DOMAIN g |-> IF x \in DOMAIN f THEN f[x] ELSE g[x]]

\* The nodes v that a route passes, from its source, and no node twice.
Passes(r, v) ==
    /\ v[0] = r.source
    /\ \A i \in 1..Len(r.path) : WireEnds[r.path[i]] \in {<<v[i - 1], v[i]>>, <<v[i], v[i - 1]>>}
    /\ \A i, j \in 0..Len(r.path) : i # j => v[i] # v[j]

WaysOf(r) == {v \in [0..Len(r.path) -> NodesOf(Wire)] : Passes(r, v)}
NodesOn == [r \in Routes |-> CHOOSE v \in WaysOf(r) : TRUE]

\* The flow has one path without a loop, and a hop lowers the TTL by one at most.
ASSUME OnePathAssumption ==
    \A r \in Routes :
        /\ WaysOf(r) # {}
        /\ Len(r.ttl) = Len(r.path)
        /\ \A i, j \in 1..Len(r.path) : i <= j => r.ttl[j] <= r.ttl[i] /\ r.ttl[i] - r.ttl[j] <= j - i

-----------------------------------------------------------------------------
(* Layers and orientation.  `ttl` maps the links seen to their TTL.        *)

Layer(ttl, k) == {w \in DOMAIN ttl : ttl[w] = k}

\* _contiguous_runs: where a run of TTLs begins.
StartsRun(ttl, k) == Layer(ttl, k + 1) = {}

\* _initial_upstream
InitialUpstream(ttl, k, source) ==
    LET top == NodesOf(Layer(ttl, k))
    IN IF source \in top THEN {source}
       ELSE IF Layer(ttl, k - 1) # {} THEN top \ NodesOf(Layer(ttl, k - 1)) ELSE {}

\* One turn of the loop of _orient_same_ttl_links: the links left that touch the node at
\* the front of the queue lead away from it.
Turn(q) ==
    LET n == Head(q.front)
        mine == {w \in q.rest : Touches(w, n)}
    IN  IF q.front = <<>> THEN {q}
        ELSE {[front |-> Tail(q.front) \o [i \in DOMAIN order |-> OtherEnd(order[i], n)],
               rest |-> q.rest \ mine,
               done |-> Joined(q.done, [w \in mine |-> <<n, OtherEnd(w, n)>>])] : order \in SetToSeqs(mine)}

Turns(front, ws) ==
    LET after[i \in Nat] == IF i = 0 THEN {[front |-> front, rest |-> ws, done |-> <<>>]}
                            ELSE UNION {Turn(q) : q \in after[i - 1]}
    IN  after

\* The nodes at the front and each link's other end take a turn, at most.
Spread(front, ws) == {Joined(q.done, [w \in q.rest |-> Unresolved]) :
                        q \in Turns(front, ws)[Len(front) + Cardinality(ws)]}

Downstream(ws, oriented) == {oriented[w][2] : w \in {x \in ws : oriented[x] # Unresolved}}

\* The turn of _orient for the links with TTL k.
Orient(ttl, k, source, d) ==
    LET ws == Layer(ttl, k)
        up == IF StartsRun(ttl, k) THEN InitialUpstream(ttl, k, source) ELSE d.up
    IN  {[links |-> Joined(d.links, o), up |-> IF Downstream(ws, o) = {} THEN up ELSE Downstream(ws, o)] :
           o \in UNION {Spread(front, ws) : front \in SetToSeqs(up)}}

Descent(ttl, source) ==
    LET after[i \in Nat] == IF i = 0 THEN {[links |-> <<>>, up |-> {}]}
                            ELSE UNION {Orient(ttl, Max(Range(ttl)) + 1 - i, source, d) : d \in after[i - 1]}
    IN  after

Orientations(ttl, source) ==
    IF DOMAIN ttl = {} THEN {<<>>}
    ELSE {d.links : d \in Descent(ttl, source)[Max(Range(ttl)) + 1 - Min(Range(ttl))]}

-----------------------------------------------------------------------------
(* The gates and the verdict.                                              *)

Sources(ws, o) == {o[w][1] : w \in {x \in ws : o[x] # Unresolved}}
EntryNodes(ws, o) == Sources(ws, o) \ Downstream(ws, o)
ExitNodes(ws, o) == Downstream(ws, o) \ Sources(ws, o)

\* _ttl_layer_is_ecmp
IsEcmp(ws, o) ==
    /\ Cardinality(ws) > 1 /\ \A w \in ws : o[w] # Unresolved
    /\ \/ Cardinality(EntryNodes(ws, o)) # 1 \/ Cardinality(ExitNodes(ws, o)) # 1
       \/ \E v, w \in ws : v # w /\ (o[v][1] = o[w][1] \/ o[v][2] = o[w][2])

LayerUnresolved(ttl, o) == \E w \in DOMAIN ttl : o[w] = Unresolved

\* _segments: consecutive layers must be contiguous and adjacent.
SegmentUnresolved(ttl, o) ==
    \E hi, lo \in Range(ttl) :
        /\ hi > lo /\ \A k \in Range(ttl) : k >= hi \/ k <= lo
        /\ \/ hi - lo > 1
           \/ ExitNodes(Layer(ttl, hi), o) = {} \/ EntryNodes(Layer(ttl, lo), o) = {}
           \/ ~(EntryNodes(Layer(ttl, lo), o) \subseteq ExitNodes(Layer(ttl, hi), o))

\* (mutant) the first link seen need not be one of the source
AnchorAnywhere(ttl, leg, source) == TRUE

\* The anchor gate: the source is at the end of the leg it belongs to.
Anchored(ttl, leg, source) ==
    LET k == IF leg = "forward" THEN Max(Range(ttl)) ELSE Min(Range(ttl))
    IN source \in NodesOf(Layer(ttl, k))

\* _reconstruct_leg and _classify
Classification(ttl, leg, source, o) ==
    IF DOMAIN ttl = {} THEN "certain"
    ELSE IF ~Anchored(ttl, leg, source) \/ LayerUnresolved(ttl, o) \/ SegmentUnresolved(ttl, o) THEN "partial"
    ELSE IF \E k \in Range(ttl) : IsEcmp(Layer(ttl, k), o) THEN "multipath"
    ELSE "certain"

\* The TTLs of a leg among the packets seen.
TtlsOf(t, leg) ==
    LET mine == {k \in seen[t] : k[2] = leg}
    IN [w \in {k[1] : k \in mine} |-> (CHOOSE k \in mine : k[1] = w)[3]]

-----------------------------------------------------------------------------
(* Properties.                                                             *)

\* The direction the packets really take on the links of the route.
Truth(n) == [w \in {route.path[i] : i \in 1..n} |->
               LET i == CHOOSE j \in 1..n : route.path[j] = w
               IN  <<NodesOn[route][i - 1], NodesOn[route][i]>>]

\* The forward leg of a flow with one path is called certain exactly when the links
\* seen are the first ones of that path, and then every link points the way the
\* packets go: a probe that came late or failed never makes up a path, whatever the
\* order in which sets are iterated.
ForwardIsExact ==
    \A t \in Trace :
        LET ttl == TtlsOf(t, "forward")
        IN \A o \in Orientations(ttl, route.source) :
             LET certain == Classification(ttl, "forward", route.source, o) = "certain"
             IN /\ certain <=> \E n \in 0..Len(route.path) : DOMAIN ttl = DOMAIN Truth(n)
                /\ certain => o = Truth(Cardinality(DOMAIN ttl))
=============================================================================
