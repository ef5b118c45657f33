--------------------------- MODULE FlowPathsProofs ---------------------------
(***************************************************************************)
(* The forward leg of a flow that has one path is called certain exactly   *)
(* when its first links were seen, for every path, every TTL, every set of *)
(* links seen and every order in which sets of nodes and links are         *)
(* iterated.  Both loops of the code, _orient_same_ttl_links over a queue  *)
(* of nodes and _orient over the TTLs, are followed turn by turn.  The     *)
(* last section is about the end of a trace.                               *)
(***************************************************************************)
EXTENDS FlowPaths, FiniteSetTheorems, WellFoundedInduction, TLAPS

-----------------------------------------------------------------------------
(* Numbers *)

\* Induction over the natural numbers, for the set of those that have a property.
LEMMA NatSteps ==
    ASSUME NEW P \in SUBSET Nat, 0 \in P, \A i \in P : i + 1 \in P
    PROVE  P = Nat
<1> SUFFICES ASSUME Nat \ P # {} PROVE FALSE
  OBVIOUS
<1>1. PICK i \in Nat \ P : \A j \in Nat \ P : ~(<<j, i>> \in OpToRel(<, Nat))
  <2>1. IsWellFoundedOn(OpToRel(<, Nat), Nat)
    BY NatLessThanWellFounded
  <2> QED BY <2>1, WFMin
<1>2. i \in Nat /\ i # 0
  BY <1>1
<1>3. i - 1 \in Nat /\ i - 1 < i /\ (i - 1) + 1 = i
  BY <1>2
<1>4. i - 1 \in P
  <2>1. <<i - 1, i>> \in OpToRel(<, Nat)
    BY <1>2, <1>3 DEF OpToRel
  <2> QED BY <1>1, <1>3, <2>1
<1> QED
  BY <1>1, <1>3, <1>4

\* A set of naturals has a least element, unless it is empty.
LEMMA HasLeast ==
    ASSUME NEW S \in SUBSET Nat, S # {}
    PROVE  \E m \in S : \A x \in S : m <= x
<1>1. IsWellFoundedOn(OpToRel(<, Nat), Nat)
  BY NatLessThanWellFounded
<1>2. PICK m \in S : \A x \in S : ~(<<x, m>> \in OpToRel(<, Nat))
  BY <1>1, WFMin
<1>3. \A x \in S : x < m => <<x, m>> \in OpToRel(<, Nat)
  BY <1>2 DEF OpToRel
<1>4. \A x \in S : ~(x < m) /\ x \in Nat /\ m \in Nat
  BY <1>2, <1>3
<1>5. \A x \in S : m <= x
  BY <1>4
<1> QED
  BY <1>5

\* A set of naturals up to b has a greatest element, unless it is empty.
LEMMA HasGreatest ==
    ASSUME NEW S \in SUBSET Nat, S # {}, NEW b \in Nat, \A x \in S : x <= b
    PROVE  \E m \in S : \A x \in S : x <= m
<1> DEFINE D == {b - x : x \in S}
<1>1. D \in SUBSET Nat /\ D # {}
  <2>1. \A x \in S : b - x \in Nat
    OBVIOUS
  <2> QED BY <2>1
<1>2. PICK d \in D : \A y \in D : d <= y
  <2> HIDE DEF D
  <2> QED BY <1>1, HasLeast
<1>3. PICK m \in S : d = b - m
  BY <1>2
<1>4. \A x \in S : b - m <= b - x
  BY <1>2, <1>3
<1>5. \A x \in S : x <= m
  <2>1. \A x \in S : x \in Nat /\ m \in Nat /\ b \in Nat
    BY <1>3
  <2> QED BY <1>4, <2>1
<1> QED
  BY <1>5

-----------------------------------------------------------------------------
(* One layer: the loop of _orient_same_ttl_links along a path. *)

\* The links p lead along the nodes v, N of them and no node twice.
IsWalk(p, v, N) ==
    /\ N \in Nat
    /\ \A i \in 1..N : WireEnds[p[i]] \in {<<v[i - 1], v[i]>>, <<v[i], v[i - 1]>>}
    /\ \A i, j \in 0..N : i # j => v[i] # v[j]

\* A link of the path touches the two nodes it joins, leads from each to the other, and
\* a direction of it is no missing one.
LEMMA WalkEnds ==
    ASSUME NEW p, NEW v, NEW N, IsWalk(p, v, N), NEW i \in 1..N
    PROVE  /\ Range(WireEnds[p[i]]) = {v[i - 1], v[i]}
           /\ OtherEnd(p[i], v[i - 1]) = v[i]
           /\ <<v[i - 1], v[i]>> # Unresolved
           /\ \A j \in 0..N : Touches(p[i], v[j]) <=> j = i - 1 \/ j = i
<1>1. i - 1 \in 0..N /\ i \in 0..N /\ i - 1 # i
  BY DEF IsWalk
<1>2. v[i - 1] # v[i]
  BY <1>1 DEF IsWalk
<1>3. WireEnds[p[i]] \in {<<v[i - 1], v[i]>>, <<v[i], v[i - 1]>>}
  BY DEF IsWalk
<1>4. \A a, b : Range(<<a, b>>) = {a, b}
  <2>1. ASSUME NEW a, NEW b PROVE Range(<<a, b>>) = {a, b}
    <3>1. DOMAIN <<a, b>> = {1, 2} /\ <<a, b>>[1] = a /\ <<a, b>>[2] = b
      OBVIOUS
    <3> QED BY <3>1 DEF Range
  <2> QED BY <2>1
<1>5. Range(WireEnds[p[i]]) = {v[i - 1], v[i]}
  BY <1>3, <1>4
<1>6. OtherEnd(p[i], v[i - 1]) = v[i]
  BY <1>2, <1>3 DEF OtherEnd
<1>7. <<v[i - 1], v[i]>> # Unresolved
  BY <1>2 DEF Unresolved
<1>8. \A j \in 0..N : Touches(p[i], v[j]) <=> j = i - 1 \/ j = i
  <2>1. \A j \in 0..N : v[j] \in {v[i - 1], v[i]} <=> j = i - 1 \/ j = i
    BY <1>1 DEF IsWalk
  <2> QED BY <1>5, <2>1 DEF Touches
<1> QED
  BY <1>5, <1>6, <1>7, <1>8

\* No link is on the path twice.
LEMMA WalkDistinct ==
    ASSUME NEW p, NEW v, NEW N, IsWalk(p, v, N), NEW i \in 1..N, NEW j \in 1..N, p[i] = p[j]
    PROVE  i = j
<1>1. {v[i - 1], v[i]} = {v[j - 1], v[j]}
  BY WalkEnds
<1>2. i - 1 \in 0..N /\ i \in 0..N /\ j - 1 \in 0..N /\ j \in 0..N
  BY DEF IsWalk
<1>3. \A k, l \in 0..N : v[k] = v[l] => k = l
  BY DEF IsWalk
<1>4. (i = j - 1 \/ i = j) /\ (j = i - 1 \/ j = i)
  BY <1>1, <1>2, <1>3
<1> QED
  BY <1>2, <1>4

\* What a dict holds after an update with keys it did not have.
LEMMA JoinedIs ==
    ASSUME NEW f, NEW g
    PROVE  /\ DOMAIN Joined(f, g) = DOMAIN f \cup DOMAIN g
           /\ \A x \in DOMAIN f : Joined(f, g)[x] = f[x]
           /\ \A x \in DOMAIN g : x \notin DOMAIN f => Joined(f, g)[x] = g[x]
BY DEF Joined

\* The loop of _orient_same_ttl_links, turn by turn.
FirstTurn(front, ws) == [front |-> front, rest |-> ws, done |-> <<>>]
TurnsTo(g, n, front, ws) ==
    g = [i \in 0..n |-> IF i = 0 THEN {FirstTurn(front, ws)} ELSE UNION {Turn(q) : q \in g[i - 1]}]

\* Two functions that follow the loop of _orient_same_ttl_links up to n agree up to n.
LEMMA TurnsAgree ==
    ASSUME NEW front, NEW ws, NEW n \in Nat, NEW m \in Nat, NEW g, NEW h,
           TurnsTo(g, n, front, ws), TurnsTo(h, m, front, ws)
    PROVE  \A i \in 0..n : i \in 0..m => g[i] = h[i]
<1> DEFINE P == {i \in Nat : i \in 0..n /\ i \in 0..m => g[i] = h[i]}
<1>1. 0 \in P
  <2>1. 0 \in 0..n /\ 0 \in 0..m
    OBVIOUS
  <2>2. g[0] = {FirstTurn(front, ws)} /\ h[0] = {FirstTurn(front, ws)}
    BY <2>1 DEF TurnsTo
  <2> QED BY <2>2
<1>2. ASSUME NEW i \in P PROVE i + 1 \in P
  <2> SUFFICES ASSUME i + 1 \in 0..n, i + 1 \in 0..m PROVE g[i + 1] = h[i + 1]
    OBVIOUS
  <2>1. i \in 0..n /\ i \in 0..m /\ g[i] = h[i] /\ i + 1 # 0 /\ (i + 1) - 1 = i
    BY <1>2
  <2>2. g[i + 1] = UNION {Turn(q) : q \in g[i]} /\ h[i + 1] = UNION {Turn(q) : q \in h[i]}
    BY <2>1 DEF TurnsTo
  <2> QED BY <2>1, <2>2
<1>3. P = Nat
  <2> HIDE DEF P
  <2>1. P \in SUBSET Nat
    BY DEF P
  <2> QED BY <1>1, <1>2, <2>1, NatSteps
<1> QED
  BY <1>3

\* The states after a turn of _orient_same_ttl_links come from those before it.
LEMMA TurnsUnfold ==
    ASSUME NEW front, NEW ws
    PROVE  /\ Turns(front, ws)[0] = {FirstTurn(front, ws)}
           /\ \A i \in Nat : Turns(front, ws)[i + 1] = UNION {Turn(q) : q \in Turns(front, ws)[i]}
<1> DEFINE E == {n \in Nat : \E g : TurnsTo(g, n, front, ws)}
           c(n) == CHOOSE g : TurnsTo(g, n, front, ws)
           F == [i \in Nat |-> c(i)[i]]
           Loop(f) == f = [i \in Nat |-> IF i = 0 THEN {FirstTurn(front, ws)}
                                         ELSE UNION {Turn(q) : q \in f[i - 1]}]
<1>1. 0 \in E
  <2> DEFINE g == [i \in 0..0 |-> {FirstTurn(front, ws)}]
  <2>1. g = [i \in 0..0 |-> IF i = 0 THEN {FirstTurn(front, ws)} ELSE UNION {Turn(q) : q \in g[i - 1]}]
    OBVIOUS
  <2> HIDE DEF g
  <2> QED BY <2>1 DEF TurnsTo
<1>2. ASSUME NEW n \in E PROVE n + 1 \in E
  <2>1. PICK g : TurnsTo(g, n, front, ws)
    BY <1>2
  <2> DEFINE h == [i \in 0..(n + 1) |-> IF i = n + 1 THEN UNION {Turn(q) : q \in g[n]} ELSE g[i]]
  <2>2. n \in Nat
    BY <1>2
  <2>3. \A i \in 0..n : h[i] = g[i] /\ g[i] = IF i = 0 THEN {FirstTurn(front, ws)}
                                               ELSE UNION {Turn(q) : q \in g[i - 1]}
    <3>1. \A i \in 0..n : i \in 0..(n + 1) /\ i # n + 1
      BY <2>2
    <3>2. \A i \in 0..n : h[i] = g[i]
      BY <3>1
    <3> HIDE DEF h
    <3> QED BY <2>1, <3>2 DEF TurnsTo
  <2>4. \A i \in 0..(n + 1) : h[i] = IF i = 0 THEN {FirstTurn(front, ws)} ELSE UNION {Turn(q) : q \in h[i - 1]}
    <3>1. ASSUME NEW i \in 0..n
          PROVE  h[i] = IF i = 0 THEN {FirstTurn(front, ws)} ELSE UNION {Turn(q) : q \in h[i - 1]}
      <4>1. i # 0 => i - 1 \in 0..n
        BY <2>2
      <4>2. i # 0 => h[i - 1] = g[i - 1]
        BY <2>3, <4>1
      <4> HIDE DEF h
      <4> QED BY <2>3, <4>2
    <3>2. h[n + 1] = UNION {Turn(q) : q \in h[n]} /\ (n + 1) - 1 = n /\ n + 1 # 0
      BY <2>2, <2>3
    <3>3. \A i \in 0..(n + 1) : i \in 0..n \/ i = n + 1
      BY <2>2
    <3> HIDE DEF h
    <3> QED BY <3>1, <3>2, <3>3
  <2>5. h = [i \in 0..(n + 1) |-> h[i]]
    OBVIOUS
  <2> HIDE DEF h
  <2>6. h = [i \in 0..(n + 1) |-> IF i = 0 THEN {FirstTurn(front, ws)} ELSE UNION {Turn(q) : q \in h[i - 1]}]
    BY <2>4, <2>5
  <2>7. TurnsTo(h, n + 1, front, ws)
    BY <2>6 DEF TurnsTo
  <2> QED BY <2>2, <2>7
<1>3. E = Nat
  <2> HIDE DEF E
  <2>1. E \in SUBSET Nat
    BY DEF E
  <2> QED BY <1>1, <1>2, <2>1, NatSteps
<1>4. \A n \in Nat : TurnsTo(c(n), n, front, ws)
  BY <1>3
<1> HIDE DEF c
<1>5. F[0] = {FirstTurn(front, ws)}
  <2>1. TurnsTo(c(0), 0, front, ws)
    BY <1>4
  <2>2. c(0)[0] = {FirstTurn(front, ws)}
    BY <2>1 DEF TurnsTo
  <2> QED BY <2>2
<1>6. ASSUME NEW i \in Nat PROVE F[i + 1] = UNION {Turn(q) : q \in F[i]}
  <2>1. TurnsTo(c(i), i, front, ws) /\ TurnsTo(c(i + 1), i + 1, front, ws)
    BY <1>4
  <2>2. i \in 0..i /\ i \in 0..(i + 1) /\ i + 1 \in 0..(i + 1) /\ i + 1 # 0 /\ (i + 1) - 1 = i
    OBVIOUS
  <2>3. c(i)[i] = c(i + 1)[i]
    BY <2>1, <2>2, TurnsAgree
  <2>4. c(i + 1)[i + 1] = UNION {Turn(q) : q \in c(i + 1)[i]}
    BY <2>1, <2>2 DEF TurnsTo
  <2>5. F[i] = c(i)[i] /\ F[i + 1] = c(i + 1)[i + 1]
    OBVIOUS
  <2> QED BY <2>3, <2>4, <2>5
<1>7. F = [i \in Nat |-> F[i]]
  OBVIOUS
<1> HIDE DEF F
<1>8. \A i \in Nat : F[i] = IF i = 0 THEN {FirstTurn(front, ws)} ELSE UNION {Turn(q) : q \in F[i - 1]}
  <2>1. ASSUME NEW i \in Nat, i # 0 PROVE F[i] = UNION {Turn(q) : q \in F[i - 1]}
    <3>1. i - 1 \in Nat /\ (i - 1) + 1 = i
      BY <2>1
    <3> QED BY <1>6, <3>1
  <2> QED BY <1>5, <2>1
<1>9. Loop(F)
  BY <1>7, <1>8
<1>10. Turns(front, ws) = CHOOSE f : Loop(f)
  BY DEF Turns, FirstTurn
<1>11. Loop(Turns(front, ws))
  <2> HIDE DEF Loop
  <2> QED BY <1>9, <1>10
<1> DEFINE T == Turns(front, ws)
<1>12. T = [i \in Nat |-> IF i = 0 THEN {FirstTurn(front, ws)} ELSE UNION {Turn(q) : q \in T[i - 1]}]
  BY <1>11
<1> HIDE DEF T
<1>13. T[0] = {FirstTurn(front, ws)}
  BY <1>12
<1>14. ASSUME NEW i \in Nat PROVE T[i + 1] = UNION {Turn(q) : q \in T[i]}
  <2>1. i + 1 \in Nat /\ i + 1 # 0 /\ (i + 1) - 1 = i
    OBVIOUS
  <2> QED BY <1>12, <2>1
<1> QED
  BY <1>13, <1>14 DEF T

\* Every state after a turn comes from one before it.
LEMMA TurnBefore ==
    ASSUME NEW front, NEW ws, NEW i \in Nat, NEW r \in Turns(front, ws)[i + 1]
    PROVE  \E q \in Turns(front, ws)[i] : r \in Turn(q)
<1>1. Turns(front, ws)[i + 1] = UNION {Turn(q) : q \in Turns(front, ws)[i]}
  BY TurnsUnfold
<1> DEFINE before == Turns(front, ws)[i]
           after == Turns(front, ws)[i + 1]
<1>2. after = UNION {Turn(q) : q \in before} /\ r \in after
  BY <1>1
<1> HIDE DEF before, after
<1>3. \E q \in before : r \in Turn(q)
  BY <1>2
<1> QED BY <1>3 DEF before

\* An order of a set lists each of its elements.
LEMMA OrderOf ==
    ASSUME NEW S, IsFiniteSet(S), NEW order \in SetToSeqs(S)
    PROVE  /\ order \in Seq(S) /\ Len(order) = Cardinality(S) /\ DOMAIN order = 1..Cardinality(S)
           /\ \A x \in S : \E i \in 1..Len(order) : order[i] = x
<1> DEFINE n == Cardinality(S)
<1>1. n \in Nat
  BY FS_CardinalityType
<1>2. order \in [1..n -> S] /\ \A i, j \in 1..n : i # j => order[i] # order[j]
  BY DEF SetToSeqs
<1> HIDE DEF n
<1>3. order \in Seq(S) /\ Len(order) = n /\ DOMAIN order = 1..n
  BY <1>1, <1>2
<1>4. order \in Injection(1..n, S)
  BY <1>2 DEF Injection, IsInjective
<1>5. Cardinality(1..n) = n
  BY <1>1, FS_Interval
<1>6. order \in Surjection(1..n, S)
  BY <1>4, <1>5, FS_Injection DEF n
<1>7. \A x \in S : \E i \in 1..n : order[i] = x
  BY <1>6 DEF Surjection
<1> QED
  BY <1>3, <1>7 DEF n

\* Half way along a block a..b of links of one TTL: those before c are oriented, node
\* c - 1 waits in the queue, and every node in it lies before c.
Along(front, rest, done, i, len, p, v, a, b, C) ==
    \E c \in a..(b + 1) :
        /\ front \in Seq({v[j] : j \in 0..(c - 1)})
        /\ c <= b => \E k \in 1..Len(front) : front[k] = v[c - 1]
        /\ rest = {p[j] : j \in (c..b) \cup C}
        /\ DOMAIN done = {p[j] : j \in a..(c - 1)}
        /\ \A j \in a..(c - 1) : done[p[j]] = <<v[j - 1], v[j]>>
        /\ front = <<>> \/ Len(front) + (b - c) + i = len + (b - a)

\* A node at the front leads to the next link of the block, or nowhere.
LEMMA FrontLeads ==
    ASSUME NEW p, NEW v, NEW N, IsWalk(p, v, N), NEW a \in 1..(N + 1), NEW b \in (a - 1)..N,
           NEW C \in SUBSET ((b + 2)..N), NEW c \in a..(b + 1), NEW k \in 0..(c - 1)
    PROVE  {w \in {p[j] : j \in (c..b) \cup C} : Touches(w, v[k])}
             = IF c <= b /\ k = c - 1 THEN {p[c]} ELSE {}
<1>1. N \in Nat
  BY DEF IsWalk
<1>2. \A j \in (c..b) \cup C : j \in 1..N /\ j >= c /\ (j # c => j >= c + 1) /\ (j = c => c <= b)
  BY <1>1
<1>3. k \in 0..N
  BY <1>1
<1>4. \A j \in (c..b) \cup C : Touches(p[j], v[k]) <=> k = j - 1 \/ k = j
  BY <1>2, <1>3, WalkEnds
<1>5. \A j \in (c..b) \cup C : Touches(p[j], v[k]) <=> j = c /\ k = c - 1
  <2>1. ASSUME NEW j \in (c..b) \cup C PROVE (k = j - 1 \/ k = j) <=> (j = c /\ k = c - 1)
    <3>1. j \in Int /\ j >= c /\ k \in Int /\ k <= c - 1 /\ c \in Int
      BY <1>1, <1>2
    <3> QED BY <3>1
  <2> QED BY <1>4, <2>1
<1>6. CASE c <= b /\ k = c - 1
  <2>1. c \in c..b
    BY <1>1, <1>6
  <2> QED BY <1>5, <1>6, <2>1
<1>7. CASE ~(c <= b /\ k = c - 1)
  <2>1. \A j \in (c..b) \cup C : ~Touches(p[j], v[k])
    BY <1>2, <1>5, <1>7
  <2> QED BY <1>7, <2>1
<1> QED
  BY <1>6, <1>7

\* A turn for a node that leads nowhere.
LEMMA AlongIdle ==
    ASSUME NEW p, NEW v, NEW N \in Nat, NEW a \in 1..(N + 1), NEW b \in (a - 1)..N,
           NEW C, NEW len \in Nat, NEW i \in Nat, NEW c \in a..(b + 1), NEW k \in 0..(c - 1),
           \A j, l \in 0..N : j # l => v[j] # v[l],
           NEW front, front \in Seq({v[j] : j \in 0..(c - 1)}), front # <<>>, front[1] = v[k],
           c <= b => k # c - 1 /\ \E j \in 1..Len(front) : front[j] = v[c - 1],
           NEW rest, rest = {p[j] : j \in (c..b) \cup C},
           NEW done, DOMAIN done = {p[j] : j \in a..(c - 1)},
           \A j \in a..(c - 1) : done[p[j]] = <<v[j - 1], v[j]>>,
           Len(front) + (b - c) + i = len + (b - a)
    PROVE  Along(Tail(front), rest, done, i + 1, len, p, v, a, b, C)
<1> DEFINE V == {v[j] : j \in 0..(c - 1)}
           t == Tail(front)
<1>1. front \in Seq(V)
  OBVIOUS
<1> HIDE DEF V
<1>2. /\ t \in Seq(V) /\ Len(t) = Len(front) - 1 /\ Len(front) \in Nat \ {0}
      /\ \A j \in 1..Len(t) : t[j] = front[j + 1]
  BY <1>1
<1> HIDE DEF t
<1>3. c <= b => \E j \in 1..Len(t) : t[j] = v[c - 1]
  <2> SUFFICES ASSUME c <= b PROVE \E j \in 1..Len(t) : t[j] = v[c - 1]
    OBVIOUS
  <2>1. PICK j \in 1..Len(front) : front[j] = v[c - 1]
    OBVIOUS
  <2>2. k # c - 1 /\ k \in 0..N /\ c - 1 \in 0..N
    OBVIOUS
  <2>3. v[k] # v[c - 1]
    BY <2>2
  <2>4. j # 1
    BY <2>1, <2>3
  <2>5. j - 1 \in 1..Len(t) /\ (j - 1) + 1 = j
    BY <1>2, <2>1, <2>4
  <2> QED BY <1>2, <2>1, <2>5
<1>4. Len(t) + (b - c) + (i + 1) = len + (b - a)
  <2> DEFINE x == Len(front)
             y == Len(t)
  <2>1. x \in Nat /\ y = x - 1 /\ x + (b - c) + i = len + (b - a) /\ a \in Int /\ b \in Int /\ c \in Int
    BY <1>2
  <2> HIDE DEF x, y
  <2>2. y + (b - c) + (i + 1) = len + (b - a)
    BY <2>1
  <2> QED BY <2>2 DEF y
<1> QED
  BY <1>2, <1>3, <1>4 DEF Along, V, t

\* A turn for the node that leads on.
LEMMA AlongOn ==
    ASSUME NEW p, NEW v, NEW N, IsWalk(p, v, N), NEW a \in 1..(N + 1), NEW b \in (a - 1)..N,
           NEW C \in SUBSET ((b + 2)..N), NEW len \in Nat, NEW i \in Nat, NEW c \in a..b,
           NEW front, front \in Seq({v[j] : j \in 0..(c - 1)}), front # <<>>,
           NEW rest, rest = {p[j] : j \in (c..b) \cup C},
           NEW done, DOMAIN done = {p[j] : j \in a..(c - 1)},
           \A j \in a..(c - 1) : done[p[j]] = <<v[j - 1], v[j]>>,
           Len(front) + (b - c) + i = len + (b - a),
           NEW g, DOMAIN g = {p[c]}, g[p[c]] = <<v[c - 1], v[c]>>
    PROVE  Along(Append(Tail(front), v[c]), rest \ {p[c]}, Joined(done, g), i + 1, len, p, v, a, b, C)
<1> DEFINE V(d) == {v[j] : j \in 0..(d - 1)}
           t == Tail(front)
           f == Append(t, v[c])
           h == Joined(done, g)
<1>0. N \in Nat /\ a \in Nat /\ b \in Nat /\ c \in 1..N /\ c + 1 \in a..(b + 1) /\ (c + 1) - 1 = c
      /\ \A j \in (c..b) \cup C : j \in 1..N
  <2>1. N \in Nat
    BY DEF IsWalk
  <2>2. \A j \in (b + 2)..N : j \in 1..N
    BY <2>1
  <2>3. a \in Nat /\ b \in Nat /\ c \in 1..N /\ c + 1 \in a..(b + 1) /\ (c + 1) - 1 = c
    BY <2>1
  <2>4. \A j \in c..b : j \in 1..N
    BY <2>1
  <2> QED BY <2>1, <2>2, <2>3, <2>4
<1>10. \A x, y \in 1..N : p[x] = p[y] => x = y
  BY WalkDistinct
<1>1. front \in Seq(V(c))
  OBVIOUS
<1>2. V(c) \subseteq V(c + 1) /\ v[c] \in V(c + 1)
  <2>1. \A j \in 0..(c - 1) : j \in 0..((c + 1) - 1)
    BY <1>0
  <2>2. c \in 0..((c + 1) - 1)
    BY <1>0
  <2>3. \A x \in V(c) : x \in V(c + 1)
    <3> SUFFICES ASSUME NEW j \in 0..(c - 1) PROVE v[j] \in V(c + 1)
      OBVIOUS
    <3> QED BY <2>1
  <2> QED BY <2>2, <2>3
<1> HIDE DEF V
<1>3. t \in Seq(V(c)) /\ Len(t) = Len(front) - 1 /\ Len(front) \in Nat \ {0}
  BY <1>1
<1> HIDE DEF t
<1>4. t \in Seq(V(c + 1))
  <2> DEFINE A == V(c)
             B == V(c + 1)
  <2>1. t \in Seq(A) /\ A \subseteq B
    BY <1>2, <1>3
  <2> HIDE DEF A, B
  <2>2. t \in Seq(B)
    BY <2>1
  <2> QED BY <2>2 DEF B
<1>5. f \in Seq(V(c + 1)) /\ Len(f) = Len(t) + 1 /\ f[Len(f)] = v[c] /\ Len(f) \in 1..Len(f)
  <2> DEFINE A == V(c + 1)
             x == v[c]
  <2>1. t \in Seq(A) /\ x \in A
    BY <1>2, <1>4
  <2> HIDE DEF A, x
  <2>2. Append(t, x) \in Seq(A) /\ Len(Append(t, x)) = Len(t) + 1 /\ Len(t) \in Nat
    BY <2>1
  <2>3. Append(t, x)[Len(t) + 1] = x
    BY <2>1
  <2>4. Len(Append(t, x)) \in 1..Len(Append(t, x))
    BY <2>2
  <2> QED BY <2>2, <2>3, <2>4 DEF A, x
<1> HIDE DEF f
<1>6. rest \ {p[c]} = {p[j] : j \in ((c + 1)..b) \cup C}
  <2>1. \A j \in (c..b) \cup C : p[j] = p[c] => j = c
    BY <1>0, WalkDistinct
  <2>2. \A j : j \in ((c + 1)..b) \cup C <=> j \in (c..b) \cup C /\ j # c
    BY <1>0
  <2> DEFINE D == (c..b) \cup C
             E == ((c + 1)..b) \cup C
  <2>3. rest = {p[j] : j \in D} /\ (\A j \in D : p[j] = p[c] => j = c) /\ \A j : j \in E <=> j \in D /\ j # c
    BY <2>1, <2>2
  <2> HIDE DEF D, E
  <2>4. \A x \in rest \ {p[c]} : x \in {p[j] : j \in E}
    BY <2>3
  <2>5. \A j \in E : p[j] \in rest /\ p[j] # p[c]
    BY <2>3
  <2> DEFINE F == {p[j] : j \in E}
             y == p[c]
  <2>6. \A x \in F : x \in rest /\ x # y
    BY <2>5
  <2>7. \A x \in rest \ {y} : x \in F
    BY <2>4
  <2> HIDE DEF F, y
  <2>8. rest \ {y} = F
    BY <2>6, <2>7
  <2> QED BY <2>8 DEF E, F, y
<1>7. /\ DOMAIN h = {p[j] : j \in a..((c + 1) - 1)}
      /\ \A j \in a..((c + 1) - 1) : h[p[j]] = <<v[j - 1], v[j]>>
  <2>1. \A j \in a..(c - 1) : j \in 1..N /\ j # c
    BY <1>0
  <2>2. p[c] \notin DOMAIN done
    <3> SUFFICES ASSUME NEW j \in a..(c - 1), p[c] = p[j] PROVE FALSE
      OBVIOUS
    <3>1. c = j
      BY <1>0, <1>10, <2>1
    <3> QED BY <2>1, <3>1
  <2>3. \A j : j \in a..((c + 1) - 1) <=> j \in a..(c - 1) \/ j = c
    BY <1>0
  <2>4. DOMAIN h = DOMAIN done \cup {p[c]}
    <3>1. DOMAIN h = DOMAIN done \cup DOMAIN g
      BY JoinedIs
    <3> HIDE DEF h
    <3> QED BY <3>1
  <2>5. h[p[c]] = <<v[c - 1], v[c]>>
    <3>1. p[c] \in DOMAIN g /\ p[c] \notin DOMAIN done
      BY <2>2
    <3>2. \A x \in DOMAIN g : x \notin DOMAIN done => h[x] = g[x]
      BY DEF Joined
    <3> HIDE DEF h
    <3> QED BY <3>1, <3>2
  <2>6. \A x \in DOMAIN done : h[x] = done[x]
    BY JoinedIs
  <2> HIDE DEF h
  <2>7. \A j \in a..(c - 1) : h[p[j]] = <<v[j - 1], v[j]>>
    BY <2>6
  <2> QED BY <2>3, <2>4, <2>5, <2>7
<1>8. Len(f) + (b - (c + 1)) + (i + 1) = len + (b - a)
  <2> DEFINE x == Len(front)
             y == Len(f)
  <2>1. x \in Nat /\ y = (x - 1) + 1 /\ x + (b - c) + i = len + (b - a) /\ a \in Int /\ b \in Int /\ c \in Int
    BY <1>0, <1>3, <1>5
  <2> HIDE DEF x, y
  <2>2. y + (b - (c + 1)) + (i + 1) = len + (b - a)
    BY <2>1
  <2> QED BY <2>2 DEF y
<1> HIDE DEF h
<1>9. Along(f, rest \ {p[c]}, h, i + 1, len, p, v, a, b, C)
  BY <1>0, <1>5, <1>6, <1>7, <1>8 DEF Along, V
<1> QED
  BY <1>9 DEF f, t, h

\* The turn of the node at the front, as Turn has it.
LEMMA AlongTurn ==
    ASSUME NEW p, NEW v, NEW N, IsWalk(p, v, N), NEW a \in 1..(N + 1), NEW b \in (a - 1)..N,
           NEW C \in SUBSET ((b + 2)..N), NEW len \in Nat, NEW i \in Nat,
           NEW front, NEW rest, NEW done, Along(front, rest, done, i, len, p, v, a, b, C),
           front # <<>>, NEW mine, mine = {w \in rest : Touches(w, Head(front))},
           NEW order \in SetToSeqs(mine)
    PROVE  Along(Tail(front) \o [j \in DOMAIN order |-> OtherEnd(order[j], Head(front))],
                 rest \ mine, Joined(done, [w \in mine |-> <<Head(front), OtherEnd(w, Head(front))>>]),
                 i + 1, len, p, v, a, b, C)
<1> DEFINE new == [j \in DOMAIN order |-> OtherEnd(order[j], Head(front))]
           g == [w \in mine |-> <<Head(front), OtherEnd(w, Head(front))>>]
<1>1. PICK c \in a..(b + 1) :
        /\ front \in Seq({v[j] : j \in 0..(c - 1)})
        /\ c <= b => \E k \in 1..Len(front) : front[k] = v[c - 1]
        /\ rest = {p[j] : j \in (c..b) \cup C}
        /\ DOMAIN done = {p[j] : j \in a..(c - 1)}
        /\ \A j \in a..(c - 1) : done[p[j]] = <<v[j - 1], v[j]>>
        /\ Len(front) + (b - c) + i = len + (b - a)
  BY DEF Along
<1>2. N \in Nat /\ \A j, l \in 0..N : j # l => v[j] # v[l]
  BY DEF IsWalk
<1>3. PICK k \in 0..(c - 1) : Head(front) = v[k]
  <2> DEFINE V == {v[j] : j \in 0..(c - 1)}
  <2>1. front \in Seq(V)
    BY <1>1
  <2> HIDE DEF V
  <2>2. Head(front) \in V
    BY <2>1
  <2> QED BY <2>2 DEF V
<1>4. mine = IF c <= b /\ k = c - 1 THEN {p[c]} ELSE {}
  <2>1. mine = {w \in {p[j] : j \in (c..b) \cup C} : Touches(w, v[k])}
    BY <1>1, <1>3
  <2>2. {w \in {p[j] : j \in (c..b) \cup C} : Touches(w, v[k])} = IF c <= b /\ k = c - 1 THEN {p[c]} ELSE {}
    BY FrontLeads
  <2> QED BY <2>1, <2>2
<1>5. front[1] = v[k] /\ Tail(front) \in Seq({v[j] : j \in 0..(c - 1)})
  <2> DEFINE V == {v[j] : j \in 0..(c - 1)}
  <2>1. front \in Seq(V)
    BY <1>1
  <2> HIDE DEF V
  <2>2. front[1] = Head(front) /\ Tail(front) \in Seq(V)
    BY <2>1
  <2> QED BY <1>3, <2>2 DEF V
<1>6. CASE mine = {}
  <2>1. new = <<>>
    <3>1. IsFiniteSet(mine) /\ Cardinality(mine) = 0
      BY <1>6, FS_EmptySet
    <3>2. DOMAIN order = 1..0
      BY <3>1, OrderOf
    <3> QED BY <3>2
  <2>2. Tail(front) \o new = Tail(front) /\ rest \ mine = rest
    BY <1>5, <1>6, <2>1
  <2>3. DOMAIN g = {}
    BY <1>6
  <2> HIDE DEF g, new
  <2> DEFINE h == Joined(done, g)
  <2>4. DOMAIN h = DOMAIN done \cup {} /\ \A x \in DOMAIN done : h[x] = done[x]
    BY <2>3, JoinedIs
  <2> HIDE DEF h
  <2>5. DOMAIN h = {p[j] : j \in a..(c - 1)} /\ \A j \in a..(c - 1) : h[p[j]] = <<v[j - 1], v[j]>>
    BY <1>1, <2>4
  <2>6. c <= b => k # c - 1 /\ \E j \in 1..Len(front) : front[j] = v[c - 1]
    BY <1>1, <1>4, <1>6
  <2>7. Along(Tail(front), rest, h, i + 1, len, p, v, a, b, C)
    BY <1>1, <1>2, <1>5, <2>5, <2>6, AlongIdle, ZenonT(40)
  <2> QED BY <2>2, <2>7 DEF h, g, new
<1>7. CASE mine # {}
  <2>1. mine = {p[c]} /\ c <= b /\ k = c - 1 /\ c \in 1..N /\ c \in a..b
    BY <1>2, <1>4, <1>7
  <2>2. OtherEnd(p[c], Head(front)) = v[c] /\ Head(front) = v[c - 1]
    BY <1>3, <2>1, WalkEnds
  <2>3. DOMAIN order = 1..1 /\ order[1] = p[c]
    <3>1. IsFiniteSet(mine) /\ Cardinality(mine) = 1
      BY <2>1, FS_Singleton
    <3>2. order \in Seq(mine) /\ Len(order) = 1 /\ DOMAIN order = 1..1
      BY <3>1, OrderOf
    <3>3. order[1] \in mine
      BY <3>2
    <3> QED BY <2>1, <3>2, <3>3
  <2>4. new = <<v[c]>>
    <3>1. new = [j \in 1..1 |-> v[c]]
      BY <2>2, <2>3
    <3> QED BY <3>1
  <2>5. Tail(front) \o new = Append(Tail(front), v[c])
    BY <1>5, <2>4
  <2>6. DOMAIN g = {p[c]} /\ g[p[c]] = <<v[c - 1], v[c]>>
    BY <2>1, <2>2
  <2> HIDE DEF g, new
  <2>7. Along(Append(Tail(front), v[c]), rest \ {p[c]}, Joined(done, g), i + 1, len, p, v, a, b, C)
    BY <1>1, <2>1, <2>6, AlongOn
  <2> QED BY <2>1, <2>5, <2>7 DEF g, new
<1> QED
  BY <1>6, <1>7

\* With an empty queue a turn changes nothing.
LEMMA AlongStops ==
    ASSUME NEW p, NEW v, NEW a, NEW b, NEW C, NEW len \in Nat, NEW i \in Nat, NEW j \in Nat,
           NEW rest, NEW done, Along(<<>>, rest, done, i, len, p, v, a, b, C)
    PROVE  Along(<<>>, rest, done, j, len, p, v, a, b, C)
BY DEF Along

\* Every turn leaves the loop somewhere along the block.
LEMMA AlongTurns ==
    ASSUME NEW p, NEW v, NEW N, IsWalk(p, v, N), NEW a \in 1..(N + 1), NEW b \in (a - 1)..N,
           NEW C \in SUBSET ((b + 2)..N), NEW len \in Nat, NEW i \in Nat,
           NEW q, Along(q.front, q.rest, q.done, i, len, p, v, a, b, C), NEW r \in Turn(q)
    PROVE  Along(r.front, r.rest, r.done, i + 1, len, p, v, a, b, C)
<1> DEFINE front == q.front
           rest == q.rest
           done == q.done
           mine == {w \in rest : Touches(w, Head(front))}
<1>1. Along(front, rest, done, i, len, p, v, a, b, C)
  OBVIOUS
<1>2. CASE front = <<>>
  <2>1. r = q
    BY <1>2 DEF Turn
  <2>2. Along(<<>>, rest, done, i + 1, len, p, v, a, b, C)
    <3> HIDE DEF rest, done
    <3>1. i + 1 \in Nat
      OBVIOUS
    <3> QED BY <1>1, <1>2, <3>1, AlongStops
  <2> QED BY <1>2, <2>1, <2>2
<1>3. CASE front # <<>>
  <2>1. PICK order \in SetToSeqs(mine) :
          r = [front |-> Tail(front) \o [j \in DOMAIN order |-> OtherEnd(order[j], Head(front))],
               rest |-> rest \ mine,
               done |-> Joined(done, [w \in mine |-> <<Head(front), OtherEnd(w, Head(front))>>])]
    BY <1>3 DEF Turn
  <2> DEFINE new == [j \in DOMAIN order |-> OtherEnd(order[j], Head(front))]
             g == [w \in mine |-> <<Head(front), OtherEnd(w, Head(front))>>]
  <2>2. mine = {w \in rest : Touches(w, Head(front))}
    OBVIOUS
  <2> HIDE DEF front, rest, done, mine
  <2>3. Along(Tail(front) \o new, rest \ mine, Joined(done, g), i + 1, len, p, v, a, b, C)
    BY <1>1, <1>3, <2>2, AlongTurn
  <2> HIDE DEF new, g
  <2>4. r = [front |-> Tail(front) \o new, rest |-> rest \ mine, done |-> Joined(done, g)]
    BY <2>1 DEF new, g
  <2>5. r.front = Tail(front) \o new /\ r.rest = rest \ mine /\ r.done = Joined(done, g)
    BY <2>4
  <2> QED BY <2>3, <2>5
<1> QED
  BY <1>2, <1>3

\* There are turns enough for the whole block.
LEMMA BlockSize ==
    ASSUME NEW p, NEW v, NEW N, IsWalk(p, v, N), NEW a \in 1..(N + 1), NEW b \in (a - 1)..N,
           NEW C \in SUBSET ((b + 2)..N)
    PROVE  Cardinality({p[j] : j \in (a..b) \cup C}) \in Nat
           /\ b - a < Cardinality({p[j] : j \in (a..b) \cup C})
<1> DEFINE D == (a..b) \cup C
           ws == {p[j] : j \in D}
           f == [j \in a..b |-> p[j]]
           g == [j \in D |-> p[j]]
           ms == {p[j] : j \in a..b}
<1>1. N \in Nat /\ a \in Int /\ b \in Int /\ D \subseteq 1..N
  <2>1. N \in Nat
    BY DEF IsWalk
  <2>2. \A j \in (b + 2)..N : j \in 1..N
    BY <2>1
  <2>3. \A j \in a..b : j \in 1..N
    BY <2>1
  <2> QED BY <2>1, <2>2, <2>3
<1>2. IsFiniteSet(D)
  <2>1. IsFiniteSet(1..N)
    BY <1>1, FS_Interval
  <2> QED BY <1>1, <2>1, FS_Subset
<1>3. IsFiniteSet(ws)
  <2>1. g \in Surjection(D, ws)
    BY DEF Surjection
  <2> QED BY <1>2, <2>1, FS_Surjection
<1>4. IsFiniteSet(a..b) /\ Cardinality(a..b) = IF a > b THEN 0 ELSE b - a + 1
  BY <1>1, FS_Interval
<1>5. f \in Bijection(a..b, ms)
  <2>1. \A x, y \in 1..N : p[x] = p[y] => x = y
    BY WalkDistinct
  <2>2. f \in [a..b -> ms]
    OBVIOUS
  <2>3. \A x, y \in a..b : f[x] = f[y] => x = y
    BY <1>1, <2>1
  <2>4. \A z \in ms : \E x \in a..b : f[x] = z
    OBVIOUS
  <2> HIDE DEF f, ms
  <2> QED BY <2>2, <2>3, <2>4 DEF Bijection, Injection, Surjection, IsInjective
<1>6. Cardinality(ms) = Cardinality(a..b)
  <2> HIDE DEF f, ms
  <2>1. ExistsBijection(a..b, ms)
    BY <1>5 DEF ExistsBijection
  <2> QED BY <1>4, <2>1, FS_Bijection
<1>7. ms \subseteq ws
  OBVIOUS
<1> HIDE DEF ms, ws, f, g, D
<1>8. Cardinality(ms) <= Cardinality(ws) /\ Cardinality(ws) \in Nat /\ Cardinality(ms) \in Nat
  BY <1>3, <1>7, FS_Subset, FS_CardinalityType
<1>9. b - a < Cardinality(ms)
  BY <1>1, <1>4, <1>6
<1>10. b - a < Cardinality(ws)
  BY <1>1, <1>8, <1>9
<1> QED
  BY <1>8, <1>10 DEF ws, D

ImageOf(f, D) == {f[j] : j \in D}
NodesBefore(v, a) == {v[j] : j \in 0..(a - 1)}

\* Links a..b point the way of the packets, links C nowhere.
Points(o, p, v, a, b, C) ==
    /\ \A j \in a..b : o[p[j]] = <<v[j - 1], v[j]>>
    /\ \A j \in C : o[p[j]] = Unresolved
Leads(o, p, v, a, b, C) == DOMAIN o = ImageOf(p, (a..b) \cup C) /\ Points(o, p, v, a, b, C)

\* What the loop makes of links a..b that follow one another, from a queue that has the node
\* they start at, and of links C it cannot reach from there.
LEMMA SpreadFollows ==
    ASSUME NEW p, NEW v, NEW N, IsWalk(p, v, N), NEW a \in 1..(N + 1), NEW b \in (a - 1)..N,
           NEW C \in SUBSET ((b + 2)..N),
           NEW front \in Seq(NodesBefore(v, a)),
           a <= b => \E k \in 1..Len(front) : front[k] = v[a - 1],
           NEW o \in Spread(front, ImageOf(p, (a..b) \cup C))
    PROVE  Leads(o, p, v, a, b, C)
<1> DEFINE ws == ImageOf(p, (a..b) \cup C)
           len == Len(front)
           n == Cardinality(ws)
           P == {i \in Nat : \A q \in Turns(front, ws)[i] : Along(q.front, q.rest, q.done, i, len, p, v, a, b, C)}
<1>1. N \in Nat /\ a \in Int /\ b \in Int /\ len \in Nat
  <2>1. N \in Nat
    BY DEF IsWalk
  <2> QED BY <2>1
<1>2. n \in Nat /\ b - a < n
  BY BlockSize DEF ImageOf
<1>3. 0 \in P
  <2>1. Along(front, ws, <<>>, 0, len, p, v, a, b, C)
    <3>1. a \in a..(b + 1)
      BY <1>1
    <3>2. a..(a - 1) = {} /\ DOMAIN <<>> = {}
      BY <1>1
    <3>3. len + (b - a) + 0 = len + (b - a)
      BY <1>1
    <3> QED BY <3>1, <3>2, <3>3 DEF Along, ImageOf, NodesBefore
  <2>2. Turns(front, ws)[0] = {FirstTurn(front, ws)}
    BY TurnsUnfold
  <2> HIDE DEF ws, len
  <2>3. FirstTurn(front, ws).front = front /\ FirstTurn(front, ws).rest = ws /\ FirstTurn(front, ws).done = <<>>
    BY DEF FirstTurn
  <2> QED BY <2>1, <2>2, <2>3
<1>4. ASSUME NEW i \in P PROVE i + 1 \in P
  <2>0. i \in Nat
    BY <1>4
  <2> HIDE DEF ws, len
  <2> SUFFICES ASSUME NEW r \in Turns(front, ws)[i + 1]
               PROVE  Along(r.front, r.rest, r.done, i + 1, len, p, v, a, b, C)
    BY <2>0
  <2>1. PICK q \in Turns(front, ws)[i] : r \in Turn(q)
    BY <2>0, TurnBefore
  <2>2. Along(q.front, q.rest, q.done, i, len, p, v, a, b, C)
    BY <1>4, <2>1
  <2> HIDE DEF ws, len, P
  <2> QED BY <1>1, <2>0, <2>1, <2>2, AlongTurns
<1>5. P = Nat
  <2> HIDE DEF P
  <2>1. P \in SUBSET Nat
    BY DEF P
  <2> QED BY <1>3, <1>4, <2>1, NatSteps
<1>6. PICK q \in Turns(front, ws)[len + n] : o = Joined(q.done, [w \in q.rest |-> Unresolved])
  BY DEF Spread
<1> DEFINE rest == q.rest
           done == q.done
           left == [w \in rest |-> Unresolved]
<1>7. Along(q.front, rest, done, len + n, len, p, v, a, b, C)
  <2>1. len + n \in Nat
    BY <1>1, <1>2
  <2> QED BY <1>5, <1>6, <2>1
<1>8. o = Joined(done, left)
  BY <1>6
<1> DEFINE f == q.front
<1> HIDE DEF ws, len, n, P, rest, done, f
<1>9. PICK c \in a..(b + 1) :
        /\ f \in Seq({v[j] : j \in 0..(c - 1)})
        /\ c <= b => \E k \in 1..Len(f) : f[k] = v[c - 1]
        /\ rest = {p[j] : j \in (c..b) \cup C}
        /\ DOMAIN done = {p[j] : j \in a..(c - 1)}
        /\ \A j \in a..(c - 1) : done[p[j]] = <<v[j - 1], v[j]>>
        /\ f = <<>> \/ Len(f) + (b - c) + (len + n) = len + (b - a)
  BY <1>7 DEF Along, f
<1>10. c = b + 1
  <2> DEFINE V == {v[j] : j \in 0..(c - 1)}
             m == Len(f)
  <2>1. f \in Seq(V)
    BY <1>9
  <2> HIDE DEF V
  <2>2. m \in Nat /\ (f = <<>> => m = 0)
    BY <2>1
  <2>3. m = 0 \/ m + (b - c) + (len + n) = len + (b - a)
    BY <1>9, <2>2
  <2>4. c <= b => \E k \in 1..m : TRUE
    BY <1>9
  <2> HIDE DEF m
  <2> QED BY <1>1, <1>2, <2>2, <2>3, <2>4
<1>11. rest = {p[j] : j \in C} /\ DOMAIN done = {p[j] : j \in a..b}
       /\ \A j \in a..b : done[p[j]] = <<v[j - 1], v[j]>>
  <2>1. c..b = {} /\ c - 1 = b
    BY <1>1, <1>10
  <2> QED BY <1>9, <2>1
<1>12. \A j \in C : p[j] \notin DOMAIN done
  <2> SUFFICES ASSUME NEW j \in C, NEW k \in a..b, p[j] = p[k] PROVE FALSE
    BY <1>11
  <2>1. j \in 1..N /\ k \in 1..N /\ j # k
    BY <1>1
  <2> QED BY <2>1, WalkDistinct
<1>13. DOMAIN left = rest /\ \A w \in rest : left[w] = Unresolved
  OBVIOUS
<1> HIDE DEF left
<1>14. /\ DOMAIN o = DOMAIN done \cup DOMAIN left
       /\ \A x \in DOMAIN done : o[x] = done[x]
       /\ \A x \in DOMAIN left : x \notin DOMAIN done => o[x] = left[x]
  BY <1>8 DEF Joined
<1>15. DOMAIN o = ImageOf(p, (a..b) \cup C)
  BY <1>11, <1>13, <1>14 DEF ImageOf
<1>16. \A j \in a..b : o[p[j]] = <<v[j - 1], v[j]>>
  BY <1>11, <1>14
<1>17. \A j \in C : o[p[j]] = Unresolved
  BY <1>11, <1>12, <1>13, <1>14
<1> QED
  BY <1>15, <1>16, <1>17 DEF Leads, Points

-----------------------------------------------------------------------------
(* All layers: the loop of _orient from the greatest TTL down. *)

\* Along a path the TTLs fall, by one at a time.
Slopes(T, N) ==
    /\ \A i \in 1..N : T[i] \in Nat
    /\ \A i, j \in 1..N : i <= j => T[j] <= T[i] /\ T[i] - T[j] <= j - i

\* The links seen are those with a number in S.
Sight(ttl, p, S, T, N) ==
    /\ S \subseteq 1..N
    /\ DOMAIN ttl = {p[j] : j \in S}
    /\ \A j \in S : ttl[p[j]] = T[j]

\* Of the first n links, those before a have a TTL above k and those from a to b have k.
Cut(T, n, k, a, b) ==
    /\ \A j \in 1..n : (T[j] > k <=> j < a) /\ (T[j] >= k <=> j <= b)
    /\ k < T[1] => a > 1 /\ T[a - 1] = k + 1
    /\ k >= T[n] => a <= b

\* Where TTLs fall along a path, those of at least k belong to its first links.
LEMMA LastAbove ==
    ASSUME NEW n \in Nat, NEW T, Slopes(T, n), NEW k \in Int
    PROVE  \E m \in 0..n : \A j \in 1..n : T[j] >= k <=> j <= m
<1> DEFINE A == {0} \cup {j \in 1..n : T[j] >= k}
<1>1. A \in SUBSET Nat /\ A # {} /\ \A j \in A : j <= n
  OBVIOUS
<1>2. PICK m \in A : \A j \in A : j <= m
  <2> HIDE DEF A
  <2> QED BY <1>1, HasGreatest
<1>3. m \in 0..n /\ (m # 0 => m \in 1..n /\ T[m] >= k)
  BY <1>2
<1>4. ASSUME NEW j \in 1..n PROVE T[j] >= k <=> j <= m
  <2>1. T[j] >= k => j <= m
    BY <1>2, <1>4
  <2>2. ASSUME j <= m PROVE T[j] >= k
    <3>1. m \in 1..n /\ T[m] >= k
      BY <1>3, <1>4, <2>2
    <3>2. T[m] <= T[j] /\ T[m] \in Nat /\ T[j] \in Nat
      BY <1>4, <2>2, <3>1 DEF Slopes
    <3> QED BY <3>1, <3>2
  <2> QED BY <2>1, <2>2
<1> QED
  BY <1>3, <1>4

\* The links of one TTL follow one another: they are a block of the path, maybe an empty one.
LEMMA CutAt ==
    ASSUME NEW n \in Nat \ {0}, NEW T, Slopes(T, n), NEW k \in Int, k <= T[1], T[n] - 1 <= k
    PROVE  \E a \in 1..(n + 1) : \E b \in (a - 1)..n : Cut(T, n, k, a, b)
<1>1. PICK m \in 0..n : \A j \in 1..n : T[j] >= k + 1 <=> j <= m
  <2>1. k + 1 \in Int
    OBVIOUS
  <2>2. \A x \in Int : \E m \in 0..n : \A j \in 1..n : T[j] >= x <=> j <= m
    BY LastAbove
  <2> QED BY <2>1, <2>2
<1>2. PICK b \in 0..n : \A j \in 1..n : T[j] >= k <=> j <= b
  BY LastAbove
<1>3. \A j \in 1..n : T[j] \in Nat
  BY DEF Slopes
<1>4. m <= b
  <2>1. ASSUME m > b PROVE FALSE
    <3>1. m \in 1..n
      BY <2>1
    <3>2. T[m] >= k + 1 /\ ~(T[m] >= k) /\ T[m] \in Nat
      BY <1>1, <1>2, <1>3, <2>1, <3>1
    <3> QED BY <3>2
  <2> QED BY <2>1
<1>5. k < T[1] => m >= 1 /\ T[m] = k + 1
  <2> SUFFICES ASSUME k < T[1] PROVE m >= 1 /\ T[m] = k + 1
    OBVIOUS
  <2>1. 1 \in 1..n /\ T[1] \in Nat
    BY <1>3
  <2>2. m \in 1..n
    BY <1>1, <2>1
  <2>3. T[m] >= k + 1 /\ T[m] \in Nat
    BY <1>1, <1>3, <2>2
  <2>4. T[m] <= k + 1
    <3>1. CASE m = n
      BY <2>3, <3>1
    <3>2. CASE m # n
      <4>1. m + 1 \in 1..n /\ ~(m + 1 <= m) /\ m <= m + 1 /\ (m + 1) - m = 1
        BY <2>2, <3>2
      <4>2. T[m + 1] \in Nat /\ ~(T[m + 1] >= k + 1) /\ T[m] - T[m + 1] <= 1
        BY <1>1, <1>3, <2>2, <4>1 DEF Slopes
      <4> QED BY <2>3, <4>2
    <3> QED BY <3>1, <3>2
  <2> QED BY <2>2, <2>3, <2>4
<1>6. k >= T[n] => m + 1 <= b
  <2> SUFFICES ASSUME k >= T[n] PROVE m + 1 <= b
    OBVIOUS
  <2>1. n \in 1..n /\ 1 \in 1..n /\ T[n] \in Nat /\ T[1] \in Nat
    BY <1>3
  <2>2. m + 1 \in 1..n
    BY <1>1, <2>1
  <2>3. T[m + 1] \in Nat
    BY <1>3, <2>2
  <2>4. T[m + 1] >= k
    <3>1. CASE m = 0
      BY <3>1
    <3>2. CASE m # 0
      <4>1. m \in 1..n /\ m <= m + 1 /\ (m + 1) - m = 1
        BY <3>2
      <4>2. T[m] \in Nat /\ T[m] >= k + 1 /\ T[m] - T[m + 1] <= 1
        BY <1>1, <1>3, <2>2, <4>1 DEF Slopes
      <4> QED BY <2>3, <4>2
    <3> QED BY <3>1, <3>2
  <2> QED BY <1>2, <2>2, <2>4
<1> DEFINE a == m + 1
<1>7. a \in 1..(n + 1) /\ b \in (a - 1)..n /\ a - 1 = m
  BY <1>4
<1>8. \A j \in 1..n : (T[j] > k <=> j < a) /\ (T[j] >= k <=> j <= b)
  <2> SUFFICES ASSUME NEW j \in 1..n PROVE T[j] > k <=> j < a
    BY <1>2
  <2>1. T[j] \in Nat /\ (T[j] >= k + 1 <=> j <= m)
    BY <1>1, <1>3
  <2> QED BY <2>1
<1>9. Cut(T, n, k, a, b)
  BY <1>5, <1>6, <1>7, <1>8 DEF Cut
<1> QED
  BY <1>7, <1>9

\* A layer, by the numbers of its links.
LEMMA LayerIs ==
    ASSUME NEW N, NEW p, NEW S, NEW T, NEW ttl, Sight(ttl, p, S, T, N), NEW k
    PROVE  Layer(ttl, k) = {p[j] : j \in {i \in S : T[i] = k}}
BY DEF Layer, Sight

\* The TTLs seen, by the numbers of the links.
LEMMA TtlRange ==
    ASSUME NEW N, NEW p, NEW S, NEW T, NEW ttl, Sight(ttl, p, S, T, N)
    PROVE  Range(ttl) = {T[j] : j \in S}
<1>1. Range(ttl) = {ttl[w] : w \in DOMAIN ttl}
  BY DEF Range
<1>2. {ttl[w] : w \in {p[j] : j \in S}} = {ttl[p[j]] : j \in S}
  OBVIOUS
<1> QED
  BY <1>1, <1>2 DEF Sight

\* The greatest TTL seen is the one of the first link, when that was seen.
LEMMA TopIs ==
    ASSUME NEW N \in Nat, NEW p, NEW S, NEW T, Slopes(T, N), NEW ttl, Sight(ttl, p, S, T, N), 1 \in S
    PROVE  Max(Range(ttl)) = T[1]
<1>1. Range(ttl) = {T[j] : j \in S}
  BY TtlRange
<1>2. \A j \in S : j \in 1..N /\ 1 \in 1..N /\ 1 <= j
  BY DEF Sight
<1>3. \A j \in S : T[j] <= T[1] /\ T[j] \in Nat /\ T[1] \in Nat
  BY <1>2 DEF Slopes
<1> DEFINE R == {T[j] : j \in S}
<1>4. T[1] \in R /\ \A y \in R : T[1] >= y /\ y \in Nat
  BY <1>3
<1> HIDE DEF R
<1>5. Max(R) \in R /\ \A y \in R : Max(R) >= y
  BY <1>4 DEF Max
<1>6. Max(R) = T[1]
  BY <1>4, <1>5
<1> QED
  BY <1>1, <1>6 DEF R

\* The first n of the links of a path were seen, and not the next one.
GapAfter(S, n, N) == n \in 1..N /\ S \subseteq 1..N /\ 1..n \subseteq S /\ n + 1 \notin S

\* All that is known of a path and of what was seen of it.
Setting(p, v, N, S, T, ttl, n) ==
    IsWalk(p, v, N) /\ Slopes(T, N) /\ Sight(ttl, p, S, T, N) /\ GapAfter(S, n, N)

\* The links of the layer: a block of those first ones, and others it cannot reach.
Beyond(S, T, n, k) == {i \in S : i > n /\ T[i] = k}

\* A layer of the links seen is a block of the first ones and links farther than a hop away.
LEMMA LayerSplits ==
    ASSUME NEW N \in Nat, NEW S, NEW T, Slopes(T, N), NEW n, GapAfter(S, n, N), NEW k \in Int,
           NEW a \in 1..(n + 1), NEW b \in (a - 1)..n, Cut(T, n, k, a, b)
    PROVE  /\ {i \in S : T[i] = k} = (a..b) \cup Beyond(S, T, n, k)
           /\ {i \in 1..n : T[i] = k} = a..b
           /\ Beyond(S, T, n, k) \subseteq (b + 2)..N
<1>1. n \in 1..N /\ S \subseteq 1..N /\ 1..n \subseteq S /\ n + 1 \notin S
  BY DEF GapAfter
<1>2. \A i \in S : T[i] \in Nat
  BY <1>1 DEF Slopes
<1>3. \A i \in 1..n : T[i] = k <=> i \in a..b
  <2> SUFFICES ASSUME NEW i \in 1..n PROVE T[i] = k <=> i \in a..b
    OBVIOUS
  <2>1. T[i] \in Nat /\ (T[i] > k <=> i < a) /\ (T[i] >= k <=> i <= b)
    BY <1>1, <1>2 DEF Cut
  <2> QED BY <1>1, <2>1
<1>4. \A i \in a..b : i \in 1..n
  BY <1>1
<1>5. \A i \in S : i > n \/ i \in 1..n
  BY <1>1
<1>6. {i \in 1..n : T[i] = k} = a..b
  BY <1>3, <1>4
<1>7. {i \in S : T[i] = k} = (a..b) \cup Beyond(S, T, n, k)
  BY <1>1, <1>3, <1>4, <1>5 DEF Beyond
<1>8. \A i \in S : i > n => i \in (b + 2)..N
  <2> SUFFICES ASSUME NEW i \in S, i > n PROVE i \in (b + 2)..N
    OBVIOUS
  <2>1. i \in 1..N /\ i # n + 1
    BY <1>1
  <2> QED BY <1>1, <2>1
<1> QED
  BY <1>6, <1>7, <1>8 DEF Beyond

\* The nodes that links with a TTL lead to, and those a layer is oriented from.
ReachedBy(v, T, n, k) == {v[x] : x \in {y \in 1..n : T[y] = k}}
Upstream(ttl, k, source, was) == IF StartsRun(ttl, k) THEN InitialUpstream(ttl, k, source) ELSE was

\* The source is at an end of a link of the top layer, when the first link was seen.
LEMMA SourceOnTop ==
    ASSUME NEW p, NEW v, NEW N, IsWalk(p, v, N), NEW S, NEW T, NEW ttl, Sight(ttl, p, S, T, N), 1 \in S
    PROVE  v[0] \in NodesOf(Layer(ttl, T[1]))
<1>1. 1 \in 1..N
  BY DEF Sight
<1>2. p[1] \in Layer(ttl, T[1])
  <2>1. Layer(ttl, T[1]) = {p[j] : j \in {i \in S : T[i] = T[1]}}
    BY LayerIs
  <2> QED BY <2>1
<1>3. Range(WireEnds[p[1]]) = {v[1 - 1], v[1]}
  BY <1>1, WalkEnds
<1>4. v[0] \in Range(WireEnds[p[1]])
  BY <1>3
<1> QED
  BY <1>2, <1>4 DEF NodesOf

\* A layer is oriented from nodes before its block, the one it starts at among them.
LEMMA UpstreamIs ==
    ASSUME NEW p, NEW v, NEW N, NEW S, NEW T, NEW ttl, NEW n, Setting(p, v, N, S, T, ttl, n),
           NEW k \in Int, k <= T[1], NEW a \in 1..(n + 1), NEW b \in (a - 1)..n, Cut(T, n, k, a, b)
    PROVE  /\ Upstream(ttl, k, v[0], ReachedBy(v, T, n, k + 1)) \subseteq NodesBefore(v, a)
           /\ v[a - 1] \in Upstream(ttl, k, v[0], ReachedBy(v, T, n, k + 1))
<1> DEFINE was == ReachedBy(v, T, n, k + 1)
           up == Upstream(ttl, k, v[0], was)
<1>0. IsWalk(p, v, N) /\ Slopes(T, N) /\ Sight(ttl, p, S, T, N) /\ GapAfter(S, n, N)
  BY DEF Setting
<1>1. N \in Nat /\ n \in 1..N /\ S \subseteq 1..N /\ 1..n \subseteq S /\ 1 \in S /\ 1 \in 1..N
  BY <1>0 DEF GapAfter, IsWalk
<1>2. \A i \in 1..N : T[i] \in Nat /\ T[i] <= T[1]
  BY <1>0, <1>1 DEF Slopes
<1>3. Layer(ttl, k + 1) = {p[j] : j \in {i \in S : T[i] = k + 1}}
  BY <1>0, LayerIs
<1>4. Layer(ttl, k) = {p[j] : j \in {i \in S : T[i] = k}}
  BY <1>0, LayerIs
<1>5. CASE k = T[1]
  <2>1. StartsRun(ttl, k)
    <3>1. \A i \in S : T[i] # k + 1
      BY <1>1, <1>2, <1>5
    <3> QED BY <1>3, <3>1 DEF StartsRun
  <2>2. v[0] \in NodesOf(Layer(ttl, k))
    BY <1>0, <1>1, <1>5, SourceOnTop
  <2>3. up = {v[0]}
    BY <2>1, <2>2 DEF InitialUpstream, Upstream
  <2>4. a = 1
    <3>1. ~(T[1] > k)
      BY <1>1, <1>2, <1>5
    <3>2. ~(1 < a)
      BY <1>1, <3>1 DEF Cut
    <3> QED BY <1>1, <3>2
  <2>5. 0 \in 0..(a - 1) /\ a - 1 = 0
    BY <2>4
  <2> QED BY <2>3, <2>5 DEF NodesBefore
<1>6. CASE k < T[1]
  <2>1. a > 1 /\ T[a - 1] = k + 1
    BY <1>6 DEF Cut
  <2>2. a - 1 \in 1..n /\ a - 1 \in S
    BY <1>1, <2>1
  <2>3. ~StartsRun(ttl, k)
    <3>1. p[a - 1] \in Layer(ttl, k + 1)
      BY <1>3, <2>1, <2>2
    <3> QED BY <3>1 DEF StartsRun
  <2>4. up = was
    BY <2>3 DEF Upstream
  <2>5. \A y \in 1..n : T[y] = k + 1 => y \in 0..(a - 1)
    <3> SUFFICES ASSUME NEW y \in 1..n, T[y] = k + 1 PROVE y \in 0..(a - 1)
      OBVIOUS
    <3>1. T[y] > k
      OBVIOUS
    <3>2. y < a
      BY <3>1 DEF Cut
    <3> QED BY <1>1, <3>2
  <2> QED BY <2>1, <2>2, <2>4, <2>5 DEF ReachedBy, NodesBefore
<1>7. k = T[1] \/ k < T[1]
  BY <1>1, <1>2
<1> QED
  BY <1>5, <1>6, <1>7

\* The nodes the links that got a direction lead to.
LEMMA DownstreamIs ==
    ASSUME NEW p, NEW v, NEW N, IsWalk(p, v, N), NEW a \in 1..(N + 1), NEW b \in (a - 1)..N,
           NEW C, NEW o, Points(o, p, v, a, b, C)
    PROVE  /\ Downstream(ImageOf(p, (a..b) \cup C), o) = ImageOf(v, a..b)
           /\ Sources(ImageOf(p, (a..b) \cup C), o) = ImageOf(v, (a - 1)..(b - 1))
<1> DEFINE ws == ImageOf(p, (a..b) \cup C)
<1>0. \A j \in a..b : o[p[j]] = <<v[j - 1], v[j]>>
  BY DEF Points
<1>10. \A j \in C : o[p[j]] = Unresolved
  BY DEF Points
<1>1. \A j \in a..b : j \in 1..N
  BY DEF IsWalk
<1>2. \A j \in a..b : <<v[j - 1], v[j]>> # Unresolved
  BY <1>1, WalkEnds
<1>3. {x \in ws : o[x] # Unresolved} = {p[j] : j \in a..b}
  <2>1. \A j \in a..b : o[p[j]] # Unresolved
    BY <1>0, <1>2
  <2>2. \A x \in ws : o[x] # Unresolved <=> \E j \in a..b : x = p[j]
    <3> SUFFICES ASSUME NEW j \in (a..b) \cup C
                 PROVE  o[p[j]] # Unresolved <=> \E l \in a..b : p[j] = p[l]
      BY DEF ImageOf
    <3>1. CASE j \in a..b
      BY <2>1, <3>1
    <3>2. CASE j \in C
      BY <1>10, <2>1, <3>2
    <3> QED BY <3>1, <3>2
  <2>3. \A j \in a..b : p[j] \in ws
    BY DEF ImageOf
  <2> QED BY <2>2, <2>3
<1>4. \A j \in a..b : o[p[j]][1] = v[j - 1] /\ o[p[j]][2] = v[j]
  <2> SUFFICES ASSUME NEW j \in a..b PROVE o[p[j]][1] = v[j - 1] /\ o[p[j]][2] = v[j]
    OBVIOUS
  <2> DEFINE pair == <<v[j - 1], v[j]>>
  <2>1. pair[1] = v[j - 1] /\ pair[2] = v[j] /\ o[p[j]] = pair
    BY <1>0
  <2> HIDE DEF pair
  <2> QED BY <2>1
<1>5. {o[w][2] : w \in {p[j] : j \in a..b}} = {v[j] : j \in a..b}
  <2>1. {o[w][2] : w \in {p[j] : j \in a..b}} = {o[p[j]][2] : j \in a..b}
    OBVIOUS
  <2> QED BY <1>4, <2>1
<1>6. {o[w][1] : w \in {p[j] : j \in a..b}} = {v[j - 1] : j \in a..b}
  <2>1. {o[w][1] : w \in {p[j] : j \in a..b}} = {o[p[j]][1] : j \in a..b}
    OBVIOUS
  <2>2. {o[p[j]][1] : j \in a..b} = {v[j - 1] : j \in a..b}
    <3> DEFINE F(j) == o[p[j]][1]
               G(j) == v[j - 1]
               D == a..b
    <3>1. \A j \in D : F(j) = G(j)
      BY <1>4
    <3> HIDE DEF F, G, D
    <3>2. {F(j) : j \in D} = {G(j) : j \in D}
      BY <3>1
    <3> QED BY <3>2 DEF F, G, D
  <2> QED BY <2>1, <2>2
<1>7. {v[j - 1] : j \in a..b} = ImageOf(v, (a - 1)..(b - 1))
  <2>1. \A j \in a..b : j - 1 \in (a - 1)..(b - 1)
    BY <1>1
  <2>2. \A i \in (a - 1)..(b - 1) : i + 1 \in a..b /\ (i + 1) - 1 = i
    BY <1>1
  <2>3. \A i \in (a - 1)..(b - 1) : \E j \in a..b : v[i] = v[j - 1]
    BY <2>2
  <2> QED BY <2>1, <2>3 DEF ImageOf
<1> QED
  BY <1>3, <1>5, <1>6, <1>7 DEF Downstream, Sources, ImageOf

\* The loop of _orient, layer by layer.
Undirected == [links |-> <<>>, up |-> {}]
StepDown(ttl, i, source, d) == Orient(ttl, Max(Range(ttl)) + 1 - i, source, d)
DescentTo(g, n, ttl, source) ==
    g = [i \in 0..n |-> IF i = 0 THEN {Undirected} ELSE UNION {StepDown(ttl, i, source, q) : q \in g[i - 1]}]

\* Two functions that follow the loop of _orient up to n agree up to n.
LEMMA DescentAgrees ==
    ASSUME NEW ttl, NEW source, NEW n \in Nat, NEW m \in Nat, NEW g, NEW h,
           DescentTo(g, n, ttl, source), DescentTo(h, m, ttl, source)
    PROVE  \A i \in 0..n : i \in 0..m => g[i] = h[i]
<1> DEFINE P == {i \in Nat : i \in 0..n /\ i \in 0..m => g[i] = h[i]}
<1>1. 0 \in P
  <2>1. 0 \in 0..n /\ 0 \in 0..m
    OBVIOUS
  <2>2. g[0] = {Undirected} /\ h[0] = {Undirected}
    BY <2>1 DEF DescentTo
  <2> QED BY <2>2
<1>2. ASSUME NEW i \in P PROVE i + 1 \in P
  <2> SUFFICES ASSUME i + 1 \in 0..n, i + 1 \in 0..m PROVE g[i + 1] = h[i + 1]
    OBVIOUS
  <2>1. i \in 0..n /\ i \in 0..m /\ g[i] = h[i] /\ i + 1 # 0 /\ (i + 1) - 1 = i
    BY <1>2
  <2>2. g[i + 1] = UNION {StepDown(ttl, i + 1, source, q) : q \in g[i]} /\ h[i + 1] = UNION {StepDown(ttl, i + 1, source, q) : q \in h[i]}
    BY <2>1 DEF DescentTo
  <2> QED BY <2>1, <2>2
<1>3. P = Nat
  <2> HIDE DEF P
  <2>1. P \in SUBSET Nat
    BY DEF P
  <2> QED BY <1>1, <1>2, <2>1, NatSteps
<1> QED
  BY <1>3

\* The results of a turn of _orient come from those of the turn before.
LEMMA DescentUnfolds ==
    ASSUME NEW ttl, NEW source
    PROVE  /\ Descent(ttl, source)[0] = {Undirected}
           /\ \A i \in Nat : Descent(ttl, source)[i + 1] = UNION {StepDown(ttl, i + 1, source, q) : q \in Descent(ttl, source)[i]}
<1> DEFINE E == {n \in Nat : \E g : DescentTo(g, n, ttl, source)}
           c(n) == CHOOSE g : DescentTo(g, n, ttl, source)
           F == [i \in Nat |-> c(i)[i]]
           Loop(f) == f = [i \in Nat |-> IF i = 0 THEN {Undirected}
                                         ELSE UNION {StepDown(ttl, i, source, q) : q \in f[i - 1]}]
<1>1. 0 \in E
  <2> DEFINE g == [i \in 0..0 |-> {Undirected}]
  <2>1. g = [i \in 0..0 |-> IF i = 0 THEN {Undirected} ELSE UNION {StepDown(ttl, i, source, q) : q \in g[i - 1]}]
    OBVIOUS
  <2> HIDE DEF g
  <2> QED BY <2>1 DEF DescentTo
<1>2. ASSUME NEW n \in E PROVE n + 1 \in E
  <2>1. PICK g : DescentTo(g, n, ttl, source)
    BY <1>2
  <2> DEFINE h == [i \in 0..(n + 1) |-> IF i = n + 1 THEN UNION {StepDown(ttl, n + 1, source, q) : q \in g[n]} ELSE g[i]]
  <2>2. n \in Nat
    BY <1>2
  <2>3. \A i \in 0..n : h[i] = g[i] /\ g[i] = IF i = 0 THEN {Undirected}
                                               ELSE UNION {StepDown(ttl, i, source, q) : q \in g[i - 1]}
    <3>1. \A i \in 0..n : i \in 0..(n + 1) /\ i # n + 1
      BY <2>2
    <3>2. \A i \in 0..n : h[i] = g[i]
      BY <3>1
    <3>3. \A i \in 0..n : g[i] = IF i = 0 THEN {Undirected} ELSE UNION {StepDown(ttl, i, source, q) : q \in g[i - 1]}
      BY <2>1 DEF DescentTo
    <3> QED BY <3>2, <3>3, Zenon
  <2>4. \A i \in 0..(n + 1) : h[i] = IF i = 0 THEN {Undirected} ELSE UNION {StepDown(ttl, i, source, q) : q \in h[i - 1]}
    <3>1. ASSUME NEW i \in 0..n
          PROVE  h[i] = IF i = 0 THEN {Undirected} ELSE UNION {StepDown(ttl, i, source, q) : q \in h[i - 1]}
      <4>1. i # 0 => i - 1 \in 0..n
        BY <2>2
      <4>2. i # 0 => h[i - 1] = g[i - 1]
        BY <2>3, <4>1
      <4> HIDE DEF h
      <4> QED BY <2>3, <4>2
    <3>2. h[n + 1] = UNION {StepDown(ttl, n + 1, source, q) : q \in h[n]} /\ (n + 1) - 1 = n /\ n + 1 # 0
      BY <2>2, <2>3
    <3> SUFFICES ASSUME NEW i \in 0..(n + 1)
                 PROVE  h[i] = IF i = 0 THEN {Undirected} ELSE UNION {StepDown(ttl, i, source, q) : q \in h[i - 1]}
      OBVIOUS
    <3>3. i \in 0..n \/ i = n + 1
      BY <2>2
    <3> HIDE DEF h
    <3>4. CASE i = n + 1
      BY <3>2, <3>4
    <3> QED BY <3>1, <3>3, <3>4
  <2>5. h = [i \in 0..(n + 1) |-> h[i]]
    OBVIOUS
  <2> HIDE DEF h
  <2>6. h = [i \in 0..(n + 1) |-> IF i = 0 THEN {Undirected} ELSE UNION {StepDown(ttl, i, source, q) : q \in h[i - 1]}]
    BY <2>4, <2>5
  <2>7. DescentTo(h, n + 1, ttl, source)
    BY <2>6 DEF DescentTo
  <2> QED BY <2>2, <2>7
<1>3. E = Nat
  <2> HIDE DEF E
  <2>1. E \in SUBSET Nat
    BY DEF E
  <2> QED BY <1>1, <1>2, <2>1, NatSteps
<1>4. \A n \in Nat : DescentTo(c(n), n, ttl, source)
  BY <1>3
<1> HIDE DEF c
<1>5. F[0] = {Undirected}
  <2>1. DescentTo(c(0), 0, ttl, source)
    BY <1>4
  <2>2. c(0)[0] = {Undirected}
    BY <2>1 DEF DescentTo
  <2> QED BY <2>2
<1>6. ASSUME NEW i \in Nat PROVE F[i + 1] = UNION {StepDown(ttl, i + 1, source, q) : q \in F[i]}
  <2>1. DescentTo(c(i), i, ttl, source) /\ DescentTo(c(i + 1), i + 1, ttl, source)
    BY <1>4
  <2>2. i \in 0..i /\ i \in 0..(i + 1) /\ i + 1 \in 0..(i + 1) /\ i + 1 # 0 /\ (i + 1) - 1 = i
    OBVIOUS
  <2>3. c(i)[i] = c(i + 1)[i]
    BY <2>1, <2>2, DescentAgrees
  <2>4. c(i + 1)[i + 1] = UNION {StepDown(ttl, i + 1, source, q) : q \in c(i + 1)[i]}
    BY <2>1, <2>2 DEF DescentTo
  <2>5. F[i] = c(i)[i] /\ F[i + 1] = c(i + 1)[i + 1]
    OBVIOUS
  <2> QED BY <2>3, <2>4, <2>5
<1>7. F = [i \in Nat |-> F[i]]
  OBVIOUS
<1> HIDE DEF F
<1>8. \A i \in Nat : F[i] = IF i = 0 THEN {Undirected} ELSE UNION {StepDown(ttl, i, source, q) : q \in F[i - 1]}
  <2>1. ASSUME NEW i \in Nat, i # 0 PROVE F[i] = UNION {StepDown(ttl, i, source, q) : q \in F[i - 1]}
    <3>1. i - 1 \in Nat /\ (i - 1) + 1 = i
      BY <2>1
    <3> QED BY <1>6, <3>1
  <2> QED BY <1>5, <2>1
<1>9. Loop(F)
  BY <1>7, <1>8
<1>10. Descent(ttl, source) = CHOOSE f : Loop(f)
  BY DEF Descent, Undirected, StepDown
<1>11. Loop(Descent(ttl, source))
  <2> HIDE DEF Loop
  <2> QED BY <1>9, <1>10
<1> DEFINE T == Descent(ttl, source)
<1>12. T = [i \in Nat |-> IF i = 0 THEN {Undirected} ELSE UNION {StepDown(ttl, i, source, q) : q \in T[i - 1]}]
  BY <1>11
<1> HIDE DEF T
<1>13. T[0] = {Undirected}
  BY <1>12
<1>14. ASSUME NEW i \in Nat PROVE T[i + 1] = UNION {StepDown(ttl, i + 1, source, q) : q \in T[i]}
  <2>1. i + 1 \in Nat /\ i + 1 # 0 /\ (i + 1) - 1 = i
    OBVIOUS
  <2> QED BY <1>12, <2>1
<1> QED
  BY <1>13, <1>14 DEF T

\* The links with TTLs from k on: the first n point the way of the packets, others nowhere.
Directed(l, p, v, S, T, n, k) ==
    /\ DOMAIN l = {p[j] : j \in {i \in S : T[i] >= k}}
    /\ \A j \in S : T[j] >= k => l[p[j]] = IF j <= n THEN <<v[j - 1], v[j]>> ELSE Unresolved

\* Directions for the links above a layer and for the layer are those for both.
LEMMA DirectedMore ==
    ASSUME NEW p, NEW v, NEW N, IsWalk(p, v, N), NEW S, NEW T, Slopes(T, N), S \subseteq 1..N,
           NEW n \in Nat, NEW k \in Int, NEW l, Directed(l, p, v, S, T, n, k + 1),
           NEW o, DOMAIN o = {p[j] : j \in {i \in S : T[i] = k}},
           \A j \in S : T[j] = k => o[p[j]] = IF j <= n THEN <<v[j - 1], v[j]>> ELSE Unresolved
    PROVE  Directed(Joined(l, o), p, v, S, T, n, k)
<1> DEFINE h == Joined(l, o)
<1>1. /\ DOMAIN h = DOMAIN l \cup DOMAIN o
      /\ \A x \in DOMAIN l : h[x] = l[x]
      /\ \A x \in DOMAIN o : x \notin DOMAIN l => h[x] = o[x]
  BY DEF Joined
<1> HIDE DEF h
<1>2. \A j \in S : T[j] \in Nat
  BY DEF Slopes
<1>3. \A j \in S : T[j] >= k <=> T[j] >= k + 1 \/ T[j] = k
  BY <1>2
<1>4. DOMAIN h = {p[j] : j \in {i \in S : T[i] >= k}}
  <2>1. {i \in S : T[i] >= k} = {i \in S : T[i] >= k + 1} \cup {i \in S : T[i] = k}
    BY <1>3
  <2> QED BY <1>1, <2>1 DEF Directed
<1>5. ASSUME NEW j \in S, T[j] >= k PROVE h[p[j]] = IF j <= n THEN <<v[j - 1], v[j]>> ELSE Unresolved
  <2>1. CASE T[j] >= k + 1
    <3>1. p[j] \in DOMAIN l /\ l[p[j]] = IF j <= n THEN <<v[j - 1], v[j]>> ELSE Unresolved
      BY <2>1 DEF Directed
    <3> QED BY <1>1, <3>1
  <2>2. CASE T[j] = k
    <3>1. p[j] \notin DOMAIN l
      <4> SUFFICES ASSUME NEW i \in S, T[i] >= k + 1, p[i] = p[j] PROVE FALSE
        BY DEF Directed
      <4>1. i \in 1..N /\ j \in 1..N
        OBVIOUS
      <4>2. i = j
        BY <4>1, WalkDistinct
      <4> QED BY <1>2, <2>2, <4>2
    <3>2. p[j] \in DOMAIN o
      BY <2>2
    <3>3. h[p[j]] = o[p[j]]
      BY <1>1, <3>1, <3>2
    <3> QED BY <2>2, <3>3
  <2> QED BY <1>3, <1>5, <2>1, <2>2
<1>6. Directed(h, p, v, S, T, n, k)
  BY <1>4, <1>5 DEF Directed
<1> QED
  BY <1>6 DEF h

\* One turn of _orient, for the layers of the first n links and the one below.
LEMMA OrientCore ==
    ASSUME NEW p, NEW v, NEW N, NEW S, NEW T, NEW ttl, NEW n, Setting(p, v, N, S, T, ttl, n),
           NEW k \in Int, k <= T[1], T[n] - 1 <= k, NEW links, Directed(links, p, v, S, T, n, k + 1),
           NEW front \in SetToSeqs(Upstream(ttl, k, v[0], ReachedBy(v, T, n, k + 1))),
           NEW o \in Spread(front, Layer(ttl, k))
    PROVE  /\ Directed(Joined(links, o), p, v, S, T, n, k)
           /\ k >= T[n] => /\ Downstream(Layer(ttl, k), o) = ReachedBy(v, T, n, k)
                           /\ Downstream(Layer(ttl, k), o) # {}
<1> DEFINE up == Upstream(ttl, k, v[0], ReachedBy(v, T, n, k + 1))
           ws == Layer(ttl, k)
           C == Beyond(S, T, n, k)
<1>0. IsWalk(p, v, N) /\ Slopes(T, N) /\ Sight(ttl, p, S, T, N) /\ GapAfter(S, n, N)
  BY DEF Setting
<1>1. N \in Nat /\ n \in 1..N /\ n \in Nat \ {0} /\ S \subseteq 1..N /\ \A j \in S : j \in 1..N
  BY <1>0 DEF GapAfter, IsWalk
<1>2. Slopes(T, n)
  BY <1>0, <1>1 DEF Slopes
<1>3. PICK a \in 1..(n + 1) : \E b \in (a - 1)..n : Cut(T, n, k, a, b)
  BY <1>1, <1>2, CutAt
<1>4. PICK b \in (a - 1)..n : Cut(T, n, k, a, b)
  BY <1>3
<1>5. a \in 1..(N + 1) /\ b \in (a - 1)..N
  BY <1>1
<1>6. /\ {i \in S : T[i] = k} = (a..b) \cup Beyond(S, T, n, k)
      /\ {i \in 1..n : T[i] = k} = a..b
      /\ Beyond(S, T, n, k) \subseteq (b + 2)..N
  BY <1>0, <1>1, <1>4, LayerSplits, Zenon
<1>7. ws = ImageOf(p, (a..b) \cup C)
  <2>1. ws = {p[j] : j \in {i \in S : T[i] = k}}
    BY <1>0, LayerIs
  <2> QED BY <1>6, <2>1 DEF ImageOf
<1>8. C \in SUBSET ((b + 2)..N)
  BY <1>6
<1>9. up \subseteq NodesBefore(v, a) /\ v[a - 1] \in up
  BY <1>4, UpstreamIs
<1> HIDE DEF up, ws, C
<1>10. front \in SetToSeqs(up) /\ o \in Spread(front, ws)
  BY DEF up, ws
<1>11. IsFiniteSet(up)
  <2>1. IsFiniteSet(0..(a - 1))
    BY <1>1, FS_Interval
  <2> DEFINE f == [j \in 0..(a - 1) |-> v[j]]
  <2>2. f \in Surjection(0..(a - 1), NodesBefore(v, a))
    BY DEF Surjection, NodesBefore
  <2> HIDE DEF f
  <2>3. IsFiniteSet(NodesBefore(v, a))
    BY <2>1, <2>2, FS_Surjection
  <2> QED BY <1>9, <2>3, FS_Subset
<1>12. front \in Seq(NodesBefore(v, a)) /\ \E x \in 1..Len(front) : front[x] = v[a - 1]
  <2>1. front \in Seq(up) /\ \A x \in up : \E i \in 1..Len(front) : front[i] = x
    BY <1>10, <1>11, OrderOf
  <2>2. front \in Seq(NodesBefore(v, a))
    BY <1>9, <2>1
  <2> QED BY <1>9, <2>1, <2>2
<1>13. Leads(o, p, v, a, b, C)
  <2>1. o \in Spread(front, ImageOf(p, (a..b) \cup C))
    BY <1>7, <1>10
  <2> QED BY <1>0, <1>5, <1>8, <1>12, <2>1, SpreadFollows
<1>14. DOMAIN o = {p[j] : j \in {i \in S : T[i] = k}}
  BY <1>6, <1>13 DEF C, Leads, ImageOf
<1>15. \A j \in S : T[j] = k => o[p[j]] = IF j <= n THEN <<v[j - 1], v[j]>> ELSE Unresolved
  <2> SUFFICES ASSUME NEW j \in S, T[j] = k PROVE o[p[j]] = IF j <= n THEN <<v[j - 1], v[j]>> ELSE Unresolved
    OBVIOUS
  <2>1. CASE j <= n
    <3>1. j \in 1..n
      BY <1>1, <2>1
    <3>2. j \in a..b
      BY <1>6, <3>1
    <3> QED BY <1>13, <2>1, <3>2 DEF Leads, Points
  <2>2. CASE ~(j <= n)
    <3>1. j > n
      BY <1>1, <2>2
    <3>2. j \in C
      BY <3>1 DEF Beyond, C
    <3> QED BY <1>13, <2>2, <3>2 DEF Leads, Points
  <2> QED BY <2>1, <2>2
<1>16. Directed(Joined(links, o), p, v, S, T, n, k)
  BY <1>0, <1>1, <1>14, <1>15, DirectedMore
<1>17. k >= T[n] => Downstream(ws, o) = ReachedBy(v, T, n, k) /\ Downstream(ws, o) # {}
  <2> SUFFICES ASSUME k >= T[n] PROVE Downstream(ws, o) = ImageOf(v, a..b) /\ Downstream(ws, o) # {}
    BY <1>6 DEF ReachedBy, ImageOf
  <2>1. Downstream(ImageOf(p, (a..b) \cup C), o) = ImageOf(v, a..b)
    BY <1>0, <1>5, <1>13, DownstreamIs DEF Leads
  <2>2. a \in a..b
    BY <1>1, <1>4 DEF Cut
  <2>3. v[a] \in ImageOf(v, a..b)
    BY <2>2 DEF ImageOf
  <2> QED BY <1>7, <2>1, <2>3
<1> QED
  BY <1>16, <1>17 DEF ws

\* The turn of _orient for a layer orients it and hands on the nodes it leads to.
LEMMA OrientLayer ==
    ASSUME NEW p, NEW v, NEW N, NEW S, NEW T, NEW ttl, NEW n, Setting(p, v, N, S, T, ttl, n),
           NEW k \in Int, k <= T[1], T[n] - 1 <= k,
           NEW d, Directed(d.links, p, v, S, T, n, k + 1), d.up = ReachedBy(v, T, n, k + 1),
           NEW e \in Orient(ttl, k, v[0], d)
    PROVE  /\ Directed(e.links, p, v, S, T, n, k)
           /\ k >= T[n] => e.up = ReachedBy(v, T, n, k)
<1> DEFINE ws == Layer(ttl, k)
           links == d.links
           up == Upstream(ttl, k, v[0], d.up)
<1>1. PICK front \in SetToSeqs(up) : \E o \in Spread(front, ws) :
        e = [links |-> Joined(links, o), up |-> IF Downstream(ws, o) = {} THEN up ELSE Downstream(ws, o)]
  BY DEF Orient, Upstream
<1>2. PICK o \in Spread(front, ws) :
        e = [links |-> Joined(links, o), up |-> IF Downstream(ws, o) = {} THEN up ELSE Downstream(ws, o)]
  BY <1>1
<1>3. e.links = Joined(links, o) /\ e.up = IF Downstream(ws, o) = {} THEN up ELSE Downstream(ws, o)
  BY <1>2
<1>4. up = Upstream(ttl, k, v[0], ReachedBy(v, T, n, k + 1))
  OBVIOUS
<1>5. Directed(links, p, v, S, T, n, k + 1)
  OBVIOUS
<1> HIDE DEF links, up
<1>6. /\ Directed(Joined(links, o), p, v, S, T, n, k)
      /\ k >= T[n] => /\ Downstream(ws, o) = ReachedBy(v, T, n, k)
                      /\ Downstream(ws, o) # {}
  BY <1>1, <1>2, <1>4, <1>5, OrientCore
<1> QED
  BY <1>3, <1>6

\* However far _orient has come down the layers, the first n links seen so far point the
\* way of the packets.
LEMMA DescentFollows ==
    ASSUME NEW p, NEW v, NEW N, NEW S, NEW T, NEW ttl, NEW n, Setting(p, v, N, S, T, ttl, n),
           NEW i \in Nat, i <= T[1] - T[n] + 2, NEW d \in Descent(ttl, v[0])[i]
    PROVE  Directed(d.links, p, v, S, T, n, T[1] + 1 - i)
<1> DEFINE Good(x, m) == /\ Directed(x.links, p, v, S, T, n, T[1] + 1 - m)
                         /\ m <= T[1] - T[n] + 1 => x.up = ReachedBy(v, T, n, T[1] + 1 - m)
           P == {m \in Nat : m <= T[1] - T[n] + 2 => \A x \in Descent(ttl, v[0])[m] : Good(x, m)}
<1>0. IsWalk(p, v, N) /\ Slopes(T, N) /\ Sight(ttl, p, S, T, N) /\ GapAfter(S, n, N)
  BY DEF Setting
<1>1. N \in Nat /\ n \in 1..N /\ S \subseteq 1..N /\ 1..n \subseteq S /\ 1 \in S /\ 1 \in 1..N
  BY <1>0 DEF GapAfter, IsWalk
<1>2. T[1] \in Nat /\ T[n] \in Nat /\ \A j \in 1..N : T[j] \in Nat /\ T[j] <= T[1]
  <2>1. \A j \in 1..N : T[j] \in Nat
    BY <1>0 DEF Slopes
  <2>2. \A j \in 1..N : 1 <= j
    OBVIOUS
  <2>3. \A j \in 1..N : T[j] <= T[1]
    BY <1>0, <1>1, <2>2 DEF Slopes
  <2> QED BY <1>1, <2>1, <2>3
<1>3. Max(Range(ttl)) = T[1]
  BY <1>0, <1>1, TopIs
<1>4. 0 \in P
  <2>1. Descent(ttl, v[0])[0] = {Undirected}
    BY DescentUnfolds
  <2>2. Undirected.links = <<>> /\ Undirected.up = {}
    BY DEF Undirected
  <2>3. \A j \in S : ~(T[j] >= T[1] + 1) /\ T[j] # T[1] + 1
    BY <1>1, <1>2
  <2>4. DOMAIN <<>> = {} /\ T[1] + 1 - 0 = T[1] + 1
    BY <1>2
  <2>5. Directed(<<>>, p, v, S, T, n, T[1] + 1)
    BY <2>3, <2>4 DEF Directed
  <2>6. ReachedBy(v, T, n, T[1] + 1) = {}
    <3>1. \A j \in 1..n : j \in S
      BY <1>1
    <3> QED BY <2>3, <3>1 DEF ReachedBy
  <2>7. Good(Undirected, 0)
    BY <2>2, <2>4, <2>5, <2>6
  <2> HIDE DEF Good
  <2> QED BY <2>1, <2>7
<1>5. ASSUME NEW m \in P PROVE m + 1 \in P
  <2>0. m \in Nat
    BY <1>5
  <2> SUFFICES ASSUME m + 1 <= T[1] - T[n] + 2, NEW e \in Descent(ttl, v[0])[m + 1] PROVE Good(e, m + 1)
    BY <2>0
  <2> DEFINE k == T[1] - m
  <2>1. k \in Int /\ k <= T[1] /\ T[n] - 1 <= k /\ T[1] + 1 - (m + 1) = k /\ T[1] + 1 - m = k + 1
        /\ m <= T[1] - T[n] + 2 /\ m <= T[1] - T[n] + 1 /\ (m + 1 <= T[1] - T[n] + 1 => k >= T[n])
    BY <1>2, <2>0
  <2>2. PICK d0 \in Descent(ttl, v[0])[m] : e \in StepDown(ttl, m + 1, v[0], d0)
    <3>1. \A x \in Nat : Descent(ttl, v[0])[x + 1] = UNION {StepDown(ttl, x + 1, v[0], q) : q \in Descent(ttl, v[0])[x]}
      BY DescentUnfolds
    <3>2. Descent(ttl, v[0])[m + 1] = UNION {StepDown(ttl, m + 1, v[0], q) : q \in Descent(ttl, v[0])[m]}
      BY <2>0, <3>1
    <3> QED BY <3>2
  <2>3. Good(d0, m)
    BY <1>5, <2>1, <2>2
  <2>4. e \in Orient(ttl, k, v[0], d0)
    BY <1>3, <2>1, <2>2 DEF StepDown
  <2>5. Directed(d0.links, p, v, S, T, n, k + 1) /\ d0.up = ReachedBy(v, T, n, k + 1)
    BY <2>1, <2>3
  <2> HIDE DEF k
  <2>6. Directed(e.links, p, v, S, T, n, k) /\ (k >= T[n] => e.up = ReachedBy(v, T, n, k))
    BY <2>1, <2>4, <2>5, OrientLayer
  <2> QED BY <2>1, <2>6
<1>6. P = Nat
  <2> HIDE DEF P
  <2>1. P \in SUBSET Nat
    BY DEF P
  <2> QED BY <1>4, <1>5, <2>1, NatSteps
<1> QED
  BY <1>6

\* A link keeps the direction it got first.
Keeps(d, e) == \A x \in DOMAIN d.links : x \in DOMAIN e.links /\ e.links[x] = d.links[x]

\* What _orient has decided for the layers above stays as it is.
LEMMA LaterKeeps ==
    ASSUME NEW ttl, NEW source, NEW i \in Nat, NEW m \in Nat, NEW e \in Descent(ttl, source)[i + m]
    PROVE  \E d \in Descent(ttl, source)[i] : Keeps(d, e)
<1> DEFINE P == {x \in Nat : \A f \in Descent(ttl, source)[i + x] : \E d \in Descent(ttl, source)[i] : Keeps(d, f)}
<1>1. 0 \in P
  <2>1. i + 0 = i
    OBVIOUS
  <2>2. \A d : Keeps(d, d)
    BY DEF Keeps
  <2> QED BY <2>1, <2>2
<1>2. ASSUME NEW x \in P PROVE x + 1 \in P
  <2>0. x \in Nat /\ i + x \in Nat /\ i + (x + 1) = (i + x) + 1
    BY <1>2
  <2> SUFFICES ASSUME NEW f \in Descent(ttl, source)[(i + x) + 1] PROVE \E d \in Descent(ttl, source)[i] : Keeps(d, f)
    BY <2>0
  <2>1. PICK g \in Descent(ttl, source)[i + x] : f \in StepDown(ttl, (i + x) + 1, source, g)
    <3>1. \A y \in Nat : Descent(ttl, source)[y + 1] = UNION {StepDown(ttl, y + 1, source, q) : q \in Descent(ttl, source)[y]}
      BY DescentUnfolds
    <3>2. Descent(ttl, source)[(i + x) + 1] = UNION {StepDown(ttl, (i + x) + 1, source, q) : q \in Descent(ttl, source)[i + x]}
      BY <2>0, <3>1
    <3> QED BY <3>2
  <2>2. PICK o : f.links = Joined(g.links, o)
    BY <2>1 DEF StepDown, Orient
  <2>3. Keeps(g, f)
    <3>1. \A l, h : \A y \in DOMAIN l : y \in DOMAIN Joined(l, h) /\ Joined(l, h)[y] = l[y]
      BY DEF Joined
    <3> QED BY <2>2, <3>1 DEF Keeps
  <2>4. PICK d \in Descent(ttl, source)[i] : Keeps(d, g)
    BY <1>2, <2>1
  <2>5. Keeps(d, f)
    BY <2>3, <2>4 DEF Keeps
  <2> QED BY <2>4, <2>5
<1>3. P = Nat
  <2> HIDE DEF P
  <2>1. P \in SUBSET Nat
    BY DEF P
  <2> QED BY <1>1, <1>2, <2>1, NatSteps
<1> QED
  BY <1>3

\* Min is the least element of a set of naturals.
LEMMA BottomIs ==
    ASSUME NEW R \in SUBSET Nat, R # {}
    PROVE  Min(R) \in R /\ \A y \in R : Min(R) <= y
BY HasLeast DEF Min

IsFcn(f) == f = [x \in DOMAIN f |-> f[x]]

\* What every orientation says: the first n links as the packets go, and nothing of the
\* others in their layers and in the one below.
Settled(o, p, v, S, T, n) ==
    /\ \A j \in 1..n : p[j] \in DOMAIN o /\ o[p[j]] = <<v[j - 1], v[j]>>
    /\ \A j \in S : j > n /\ T[j] >= T[n] - 1 => o[p[j]] = Unresolved
    /\ S = 1..n => DOMAIN o = {p[j] : j \in 1..n}
    /\ IsFcn(o)

\* Every orientation is settled about the first links of the path.
LEMMA Oriented ==
    ASSUME NEW p, NEW v, NEW N, NEW S, NEW T, NEW ttl, NEW n, Setting(p, v, N, S, T, ttl, n),
           NEW o \in Orientations(ttl, v[0])
    PROVE  Settled(o, p, v, S, T, n)
<1>0. IsWalk(p, v, N) /\ Slopes(T, N) /\ Sight(ttl, p, S, T, N) /\ GapAfter(S, n, N)
  BY DEF Setting
<1>1. N \in Nat /\ n \in 1..N /\ S \subseteq 1..N /\ 1..n \subseteq S /\ 1 \in S /\ 1 \in 1..N /\ n \in S
  BY <1>0 DEF GapAfter, IsWalk
<1>2. /\ T[1] \in Nat /\ T[n] \in Nat /\ T[n] <= T[1] /\ \A j \in S : T[j] \in Nat
      /\ \A j \in 1..n : T[n] <= T[j]
  BY <1>0, <1>1 DEF Slopes
<1>3. Max(Range(ttl)) = T[1]
  BY <1>0, <1>1, TopIs
<1> DEFINE mn == Min(Range(ttl))
<1>4. Range(ttl) = {T[j] : j \in S}
  BY <1>0, TtlRange
<1>5. mn \in Nat /\ (\A j \in S : mn <= T[j]) /\ \E j \in S : mn = T[j]
  <2> DEFINE R == {T[j] : j \in S}
  <2>1. R \in SUBSET Nat /\ R # {}
    BY <1>1, <1>2
  <2> HIDE DEF R
  <2>2. Min(R) \in R /\ \A y \in R : Min(R) <= y
    BY <2>1, BottomIs
  <2> QED BY <1>2, <1>4, <2>2 DEF R
<1> HIDE DEF mn
<1>6. PICK d \in Descent(ttl, v[0])[T[1] + 1 - mn] : o = d.links
  <2>1. DOMAIN ttl # {}
    BY <1>0, <1>1 DEF Sight
  <2> QED BY <1>3, <2>1 DEF Orientations, mn
<1>10. IsFcn(o)
  <2> DEFINE m == T[1] - mn
  <2>1. m \in Nat /\ T[1] + 1 - mn = m + 1
    <3>1. mn <= T[1]
      BY <1>1, <1>5
    <3> QED BY <1>2, <1>5, <3>1
  <2> HIDE DEF m
  <2>2. \A x \in Nat : Descent(ttl, v[0])[x + 1] = UNION {StepDown(ttl, x + 1, v[0], q) : q \in Descent(ttl, v[0])[x]}
    BY DescentUnfolds
  <2>3. PICK q \in Descent(ttl, v[0])[m] : d \in StepDown(ttl, m + 1, v[0], q)
    <3>1. Descent(ttl, v[0])[m + 1] = UNION {StepDown(ttl, m + 1, v[0], q) : q \in Descent(ttl, v[0])[m]}
      BY <2>1, <2>2
    <3> QED BY <1>6, <2>1, <3>1
  <2>4. PICK f, g : o = Joined(f, g)
    BY <1>6, <2>3 DEF StepDown, Orient
  <2> QED BY <2>4 DEF Joined, IsFcn
<1>7. \A j \in 1..n : j \in S /\ T[j] >= T[n] /\ T[j] >= T[n] - 1 /\ j <= n
  BY <1>1, <1>2
<1>8. CASE mn = T[n]
  <2>1. T[1] + 1 - mn \in Nat /\ T[1] + 1 - mn <= T[1] - T[n] + 2 /\ T[1] + 1 - (T[1] + 1 - mn) = T[n]
    BY <1>2, <1>8
  <2>2. Directed(o, p, v, S, T, n, T[n])
    BY <1>6, <2>1, DescentFollows
  <2>3. \A j \in S : T[j] >= T[n]
    BY <1>2, <1>5, <1>8
  <2>4. \A j \in S : j > n => ~(j <= n)
    BY <1>1
  <2>5. DOMAIN o = {p[j] : j \in S}
    BY <2>2, <2>3 DEF Directed
  <2>6. \A j \in S : o[p[j]] = IF j <= n THEN <<v[j - 1], v[j]>> ELSE Unresolved
    BY <2>2, <2>3 DEF Directed
  <2>7. \A j \in 1..n : p[j] \in DOMAIN o /\ o[p[j]] = <<v[j - 1], v[j]>>
    BY <1>7, <2>5, <2>6
  <2>8. \A j \in S : j > n => o[p[j]] = Unresolved
    BY <2>4, <2>6
  <2> QED BY <1>10, <2>5, <2>7, <2>8 DEF Settled
<1>9. CASE mn # T[n]
  <2>1. mn < T[n]
    BY <1>1, <1>2, <1>5, <1>9
  <2> DEFINE i == T[1] - T[n] + 2
             m == T[n] - 1 - mn
  <2>2. i \in Nat /\ m \in Nat /\ T[1] + 1 - mn = i + m /\ i <= T[1] - T[n] + 2 /\ T[1] + 1 - i = T[n] - 1
    BY <1>2, <1>5, <2>1
  <2> HIDE DEF i, m
  <2>3. PICK d0 \in Descent(ttl, v[0])[i] : Keeps(d0, d)
    <3>1. d \in Descent(ttl, v[0])[i + m]
      BY <1>6, <2>2
    <3> QED BY <2>2, <3>1, LaterKeeps
  <2>4. Directed(d0.links, p, v, S, T, n, T[n] - 1)
    BY <2>2, <2>3, DescentFollows
  <2>5. \A j \in S : T[j] >= T[n] - 1 => p[j] \in DOMAIN d0.links
                        /\ d0.links[p[j]] = IF j <= n THEN <<v[j - 1], v[j]>> ELSE Unresolved
    BY <2>4 DEF Directed
  <2>6. \A j \in S : T[j] >= T[n] - 1 => p[j] \in DOMAIN o
                        /\ o[p[j]] = IF j <= n THEN <<v[j - 1], v[j]>> ELSE Unresolved
    BY <1>6, <2>3, <2>5 DEF Keeps
  <2>7. \A j \in 1..n : p[j] \in DOMAIN o /\ o[p[j]] = <<v[j - 1], v[j]>>
    BY <1>7, <2>6
  <2>8. \A j \in S : j > n => ~(j <= n)
    BY <1>1
  <2>9. \A j \in S : j > n /\ T[j] >= T[n] - 1 => o[p[j]] = Unresolved
    BY <2>6, <2>8
  <2>10. S # 1..n
    <3>1. PICK j \in S : mn = T[j]
      BY <1>5
    <3>2. j \notin 1..n
      BY <1>2, <1>5, <2>1, <3>1
    <3> QED BY <3>2
  <2> QED BY <1>10, <2>7, <2>9, <2>10 DEF Settled
<1> QED
  BY <1>8, <1>9

-----------------------------------------------------------------------------
(* The gates and the verdict *)

\* Without the first link of the path the source is at no end of the leg.
LEMMA NotAnchored ==
    ASSUME NEW p, NEW v, NEW N, IsWalk(p, v, N), NEW S, NEW T, NEW ttl, Sight(ttl, p, S, T, N), 1 \notin S
    PROVE  ~Anchored(ttl, "forward", v[0])
<1>1. ASSUME NEW k PROVE v[0] \notin NodesOf(Layer(ttl, k))
  <2> SUFFICES ASSUME NEW w \in Layer(ttl, k), v[0] \in Range(WireEnds[w]) PROVE FALSE
    BY DEF NodesOf
  <2>1. Layer(ttl, k) = {p[j] : j \in {i \in S : T[i] = k}}
    BY LayerIs
  <2>2. PICK j \in S : w = p[j]
    BY <2>1
  <2>3. j \in 1..N /\ j # 1 /\ N \in Nat
    BY DEF Sight, IsWalk
  <2>4. 0 \in 0..N /\ ~(0 = j - 1 \/ 0 = j)
    BY <2>3
  <2>5. \A i \in 0..N : Touches(p[j], v[i]) <=> i = j - 1 \/ i = j
    BY <2>3, WalkEnds
  <2>6. ~Touches(p[j], v[0])
    BY <2>4, <2>5
  <2> QED BY <2>2, <2>6 DEF Touches
<1> QED
  BY <1>1 DEF Anchored

\* A block of links is entered at one node and left at one.
LEMMA BlockEnds ==
    ASSUME NEW p, NEW v, NEW N, IsWalk(p, v, N), NEW a \in 1..N, NEW b \in a..N,
           NEW o, Points(o, p, v, a, b, {})
    PROVE  /\ EntryNodes(ImageOf(p, a..b), o) = {v[a - 1]} /\ ExitNodes(ImageOf(p, a..b), o) = {v[b]}
           /\ ~IsEcmp(ImageOf(p, a..b), o)
<1> DEFINE ws == ImageOf(p, a..b)
<1>0. N \in Nat /\ a \in 1..(N + 1) /\ b \in (a - 1)..N /\ (a..b) \cup {} = a..b /\ \A j \in a..b : j \in 1..N
  BY DEF IsWalk
<1>1. Downstream(ws, o) = ImageOf(v, a..b) /\ Sources(ws, o) = ImageOf(v, (a - 1)..(b - 1))
  <2> DEFINE C == {}
  <2>1. Points(o, p, v, a, b, C) /\ (a..b) \cup C = a..b
    OBVIOUS
  <2> HIDE DEF C
  <2>2. Downstream(ImageOf(p, (a..b) \cup C), o) = ImageOf(v, a..b) /\ Sources(ImageOf(p, (a..b) \cup C), o) = ImageOf(v, (a - 1)..(b - 1))
    BY <1>0, <2>1, DownstreamIs
  <2> QED BY <2>1, <2>2
<1>2. \A i, j \in 0..N : v[i] = v[j] => i = j
  BY DEF IsWalk
<1>3. EntryNodes(ws, o) = {v[a - 1]}
  <2>1. \A i \in (a - 1)..(b - 1) : i \in 0..N /\ (i = a - 1 \/ i \in a..b)
    BY <1>0
  <2>2. \A j \in a..b : j \in 0..N /\ j # a - 1
    BY <1>0
  <2>3. a - 1 \in (a - 1)..(b - 1)
    BY <1>0
  <2>4. v[a - 1] \notin ImageOf(v, a..b)
    BY <1>2, <2>1, <2>2, <2>3 DEF ImageOf
  <2>5. \A i \in (a - 1)..(b - 1) : i # a - 1 => v[i] \in ImageOf(v, a..b)
    BY <2>1 DEF ImageOf
  <2> QED BY <1>1, <2>3, <2>4, <2>5 DEF EntryNodes, ImageOf
<1>4. ExitNodes(ws, o) = {v[b]}
  <2>1. \A j \in a..b : j \in 0..N /\ (j = b \/ j \in (a - 1)..(b - 1))
    BY <1>0
  <2>2. \A i \in (a - 1)..(b - 1) : i \in 0..N /\ i # b
    BY <1>0
  <2>3. b \in a..b
    BY <1>0
  <2>4. v[b] \notin ImageOf(v, (a - 1)..(b - 1))
    BY <1>2, <2>1, <2>2, <2>3 DEF ImageOf
  <2>5. \A j \in a..b : j # b => v[j] \in ImageOf(v, (a - 1)..(b - 1))
    BY <2>1 DEF ImageOf
  <2> QED BY <1>1, <2>3, <2>4, <2>5 DEF ExitNodes, ImageOf
<1>5. ~IsEcmp(ws, o)
  <2>1. Cardinality(EntryNodes(ws, o)) = 1 /\ Cardinality(ExitNodes(ws, o)) = 1
    BY <1>3, <1>4, FS_Singleton
  <2>2. ASSUME NEW i \in a..b, NEW j \in a..b, i # j
        PROVE  o[p[i]][1] # o[p[j]][1] /\ o[p[i]][2] # o[p[j]][2]
    <3> DEFINE x == <<v[i - 1], v[i]>>
               y == <<v[j - 1], v[j]>>
    <3>1. x[1] = v[i - 1] /\ x[2] = v[i] /\ y[1] = v[j - 1] /\ y[2] = v[j]
      OBVIOUS
    <3>2. o[p[i]] = x /\ o[p[j]] = y
      BY DEF Points
    <3>3. i \in 0..N /\ j \in 0..N /\ i - 1 \in 0..N /\ j - 1 \in 0..N /\ i - 1 # j - 1
      BY <1>0, <2>2
    <3>4. v[i - 1] # v[j - 1] /\ v[i] # v[j]
      BY <1>2, <2>2, <3>3
    <3> HIDE DEF x, y
    <3> QED BY <3>1, <3>2, <3>4
  <2>3. ASSUME NEW u \in ws, NEW w \in ws, u # w PROVE ~(o[u][1] = o[w][1] \/ o[u][2] = o[w][2])
    <3>1. PICK i \in a..b : u = p[i]
      BY DEF ImageOf
    <3>2. PICK j \in a..b : w = p[j]
      BY DEF ImageOf
    <3>3. i # j
      BY <2>3, <3>1, <3>2
    <3> QED BY <2>2, <3>1, <3>2, <3>3
  <2> QED BY <2>1, <2>3 DEF IsEcmp
<1> QED
  BY <1>3, <1>4, <1>5

\* The TTLs seen, as the image of the links.
LEMMA RangeAt ==
    ASSUME NEW N, NEW p, NEW S, NEW T, NEW ttl, Sight(ttl, p, S, T, N)
    PROVE  Range(ttl) = ImageOf(T, S)
BY TtlRange DEF ImageOf

Level(S, T, k) == {i \in S : T[i] = k}

\* A layer, as the image of its level.
LEMMA LayerAt ==
    ASSUME NEW N, NEW p, NEW S, NEW T, NEW ttl, Sight(ttl, p, S, T, N), NEW k
    PROVE  Layer(ttl, k) = ImageOf(p, Level(S, T, k))
BY LayerIs DEF ImageOf, Level

\* A layer of the links seen, when these are the first ones of the path.
IsBlock(ttl, p, T, n, k) ==
    /\ k \in Nat /\ T[n] <= k /\ k <= T[1]
    /\ \E a, b \in 1..n : a <= b /\ Cut(T, n, k, a, b) /\ Layer(ttl, k) = ImageOf(p, a..b)

\* When only first links were seen, each TTL seen belongs to a block of them.
LEMMA LayerBlock ==
    ASSUME NEW p, NEW v, NEW N, NEW S, NEW T, NEW ttl, NEW n, Setting(p, v, N, S, T, ttl, n), S \subseteq 1..n,
           NEW k \in Range(ttl)
    PROVE  IsBlock(ttl, p, T, n, k)
<1>0. IsWalk(p, v, N) /\ Slopes(T, N) /\ Sight(ttl, p, S, T, N) /\ GapAfter(S, n, N)
  BY DEF Setting
<1>1. N \in Nat /\ n \in 1..N /\ n \in Nat \ {0}
  BY <1>0 DEF GapAfter, IsWalk
<1>13. \A j : j \in S <=> j \in 1..n
  BY <1>0 DEF GapAfter
<1>2. Slopes(T, n)
  BY <1>0, <1>1 DEF Slopes
<1>3. Range(ttl) = {T[j] : j \in S}
  BY <1>0, TtlRange
<1>4. PICK x \in 1..n : k = T[x]
  BY <1>3, <1>13
<1>5. 1 \in 1..n /\ n \in 1..n /\ 1 <= x /\ x <= n
  BY <1>1
<1>6. k \in Nat /\ T[n] \in Nat /\ T[1] \in Nat /\ T[n] <= k /\ k <= T[1]
  BY <1>2, <1>4, <1>5 DEF Slopes
<1>7. k \in Int /\ T[n] - 1 <= k
  BY <1>6
<1>8. PICK a \in 1..(n + 1) : \E b \in (a - 1)..n : Cut(T, n, k, a, b)
  BY <1>1, <1>2, <1>6, <1>7, CutAt
<1>9. PICK b \in (a - 1)..n : Cut(T, n, k, a, b)
  BY <1>8
<1>10. a <= b
  BY <1>6, <1>9 DEF Cut
<1>11. a \in 1..n /\ b \in 1..n /\ a <= b
  BY <1>1, <1>10
<1>12. Layer(ttl, k) = ImageOf(p, a..b)
  <2>1. Layer(ttl, k) = ImageOf(p, Level(S, T, k))
    BY <1>0, LayerAt
  <2>2. /\ {i \in S : T[i] = k} = (a..b) \cup Beyond(S, T, n, k)
        /\ {i \in 1..n : T[i] = k} = a..b
        /\ Beyond(S, T, n, k) \subseteq (b + 2)..N
    BY <1>0, <1>1, <1>7, <1>9, LayerSplits, Zenon
  <2>3. {i \in S : T[i] = k} = {i \in 1..n : T[i] = k}
    BY <1>13
  <2> QED BY <2>1, <2>2, <2>3 DEF Level
<1> QED
  BY <1>6, <1>9, <1>11, <1>12 DEF IsBlock

\* The first links of the path, and no others, pass every gate of _reconstruct_leg.
LEMMA FirstLinksAreCertain ==
    ASSUME NEW p, NEW v, NEW N, NEW S, NEW T, NEW ttl, NEW n, Setting(p, v, N, S, T, ttl, n), S \subseteq 1..n,
           NEW o, Settled(o, p, v, S, T, n)
    PROVE  Classification(ttl, "forward", v[0], o) = "certain"
<1>0. IsWalk(p, v, N) /\ Slopes(T, N) /\ Sight(ttl, p, S, T, N) /\ GapAfter(S, n, N)
  BY DEF Setting
<1>1. N \in Nat /\ n \in 1..N /\ 1 \in S /\ \A j \in 1..n : j \in 1..N
  BY <1>0 DEF GapAfter, IsWalk
<1>8. \A j \in 1..n : o[p[j]] = <<v[j - 1], v[j]>>
  BY DEF Settled
<1>2. Anchored(ttl, "forward", v[0])
  <2>1. Max(Range(ttl)) = T[1]
    BY <1>0, <1>1, TopIs
  <2>2. v[0] \in NodesOf(Layer(ttl, T[1]))
    BY <1>0, <1>1, SourceOnTop
  <2> QED BY <2>1, <2>2 DEF Anchored
<1>3. ~LayerUnresolved(ttl, o)
  <2>1. \A j \in 1..N : <<v[j - 1], v[j]>> # Unresolved
    BY <1>0, WalkEnds
  <2>2. \A j \in 1..n : o[p[j]] # Unresolved
    BY <1>1, <1>8, <2>1
  <2> QED BY <1>0, <2>2 DEF LayerUnresolved, Sight
<1>7. \A k \in Range(ttl) : IsBlock(ttl, p, T, n, k)
  BY LayerBlock
<1>4. ASSUME NEW k \in Range(ttl) PROVE ~IsEcmp(Layer(ttl, k), o)
  <2>1. PICK a \in 1..n, b \in 1..n : a <= b /\ Layer(ttl, k) = ImageOf(p, a..b)
    BY <1>7 DEF IsBlock
  <2>2. a \in 1..N /\ b \in a..N /\ \A j \in a..b : j \in 1..n
    BY <1>1, <2>1
  <2>3. Points(o, p, v, a, b, {})
    BY <1>8, <2>2 DEF Points
  <2> QED BY <1>0, <2>1, <2>2, <2>3, BlockEnds
<1>5. ASSUME NEW hi \in Range(ttl), NEW lo \in Range(ttl), hi > lo, \A k \in Range(ttl) : k >= hi \/ k <= lo
      PROVE  /\ ~(hi - lo > 1)
             /\ ExitNodes(Layer(ttl, hi), o) # {} /\ EntryNodes(Layer(ttl, lo), o) # {}
             /\ EntryNodes(Layer(ttl, lo), o) \subseteq ExitNodes(Layer(ttl, hi), o)
  <2>1. PICK a \in 1..n, b \in 1..n : a <= b /\ Cut(T, n, lo, a, b) /\ Layer(ttl, lo) = ImageOf(p, a..b)
    BY <1>7 DEF IsBlock
  <2>2. PICK c \in 1..n, d \in 1..n : c <= d /\ Cut(T, n, hi, c, d) /\ Layer(ttl, hi) = ImageOf(p, c..d)
    BY <1>7 DEF IsBlock
  <2>3. hi \in Nat /\ lo \in Nat /\ hi <= T[1] /\ T[1] \in Nat
    <3>1. \A k \in Range(ttl) : k \in Nat /\ k <= T[1]
      BY <1>7 DEF IsBlock
    <3> QED BY <1>0, <1>1, <3>1 DEF Slopes
  <2>4. a > 1 /\ T[a - 1] = lo + 1
    BY <1>5, <2>1, <2>3 DEF Cut
  <2>5. a - 1 \in 1..n
    BY <1>1, <2>4
  <2>6. hi = lo + 1
    <3>1. T[a - 1] \in Range(ttl)
      <4>1. Range(ttl) = ImageOf(T, S)
        BY <1>0, RangeAt
      <4>2. a - 1 \in S
        BY <1>0, <2>5 DEF GapAfter
      <4> QED BY <4>1, <4>2 DEF ImageOf
    <3> QED BY <1>5, <2>3, <2>4, <3>1
  <2>7. d = a - 1
    <3>1. d \in 1..n /\ d \in Nat /\ a \in Nat
      BY <1>1
    <3>2. T[d] \in Nat
      BY <1>0, <1>1, <3>1 DEF Slopes
    <3>3. T[d] >= hi
      BY <2>2, <3>1 DEF Cut
    <3>4. d < a
      BY <2>1, <2>3, <2>6, <3>1, <3>2, <3>3 DEF Cut
    <3>5. a - 1 <= d
      BY <2>2, <2>3, <2>4, <2>5, <2>6 DEF Cut
    <3> QED BY <3>1, <3>4, <3>5
  <2>8. /\ a \in 1..N /\ b \in a..N /\ c \in 1..N /\ d \in c..N
        /\ \A j \in a..b : j \in 1..n
        /\ \A j \in c..d : j \in 1..n
    BY <1>1, <2>1, <2>2
  <2>9. EntryNodes(Layer(ttl, lo), o) = {v[a - 1]}
    <3>1. Points(o, p, v, a, b, {})
      BY <1>8, <2>8 DEF Points
    <3> QED BY <1>0, <2>1, <2>8, <3>1, BlockEnds
  <2>10. ExitNodes(Layer(ttl, hi), o) = {v[d]}
    <3>1. Points(o, p, v, c, d, {})
      BY <1>8, <2>8 DEF Points
    <3> QED BY <1>0, <2>2, <2>8, <3>1, BlockEnds
  <2> QED BY <2>3, <2>6, <2>7, <2>9, <2>10
<1>6. ~SegmentUnresolved(ttl, o)
  BY <1>5 DEF SegmentUnresolved
<1> QED
  BY <1>2, <1>3, <1>4, <1>6 DEF Classification

\* A link seen beyond one that was not spoils the verdict.
LEMMA GapIsNotCertain ==
    ASSUME NEW p, NEW v, NEW N, NEW S, NEW T, NEW ttl, NEW n, Setting(p, v, N, S, T, ttl, n), S # 1..n,
           NEW o \in Orientations(ttl, v[0])
    PROVE  Classification(ttl, "forward", v[0], o) # "certain"
<1>0. IsWalk(p, v, N) /\ Slopes(T, N) /\ Sight(ttl, p, S, T, N) /\ GapAfter(S, n, N)
  BY DEF Setting
<1>1. N \in Nat /\ n \in 1..N /\ 1..n \subseteq S /\ S \subseteq 1..N /\ n \in S /\ n \in Nat
  BY <1>0 DEF GapAfter, IsWalk
<1>2. \A j \in S : T[j] \in Nat
  BY <1>0, <1>1 DEF Slopes
<1>3. DOMAIN ttl # {}
  BY <1>0, <1>1 DEF Sight
<1> DEFINE later == {j \in S : j > n}
<1>4. CASE \E j \in later : T[j] >= T[n] - 1
  <2>1. PICK j \in S : j > n /\ T[j] >= T[n] - 1
    BY <1>4
  <2>2. Settled(o, p, v, S, T, n)
    BY Oriented
  <2>3. p[j] \in DOMAIN ttl
    BY <1>0 DEF Sight
  <2>4. LayerUnresolved(ttl, o)
    BY <2>1, <2>2, <2>3 DEF LayerUnresolved, Settled
  <2> QED BY <1>3, <2>4 DEF Classification
<1>5. CASE \A j \in later : ~(T[j] >= T[n] - 1)
  <2>1. later \in SUBSET Nat /\ later # {}
    <3>1. \A j \in S : j \in Nat /\ (j > n \/ j \in 1..n)
      BY <1>1
    <3> QED BY <1>1, <3>1
  <2>2. PICK m \in later : \A j \in later : m <= j
    <3> HIDE DEF later
    <3> QED BY <2>1, HasLeast
  <2>3. m \in S /\ m > n /\ m \in 1..N
    BY <1>1, <2>2
  <2>4. T[n] - T[m] > 1 /\ T[n] > T[m]
    BY <1>1, <1>2, <1>5, <2>2, <2>3
  <2>5. \A j \in S : T[j] >= T[n] \/ T[j] <= T[m]
    <3> SUFFICES ASSUME NEW j \in S PROVE T[j] >= T[n] \/ T[j] <= T[m]
      OBVIOUS
    <3>1. j \in 1..N /\ n \in 1..N
      BY <1>1
    <3>2. CASE j <= n
      BY <1>0, <1>1, <1>2, <3>1, <3>2 DEF Slopes
    <3>3. CASE j > n
      <4>1. m <= j
        BY <2>2, <3>3
      <4> QED BY <1>0, <2>3, <3>1, <4>1 DEF Slopes
    <3> QED BY <1>1, <3>1, <3>2, <3>3
  <2>6. Range(ttl) = {T[j] : j \in S}
    BY <1>0, TtlRange
  <2>7. T[n] \in Range(ttl) /\ T[m] \in Range(ttl) /\ \A k \in Range(ttl) : k >= T[n] \/ k <= T[m]
    BY <1>1, <2>3, <2>5, <2>6
  <2>8. SegmentUnresolved(ttl, o)
    BY <2>4, <2>7 DEF SegmentUnresolved
  <2> QED BY <1>3, <2>8 DEF Classification
<1> QED
  BY <1>4, <1>5

\* What follows for every orientation of what was seen of a path.
Verdict(ttl, p, v, N, S, o) ==
    LET certain == Classification(ttl, "forward", v[0], o) = "certain"
    IN  /\ certain <=> \E n \in 0..N : S = 1..n
        /\ certain => IsFcn(o) /\ DOMAIN o = ImageOf(p, S) /\ \A j \in S : o[p[j]] = <<v[j - 1], v[j]>>

\* Where the first link was seen, a first gap follows it.
LEMMA BeginsAt ==
    ASSUME NEW N \in Nat, NEW S, S \subseteq 1..N, 1 \in S
    PROVE  \E n \in 1..N : GapAfter(S, n, N)
<1> DEFINE Q == {i \in 1..N : i + 1 \notin S}
<1>1. Q \in SUBSET Nat /\ Q # {}
  <2>1. N \in 1..N /\ N + 1 \notin S
    OBVIOUS
  <2> QED BY <2>1
<1>2. PICK n \in Q : \A i \in Q : n <= i
  <2> HIDE DEF Q
  <2> QED BY <1>1, HasLeast
<1>3. n \in 1..N /\ n + 1 \notin S
  BY <1>2
<1>4. ASSUME NEW j \in 1..n PROVE j \in S
  <2>1. CASE j = 1
    BY <2>1
  <2>2. CASE j # 1
    <3>1. j - 1 \in 1..N /\ ~(n <= j - 1) /\ (j - 1) + 1 = j
      BY <1>3, <2>2
    <3>2. j - 1 \notin Q
      BY <1>2, <3>1
    <3> QED BY <3>1, <3>2
  <2> QED BY <2>1, <2>2
<1> QED
  BY <1>3, <1>4 DEF GapAfter

\* _classify calls certain exactly the first links of a path, and they point the right way.
LEMMA VerdictIsExact ==
    ASSUME NEW p, NEW v, NEW N, IsWalk(p, v, N), NEW S, NEW T, Slopes(T, N), NEW ttl, Sight(ttl, p, S, T, N),
           NEW o \in Orientations(ttl, v[0])
    PROVE  Verdict(ttl, p, v, N, S, o)
<1>1. N \in Nat /\ S \subseteq 1..N
  BY DEF IsWalk, Sight
<1>2. CASE S = {}
  <2>1. DOMAIN ttl = {}
    BY <1>2 DEF Sight
  <2>2. o = <<>> /\ Classification(ttl, "forward", v[0], o) = "certain"
    BY <2>1 DEF Orientations, Classification
  <2>3. 0 \in 0..N /\ S = 1..0
    BY <1>1, <1>2
  <2>4. DOMAIN <<>> = {} /\ IsFcn(<<>>)
    BY DEF IsFcn
  <2>5. ImageOf(p, S) = {}
    BY <1>2 DEF ImageOf
  <2>6. IsFcn(o) /\ DOMAIN o = ImageOf(p, S)
    BY <2>2, <2>4, <2>5
  <2> QED BY <1>2, <2>2, <2>3, <2>6 DEF Verdict
<1>3. CASE S # {} /\ 1 \notin S
  <2>1. DOMAIN ttl # {}
    BY <1>3 DEF Sight
  <2>2. ~Anchored(ttl, "forward", v[0])
    BY <1>3, NotAnchored
  <2>3. Classification(ttl, "forward", v[0], o) # "certain"
    BY <2>1, <2>2 DEF Classification
  <2>4. \A n \in 0..N : S # 1..n
    BY <1>1, <1>3
  <2> QED BY <2>3, <2>4 DEF Verdict
<1>4. CASE 1 \in S
  <2>1. PICK n \in 1..N : GapAfter(S, n, N)
    BY <1>1, <1>4, BeginsAt
  <2>2. Setting(p, v, N, S, T, ttl, n)
    BY <2>1 DEF Setting
  <2>3. n \in 1..N /\ n \in 0..N /\ 1..n \subseteq S /\ n + 1 \notin S
    BY <1>1, <2>1 DEF GapAfter
  <2>4. Settled(o, p, v, S, T, n)
    BY <2>2, Oriented
  <2>5. CASE S = 1..n
    <3>1. \A j \in 1..n : o[p[j]] = <<v[j - 1], v[j]>>
      BY <2>4 DEF Settled
    <3>2. S \subseteq 1..n
      BY <2>5
    <3>3. Classification(ttl, "forward", v[0], o) = "certain"
      BY <2>2, <2>4, <3>2, FirstLinksAreCertain
    <3>4. IsFcn(o) /\ DOMAIN o = ImageOf(p, S)
      BY <2>4, <2>5 DEF Settled, ImageOf
    <3>5. \A j \in S : o[p[j]] = <<v[j - 1], v[j]>>
      BY <2>5, <3>1
    <3>6. \E m \in 0..N : S = 1..m
      BY <2>3, <2>5
    <3> QED BY <3>3, <3>4, <3>5, <3>6 DEF Verdict
  <2>6. CASE S # 1..n
    <3>1. Classification(ttl, "forward", v[0], o) # "certain"
      BY <2>2, <2>6, GapIsNotCertain
    <3>2. ASSUME NEW m \in 0..N, S = 1..m PROVE FALSE
      <4>1. n \in 1..m /\ ~(n + 1 \in 1..m)
        BY <2>3, <3>2
      <4>2. m = n
        BY <1>1, <4>1
      <4> QED BY <2>6, <3>2, <4>2
    <3> QED BY <3>1, <3>2 DEF Verdict
  <2> QED BY <2>5, <2>6
<1> QED
  BY <1>2, <1>3, <1>4

-----------------------------------------------------------------------------
(* The traces *)

\* The route of a flow is a path of the kind the lemmas are about.
LEMMA RouteIsWalk ==
    ASSUME NEW r \in Routes
    PROVE  /\ IsWalk(r.path, NodesOn[r], Len(r.path)) /\ NodesOn[r][0] = r.source
           /\ Slopes(r.ttl, Len(r.path))
<1>1. NodesOn[r] \in WaysOf(r)
  BY OnePathAssumption DEF NodesOn
<1>2. Passes(r, NodesOn[r])
  BY <1>1 DEF WaysOf
<1> DEFINE N == Len(r.path)
           T == r.ttl
<1>3. N \in Nat /\ T \in Seq(Nat) /\ Len(T) = N
  BY OnePathAssumption, RabbitAssumption
<1>4. \A i \in 1..N : T[i] \in Nat
  BY <1>3
<1>5. \A i, j \in 1..N : i <= j => T[j] <= T[i] /\ T[i] - T[j] <= j - i
  BY OnePathAssumption
<1>6. Slopes(T, N)
  BY <1>4, <1>5 DEF Slopes
<1>7. IsWalk(r.path, NodesOn[r], N) /\ NodesOn[r][0] = r.source
  BY <1>2, <1>3 DEF IsWalk, Passes
<1> QED
  BY <1>6, <1>7

\* A trace keeps packets of the flow only.
FlowInv == route \in Routes /\ seen \in [Trace -> SUBSET Packets]

\* No trace has seen a packet at the start.
LEMMA FlowInitOK == RabbitInit => FlowInv
BY DEF RabbitInit, FlowInv

\* A step adds packets of the flow to a trace, or none.
LEMMA FlowStep == FlowInv /\ [RabbitNext]_rabbitVars => FlowInv'
<1> SUFFICES ASSUME FlowInv, [RabbitNext]_rabbitVars PROVE FlowInv'
  OBVIOUS
<1>1. route \in Routes /\ seen \in [Trace -> SUBSET Packets]
  BY DEF FlowInv
<1>2. ASSUME UNCHANGED <<route, seen>> PROVE FlowInv'
  BY <1>1, <1>2 DEF FlowInv, Packets
<1>3. ASSUME NEW t \in Trace, NEW p \in Watch, Packet(t, p) PROVE FlowInv'
  <2>1. PICK k \in Packets : seen' = [seen EXCEPT ![t] = @ \cup {k}]
    BY <1>3 DEF Packet
  <2>2. seen' \in [Trace -> SUBSET Packets]
    BY <1>1, <2>1
  <2>3. route' = route /\ Packets' = Packets
    BY <1>3 DEF Packet, Packets
  <2> QED BY <1>1, <2>2, <2>3 DEF FlowInv
<1>4. CASE UNCHANGED rabbitVars
  BY <1>2, <1>4 DEF rabbitVars
<1>5. CASE RabbitNext
  BY <1>2, <1>3, <1>5 DEF RabbitNext, Start, FinisherWaits, FinisherEnds, ProbeEnds, ProbeBreaksOff,
         Stop, StopEnds
<1> QED
  BY <1>4, <1>5

\* The links a trace has seen on the way forward, by their numbers.
SeenAt(t) == {i \in 1..Len(route.path) : <<route.path[i], "forward", route.ttl[i]>> \in seen[t]}

\* The TTLs of the forward leg are those of the links the trace has seen.
LEMMA TraceSees ==
    ASSUME FlowInv, NEW t \in Trace
    PROVE  Sight(TtlsOf(t, "forward"), route.path, SeenAt(t), route.ttl, Len(route.path))
<1> DEFINE p == route.path
           T == route.ttl
           N == Len(p)
           S == SeenAt(t)
           mine == {k \in seen[t] : k[2] = "forward"}
           ttl == TtlsOf(t, "forward")
<1>1. IsWalk(p, NodesOn[route], N) /\ p \in Seq(Wire) /\ DOMAIN p = 1..N
  BY RouteIsWalk, RabbitAssumption DEF FlowInv
<1>2. \A x, y, z : <<x, y, z>>[1] = x /\ <<x, y, z>>[2] = y /\ <<x, y, z>>[3] = z
  OBVIOUS
<1>3. ASSUME NEW k \in mine PROVE \E i \in S : k[1] = p[i] /\ k[3] = T[i]
  <2>1. k \in Packets /\ k[2] = "forward" /\ k \in seen[t]
    BY <1>3 DEF FlowInv
  <2>2. PICK i \in 1..N : k = <<p[i], "forward", T[i]>> \/ k = <<p[i], "return", route.back[i]>>
    BY <1>1, <2>1 DEF Packets
  <2>3. k = <<p[i], "forward", T[i]>>
    BY <1>2, <2>1, <2>2
  <2> QED BY <1>2, <2>1, <2>3 DEF SeenAt
<1>4. ASSUME NEW i \in S PROVE \E k \in mine : k[1] = p[i]
  BY <1>2 DEF SeenAt
<1>5. S \subseteq 1..N
  BY DEF SeenAt
<1>6. ttl = [w \in {k[1] : k \in mine} |-> (CHOOSE k \in mine : k[1] = w)[3]]
  BY DEF TtlsOf
<1> HIDE DEF mine, S, ttl, p, T, N
<1>7. {k[1] : k \in mine} = {p[j] : j \in S}
  <2>1. \A x \in {k[1] : k \in mine} : x \in {p[j] : j \in S}
    BY <1>3
  <2>2. \A x \in {p[j] : j \in S} : x \in {k[1] : k \in mine}
    BY <1>4
  <2> QED BY <2>1, <2>2
<1>8. ASSUME NEW j \in S PROVE ttl[p[j]] = T[j]
  <2> DEFINE k == CHOOSE x \in mine : x[1] = p[j]
  <2>1. k \in mine /\ k[1] = p[j]
    BY <1>4
  <2> HIDE DEF k
  <2>2. PICK i \in S : k[1] = p[i] /\ k[3] = T[i]
    BY <1>3, <2>1
  <2>3. i = j
    <3>1. i \in 1..N /\ j \in 1..N /\ p[i] = p[j]
      BY <1>5, <2>1, <2>2
    <3> QED BY <1>1, <3>1, WalkDistinct
  <2>4. p[j] \in {x[1] : x \in mine}
    BY <1>7
  <2>5. ttl[p[j]] = k[3]
    BY <1>6, <2>4 DEF k
  <2> QED BY <2>2, <2>3, <2>5
<1>9. DOMAIN ttl = {p[j] : j \in S}
  BY <1>6, <1>7
<1>10. Sight(ttl, p, S, T, N)
  BY <1>5, <1>8, <1>9 DEF Sight
<1> QED
  BY <1>10 DEF ttl, p, S, T, N

\* What the verdict is compared with: the directions of the first n links.
Directions(n, p, v, f) ==
    /\ DOMAIN f = ImageOf(p, 1..n) /\ IsFcn(f) /\ Cardinality(ImageOf(p, 1..n)) = n
    /\ \A j \in 1..n : f[p[j]] = <<v[j - 1], v[j]>>

\* Truth gives the directions of the first n links.
LEMMA TruthIs ==
    ASSUME FlowInv, NEW n \in 0..Len(route.path)
    PROVE  Directions(n, route.path, NodesOn[route], Truth(n))
<1> DEFINE p == route.path
           v == NodesOn[route]
           N == Len(p)
           D == {p[i] : i \in 1..n}
           F == [w \in D |-> LET i == CHOOSE j \in 1..n : p[j] = w IN <<v[i - 1], v[i]>>]
<1>1. IsWalk(p, v, N)
  BY RouteIsWalk DEF FlowInv
<1>2. n \in 0..N
  OBVIOUS
<1>3. Truth(n) = F
  BY DEF Truth
<1> HIDE DEF p, v, N
<1>4. N \in Nat /\ \A j \in 1..n : j \in 1..N
  BY <1>1, <1>2 DEF IsWalk
<1>5. DOMAIN F = D /\ IsFcn(F)
  <2> DEFINE G(w) == LET i == CHOOSE j \in 1..n : p[j] = w IN <<v[i - 1], v[i]>>
  <2>1. F = [w \in D |-> G(w)]
    OBVIOUS
  <2> HIDE DEF F, D, G
  <2>2. DOMAIN F = D
    BY <2>1
  <2>3. F = [w \in D |-> F[w]]
    BY <2>1
  <2> QED BY <2>2, <2>3 DEF IsFcn
<1>6. D = ImageOf(p, 1..n)
  BY DEF ImageOf
<1>7. ASSUME NEW j \in 1..n PROVE F[p[j]] = <<v[j - 1], v[j]>>
  <2> DEFINE i == CHOOSE x \in 1..n : p[x] = p[j]
  <2>1. i \in 1..n /\ p[i] = p[j]
    OBVIOUS
  <2>2. p[j] \in D
    OBVIOUS
  <2>3. F[p[j]] = <<v[i - 1], v[i]>>
    BY <2>2
  <2> HIDE DEF i, F
  <2>4. i = j
    BY <1>1, <1>4, <2>1, WalkDistinct
  <2> QED BY <2>3, <2>4
<1>8. Cardinality(ImageOf(p, 1..n)) = n
  <2> DEFINE f == [j \in 1..n |-> p[j]]
             I == 1..n
             A == ImageOf(p, I)
  <2>1. IsFiniteSet(I) /\ Cardinality(I) = n
    BY <1>2, <1>4, FS_Interval
  <2>2. \A x, y \in I : p[x] = p[y] => x = y
    BY <1>1, <1>4, WalkDistinct
  <2>3. f \in [I -> A] /\ \A z \in A : \E x \in I : f[x] = z
    BY DEF ImageOf
  <2>4. \A x, y \in I : f[x] = f[y] => x = y
    BY <2>2
  <2> HIDE DEF f, I, A
  <2>5. f \in Bijection(I, A)
    BY <2>3, <2>4 DEF Bijection, Injection, Surjection, IsInjective
  <2>6. ExistsBijection(I, A)
    BY <2>5 DEF ExistsBijection
  <2>7. Cardinality(A) = n
    BY <2>1, <2>6, FS_Bijection
  <2> QED BY <2>7 DEF A, I
<1> HIDE DEF F, D
<1>9. DOMAIN Truth(n) = ImageOf(p, 1..n) /\ IsFcn(Truth(n))
  BY <1>3, <1>5, <1>6
<1>10. \A j \in 1..n : Truth(n)[p[j]] = <<v[j - 1], v[j]>>
  BY <1>3, <1>7
<1> QED
  BY <1>8, <1>9, <1>10 DEF p, v, Directions

\* Functions with one domain and the same values are one function.
LEMMA SameFcn ==
    ASSUME NEW f, NEW g, IsFcn(f), IsFcn(g), DOMAIN f = DOMAIN g, \A x \in DOMAIN f : f[x] = g[x]
    PROVE  f = g
<1>1. f = [x \in DOMAIN f |-> f[x]] /\ g = [x \in DOMAIN f |-> g[x]]
  BY DEF IsFcn
<1>2. [x \in DOMAIN f |-> f[x]] = [x \in DOMAIN f |-> g[x]]
  OBVIOUS
<1> QED
  BY <1>1, <1>2

\* The links of a path tell the sets of their numbers apart.
LEMMA SameLinks ==
    ASSUME NEW p, NEW v, NEW N, IsWalk(p, v, N), NEW A \in SUBSET (1..N), NEW B \in SUBSET (1..N), ImageOf(p, A) = ImageOf(p, B)
    PROVE  A = B
<1>1. \A i, j \in 1..N : p[i] = p[j] => i = j
  BY WalkDistinct
<1>2. ASSUME NEW i \in A PROVE i \in B
  <2>1. p[i] \in ImageOf(p, B)
    BY DEF ImageOf
  <2> QED BY <1>1, <2>1 DEF ImageOf
<1>3. ASSUME NEW i \in B PROVE i \in A
  <2>1. p[i] \in ImageOf(p, A)
    BY DEF ImageOf
  <2> QED BY <1>1, <2>1 DEF ImageOf
<1> QED
  BY <1>2, <1>3

\* The forward leg of a flow with one path is called certain exactly when the links seen
\* are the first ones of that path, and then each points the way the packets go, in
\* whatever order _orient goes through sets of nodes and links.
THEOREM ForwardLegsAreExact == RabbitSpec => []ForwardIsExact
<1>1. FlowInv => ForwardIsExact
  <2> SUFFICES ASSUME FlowInv, NEW t \in Trace, NEW o \in Orientations(TtlsOf(t, "forward"), route.source)
               PROVE  LET ttl == TtlsOf(t, "forward")
                          certain == Classification(ttl, "forward", route.source, o) = "certain"
                      IN  /\ certain <=> \E n \in 0..Len(route.path) : DOMAIN ttl = DOMAIN Truth(n)
                          /\ certain => o = Truth(Cardinality(DOMAIN ttl))
    BY DEF ForwardIsExact
  <2> DEFINE ttl == TtlsOf(t, "forward")
             p == route.path
             v == NodesOn[route]
             N == Len(p)
             S == SeenAt(t)
             T == route.ttl
             certain == Classification(ttl, "forward", v[0], o) = "certain"
  <2>1. IsWalk(p, v, N) /\ v[0] = route.source /\ Slopes(T, N)
    BY RouteIsWalk DEF FlowInv
  <2>2. Sight(ttl, p, S, T, N)
    BY TraceSees
  <2>3. \A n \in 0..N : Directions(n, p, v, Truth(n))
    BY TruthIs
  <2>4. o \in Orientations(ttl, v[0])
    BY <2>1
  <2> HIDE DEF ttl, p, v, N, S, T
  <2>5. Verdict(ttl, p, v, N, S, o)
    BY <2>1, <2>2, <2>4, VerdictIsExact
  <2>6. certain <=> \E n \in 0..N : S = 1..n
    BY <2>5 DEF Verdict
  <2>7. certain => IsFcn(o) /\ DOMAIN o = ImageOf(p, S) /\ \A j \in S : o[p[j]] = <<v[j - 1], v[j]>>
    BY <2>5 DEF Verdict
  <2>8. DOMAIN ttl = ImageOf(p, S) /\ S \in SUBSET (1..N) /\ N \in Nat
    BY <2>1, <2>2 DEF Sight, ImageOf, IsWalk
  <2>9. \A n \in 0..N : S = 1..n <=> DOMAIN ttl = DOMAIN Truth(n)
    <3> SUFFICES ASSUME NEW n \in 0..N, ImageOf(p, S) = ImageOf(p, 1..n) PROVE S = 1..n
      BY <2>3, <2>8 DEF Directions
    <3>1. 1..n \in SUBSET (1..N)
      BY <2>8
    <3> QED BY <2>1, <2>8, <3>1, SameLinks
  <2>10. ASSUME certain PROVE o = Truth(Cardinality(DOMAIN ttl))
    <3>1. PICK n \in 0..N : S = 1..n
      BY <2>6, <2>10
    <3> DEFINE f == Truth(n)
    <3>2. Directions(n, p, v, f)
      BY <2>3
    <3> HIDE DEF f
    <3>3. DOMAIN f = ImageOf(p, 1..n) /\ IsFcn(f) /\ Cardinality(ImageOf(p, 1..n)) = n
      BY <3>2 DEF Directions
    <3>4. IsFcn(o) /\ DOMAIN o = ImageOf(p, 1..n) /\ \A j \in 1..n : o[p[j]] = <<v[j - 1], v[j]>>
      BY <2>7, <2>10, <3>1
    <3>5. \A x \in ImageOf(p, 1..n) : o[x] = f[x]
      BY <3>2, <3>4 DEF ImageOf, Directions
    <3>6. o = f
      BY <3>3, <3>4, <3>5, SameFcn
    <3>7. Cardinality(DOMAIN ttl) = n
      BY <2>8, <3>1, <3>3
    <3> QED BY <3>6, <3>7 DEF f
  <2>11. certain <=> \E n \in 0..N : DOMAIN ttl = DOMAIN Truth(n)
    BY <2>6, <2>9
  <2> QED BY <2>1, <2>10, <2>11 DEF ttl, N, p
<1> QED
  BY <1>1, FlowInitOK, FlowStep, PTL DEF RabbitSpec

-----------------------------------------------------------------------------
(* The end of a trace *)

TraceRecord == [status : {"none", "running", "done", "stopped"},
                finisher : {"none", "new", "waits", "drains", "cancels", "over"},
                tasks : BOOLEAN]
StopRecord == [pc : {"idle", "gathers", "done"}, trace : Trace \cup {"none"}, waits : BOOLEAN]

ProbeState == {"none", "runs", "cancelled", "over", "cut", "orphan"}

RabbitTypeOK ==
    /\ trace \in [Trace -> TraceRecord]
    /\ probe \in [Trace -> [Watch -> ProbeState]]
    /\ stopper \in [Stopper -> StopRecord]

\* The tasks of a trace are in the table exactly while it runs, and its finisher then.
\* While it runs a probe is cancelled by the finisher only, which does so once, and so
\* only a stop cancels a second time.
TaskInv(t) ==
    /\ trace[t].tasks <=> trace[t].status = "running"
    /\ trace[t].tasks <=> trace[t].finisher \in {"new", "waits", "drains", "cancels"}
    /\ trace[t].status = "done" => Alive(t) = {}
    /\ (\E p \in Watch : probe[t][p] = "cut") => trace[t].status = "stopped"
    /\ trace[t].tasks /\ (\E p \in Watch : probe[t][p] = "cancelled") => trace[t].finisher = "cancels"

TasksInv == \A t \in Trace : TaskInv(t)

\* A request that answered has waited for the probes it cancelled, and its trace has none
\* that could be started again.
StopInv == \A s \in Stopper :
    /\ stopper[s].pc # "idle" => stopper[s].trace \in Trace
    /\ \A t \in Trace : stopper[s].pc # "idle" /\ stopper[s].trace = t => trace[t].status # "none"
    /\ \A t \in Trace : stopper[s].pc = "done" /\ stopper[s].waits /\ stopper[s].trace = t
                          => Alive(t) = {}

RabbitInv == RabbitTypeOK /\ TasksInv /\ StopInv

LEMMA RabbitInitOK == RabbitInit => RabbitInv
<1> SUFFICES ASSUME RabbitInit PROVE RabbitInv
  OBVIOUS
<1>1. NoTrace \in TraceRecord /\ NoStop \in StopRecord
  BY DEF NoTrace, NoStop, TraceRecord, StopRecord
<1>2. RabbitTypeOK
  BY <1>1 DEF RabbitInit, RabbitTypeOK, ProbeState
<1>3. TasksInv
  <2> SUFFICES ASSUME NEW t \in Trace PROVE TaskInv(t)
    BY DEF TasksInv
  <2>1. trace[t] = NoTrace /\ \A p \in Watch : probe[t][p] = "none"
    BY DEF RabbitInit
  <2>2. trace[t].tasks = FALSE /\ trace[t].status = "none" /\ trace[t].finisher = "none"
    BY <2>1 DEF NoTrace
  <2> QED BY <2>1, <2>2 DEF TaskInv
<1>4. StopInv
  BY DEF RabbitInit, StopInv, NoStop
<1> QED
  BY <1>2, <1>3, <1>4 DEF RabbitInv

LEMMA TaskStays ==
    ASSUME NEW t \in Trace, TaskInv(t), trace'[t] = trace[t], probe'[t] = probe[t]
    PROVE  TaskInv(t)'
BY DEF TaskInv, Alive

\* A step that starts no probe of an earlier trace: Alive only shrinks.
LEMMA QuietStep ==
    ASSUME RabbitInv, RabbitTypeOK', TasksInv',
           \A t \in Trace : trace[t].status # "none" =>
               trace'[t].status # "none" /\ (Alive(t) = {} => (Alive(t))' = {}),
           UNCHANGED stopper
    PROVE  RabbitInv'
BY DEF RabbitInv, StopInv, RabbitTypeOK, StopRecord

\* Cancelling starts nothing, touches no other trace, and cuts only what was cancelled.
LEMMA CancelType ==
    ASSUME RabbitTypeOK, NEW t \in Trace, CancelProbes(t)
    PROVE  /\ probe' \in [Trace -> [Watch -> ProbeState]]
           /\ \A u \in Trace \ {t} : probe'[u] = probe[u]
           /\ \A u \in Trace : (Alive(u))' \subseteq Alive(u)
           /\ \A p \in Watch : probe'[t][p] = "cut" => probe[t][p] \in {"cut", "cancelled"}
<1> DEFINE q == [p \in Watch |-> IF p \in Alive(t) THEN Cancelled[probe[t][p]] ELSE probe[t][p]]
<1>1. probe' = [probe EXCEPT ![t] = q]
  BY DEF CancelProbes
<1>2. \A p \in Watch : probe[t][p] \in ProbeState
  BY DEF RabbitTypeOK
<1>3. \A p \in Watch : /\ probe[t][p] = "runs" => q[p] = "cancelled"
                       /\ probe[t][p] = "cancelled" => q[p] = "cut"
                       /\ probe[t][p] \notin {"runs", "cancelled"} => q[p] = probe[t][p]
  BY DEF Alive, Cancelled
<1>4. q \in [Watch -> ProbeState]
  <2>1. \A p \in Watch : q[p] \in ProbeState
    BY <1>2, <1>3 DEF ProbeState
  <2>2. q = [p \in Watch |-> q[p]]
    OBVIOUS
  <2> HIDE DEF q
  <2> QED BY <2>1, <2>2
<1> HIDE DEF q
<1>5. \A u \in Trace : probe'[u] = IF u = t THEN q ELSE probe[u]
  BY <1>1 DEF RabbitTypeOK
<1>6. probe' \in [Trace -> [Watch -> ProbeState]]
  BY <1>1, <1>4 DEF RabbitTypeOK
<1>7. \A u \in Trace : (Alive(u))' \subseteq Alive(u)
  <2>1. ASSUME NEW u \in Trace, NEW p \in Watch, probe'[u][p] \in {"runs", "cancelled"}
        PROVE  probe[u][p] \in {"runs", "cancelled"}
    BY <1>2, <1>3, <1>5, <2>1 DEF ProbeState
  <2> QED BY <2>1 DEF Alive
<1>8. \A p \in Watch : probe'[t][p] = "cut" => probe[t][p] \in {"cut", "cancelled"}
  BY <1>2, <1>3, <1>5 DEF ProbeState
<1> QED
  BY <1>5, <1>6, <1>7, <1>8

LEMMA RabbitStep == RabbitInv /\ [RabbitNext]_rabbitVars => RabbitInv'
<1> SUFFICES ASSUME RabbitInv, [RabbitNext]_rabbitVars PROVE RabbitInv'
  OBVIOUS
<1>0. RabbitTypeOK /\ TasksInv /\ StopInv
  BY DEF RabbitInv
<1>1. ASSUME NEW t \in Trace, Start(t) PROVE RabbitInv'
  <2> DEFINE r == [status |-> "running", finisher |-> "new", tasks |-> TRUE]
             q == [p \in Watch |-> IF p[1] \in CandidateLinks(route.source) THEN "runs" ELSE "none"]
  <2>1. r \in TraceRecord /\ r.status = "running" /\ r.tasks = TRUE /\ r.finisher = "new"
    BY DEF TraceRecord
  <2>2. q \in [Watch -> ProbeState] /\ \A p \in Watch : q[p] \in {"runs", "none"}
    BY DEF ProbeState
  <2>3. trace' = [trace EXCEPT ![t] = r] /\ probe' = [probe EXCEPT ![t] = q] /\ stopper' = stopper
        /\ trace[t].status = "none"
    BY <1>1 DEF Start, NoTrace
  <2> HIDE DEF r, q
  <2>4. RabbitTypeOK'
    BY <1>0, <2>1, <2>2, <2>3 DEF RabbitTypeOK
  <2>5. \A u \in Trace \ {t} : trace'[u] = trace[u] /\ probe'[u] = probe[u] /\ (Alive(u))' = Alive(u)
    BY <1>0, <2>3 DEF RabbitTypeOK, Alive
  <2>6. trace'[t] = r /\ probe'[t] = q
    BY <1>0, <2>3 DEF RabbitTypeOK
  <2>7. TasksInv'
    <3>1. TaskInv(t)'
      BY <2>1, <2>2, <2>6 DEF TaskInv
    <3>2. ASSUME NEW u \in Trace \ {t} PROVE TaskInv(u)'
      BY <1>0, <2>5, TaskStays DEF TasksInv
    <3> QED BY <3>1, <3>2 DEF TasksInv
  <2> QED BY <2>3, <2>4, <2>5, <2>7, QuietStep
<1>2. ASSUME NEW t \in Trace, FinisherWaits(t) PROVE RabbitInv'
  <2>0. trace[t] \in TraceRecord /\ TaskInv(t)
    BY <1>0 DEF RabbitTypeOK, TasksInv
  <2>1. PICK pc \in {"waits", "over", "cancels", "drains"} :
          /\ Finishes(t, pc)
          /\ pc = "over" => trace[t].status # "running"
          /\ \/ probe' = probe /\ (pc = "cancels" \/ trace[t].finisher # "cancels")
             \/ CancelProbes(t) /\ trace[t].finisher = "drains" /\ pc = "cancels"
          /\ trace[t].finisher \in {"new", "waits", "drains"}
    BY <1>2 DEF FinisherWaits
  <2>2. /\ trace' \in [Trace -> TraceRecord]
        /\ \A u \in Trace : trace'[u].status = trace[u].status /\ trace'[u].tasks = trace[u].tasks
        /\ trace'[t].finisher = pc
        /\ \A u \in Trace \ {t} : trace'[u] = trace[u]
    BY <1>0, <2>1 DEF RabbitTypeOK, Finishes, TraceRecord
  <2>3. /\ probe' \in [Trace -> [Watch -> ProbeState]]
        /\ \A u \in Trace \ {t} : probe'[u] = probe[u]
        /\ \A u \in Trace : (Alive(u))' \subseteq Alive(u)
    <3>1. CASE probe' = probe
      BY <1>0, <3>1 DEF RabbitTypeOK, Alive
    <3>2. CASE CancelProbes(t)
      BY <1>0, <3>2, CancelType
    <3> QED BY <2>1, <3>1, <3>2
  <2>4. TaskInv(t)'
    <3>1. trace[t].tasks /\ trace[t].status = "running" /\ pc # "over"
      BY <2>0, <2>1 DEF TaskInv
    <3>2. \A p \in Watch : probe[t][p] \notin {"cancelled", "cut"}
      BY <2>0, <2>1, <3>1 DEF TaskInv
    <3>3. \A p \in Watch : probe'[t][p] # "cut" /\ (probe'[t][p] = "cancelled" => pc = "cancels")
      BY <1>0, <2>1, <3>2, CancelType
    <3> QED BY <2>1, <2>2, <3>1, <3>3 DEF TaskInv
  <2>5. stopper' = stopper
    BY <1>2 DEF FinisherWaits
  <2>6. RabbitTypeOK'
    BY <1>0, <2>2, <2>3, <2>5 DEF RabbitTypeOK
  <2>7. TasksInv'
    <3>1. ASSUME NEW u \in Trace \ {t} PROVE TaskInv(u)'
      BY <1>0, <2>2, <2>3, TaskStays DEF TasksInv
    <3> QED BY <2>4, <3>1 DEF TasksInv
  <2> QED BY <2>2, <2>3, <2>5, <2>6, <2>7, QuietStep
<1>3. ASSUME NEW t \in Trace, FinisherEnds(t) PROVE RabbitInv'
  <2>1. probe' = probe /\ stopper' = stopper /\ Alive(t) = {}
    BY <1>3 DEF FinisherEnds, Gathered
  <2>2. \A u \in Trace : (Alive(u))' = Alive(u)
    BY <2>1 DEF Alive
  <2>3. CASE trace[t].status = "running"
    <3> DEFINE r == [status |-> "done", finisher |-> "over", tasks |-> FALSE]
    <3>1. r \in TraceRecord /\ r.status = "done" /\ r.tasks = FALSE /\ r.finisher = "over"
      BY DEF TraceRecord
    <3>2. trace' = [trace EXCEPT ![t] = r]
      BY <1>3, <2>3 DEF FinisherEnds
    <3> HIDE DEF r
    <3>3. RabbitTypeOK' /\ \A u \in Trace : trace'[u] = IF u = t THEN r ELSE trace[u]
      BY <1>0, <2>1, <3>1, <3>2 DEF RabbitTypeOK
    <3>4. TasksInv'
      <4>0. TaskInv(t)
        BY <1>0 DEF TasksInv
      <4>1. TaskInv(t)'
        <5>1. trace'[t].tasks = FALSE /\ trace'[t].status = "done" /\ trace'[t].finisher = "over"
          BY <3>1, <3>3
        <5>2. (Alive(t))' = {} /\ \A p \in Watch : probe'[t][p] # "cut"
          BY <2>1, <2>2, <2>3, <4>0 DEF TaskInv
        <5> QED BY <5>1, <5>2 DEF TaskInv
      <4>2. ASSUME NEW u \in Trace \ {t} PROVE TaskInv(u)'
        BY <1>0, <2>1, <3>3, TaskStays DEF TasksInv
      <4> QED BY <4>1, <4>2 DEF TasksInv
    <3> QED BY <2>1, <2>2, <3>1, <3>3, <3>4, QuietStep
  <2>4. CASE trace[t].status # "running"
    <3>1. Finishes(t, "over")
      BY <1>3, <2>4 DEF FinisherEnds
    <3>2. FALSE
      BY <1>0, <1>3, <2>4 DEF TasksInv, TaskInv, FinisherEnds
    <3> QED BY <3>2
  <2> QED BY <2>3, <2>4
<1>4. ASSUME NEW t \in Trace, NEW p \in Watch, Packet(t, p) PROVE RabbitInv'
  <2>1. UNCHANGED <<trace, probe, stopper>>
    BY <1>4 DEF Packet
  <2> QED BY <2>1 DEF RabbitInv, RabbitTypeOK, TasksInv, TaskInv, StopInv, Alive
<1>5. ASSUME NEW t \in Trace, NEW p \in Watch, ProbeEnds(t, p) \/ ProbeBreaksOff(t, p)
      PROVE  RabbitInv'
  <2>1. PICK e \in {"over", "orphan"} : probe' = [probe EXCEPT ![t][p] = e]
    BY <1>5 DEF ProbeEnds, ProbeBreaksOff
  <2>2. trace' = trace /\ stopper' = stopper
    BY <1>5 DEF ProbeEnds, ProbeBreaksOff
  <2>3. \A u \in Trace : \A k \in Watch :
          probe'[u][k] = IF u = t /\ k = p THEN e ELSE probe[u][k]
    BY <1>0, <2>1 DEF RabbitTypeOK
  <2>4. RabbitTypeOK'
    BY <1>0, <2>1, <2>2 DEF RabbitTypeOK, ProbeState
  <2>5. \A u \in Trace : (Alive(u))' \subseteq Alive(u)
    BY <2>3 DEF Alive
  <2>6. TasksInv'
    <3> SUFFICES ASSUME NEW u \in Trace PROVE TaskInv(u)'
      BY DEF TasksInv
    <3>1. TaskInv(u)
      BY <1>0 DEF TasksInv
    <3>2. \A k \in Watch : probe'[u][k] \in {"cut", "cancelled"} => probe'[u][k] = probe[u][k]
      BY <2>3
    <3> QED BY <2>2, <2>5, <3>1, <3>2 DEF TaskInv
  <2> QED BY <2>2, <2>4, <2>5, <2>6, QuietStep
<1>6. ASSUME NEW t \in Trace, NEW s \in Stopper, Stop(s, t) PROVE RabbitInv'
  <2> DEFINE fin == IF trace[t].tasks THEN "over" ELSE trace[t].finisher
             r == [status |-> "stopped", tasks |-> FALSE, finisher |-> fin]
             g == [pc |-> "gathers", trace |-> t, waits |-> trace[t].tasks]
  <2>0. trace[t] \in TraceRecord /\ trace[t].tasks \in BOOLEAN /\ fin \in {"none", "new", "waits", "drains", "cancels", "over"}
    BY <1>0 DEF RabbitTypeOK, TraceRecord
  <2>1. r \in TraceRecord /\ r.status = "stopped" /\ r.tasks = FALSE /\ r.finisher = fin
    BY <2>0 DEF TraceRecord
  <2>2. g \in StopRecord /\ g.pc = "gathers" /\ g.trace = t
    BY <2>0 DEF StopRecord
  <2>3. trace' = [trace EXCEPT ![t] = r] /\ stopper' = [stopper EXCEPT ![s] = g]
    BY <1>6 DEF Stop
  <2> HIDE DEF r, g, fin
  <2>10. fin \notin {"new", "waits", "drains", "cancels"}
    BY <1>0 DEF TasksInv, TaskInv, fin
  <2>4. /\ probe' \in [Trace -> [Watch -> ProbeState]]
        /\ \A u \in Trace \ {t} : probe'[u] = probe[u]
        /\ \A u \in Trace : (Alive(u))' \subseteq Alive(u)
    <3>1. CASE trace[t].tasks
      <4>1. CancelProbes(t)
        BY <1>6, <3>1 DEF Stop
      <4> QED BY <1>0, <4>1, CancelType
    <3>2. CASE ~trace[t].tasks
      <4>1. probe' = probe
        BY <1>6, <3>2 DEF Stop
      <4> QED BY <1>0, <4>1 DEF RabbitTypeOK, Alive
    <3> QED BY <3>1, <3>2
  <2>5. RabbitTypeOK'
    BY <1>0, <2>1, <2>2, <2>3, <2>4 DEF RabbitTypeOK
  <2>6. \A u \in Trace : trace'[u] = IF u = t THEN r ELSE trace[u]
    BY <1>0, <2>3 DEF RabbitTypeOK
  <2>7. \A x \in Stopper : stopper'[x] = IF x = s THEN g ELSE stopper[x]
    BY <1>0, <2>3 DEF RabbitTypeOK
  <2>8. TasksInv'
    <3>1. TaskInv(t)'
      <4>1. trace'[t].tasks = FALSE /\ trace'[t].status = "stopped" /\ trace'[t].finisher = fin
        BY <2>1, <2>6
      <4> QED BY <4>1, <2>10 DEF TaskInv
    <3>2. ASSUME NEW u \in Trace \ {t} PROVE TaskInv(u)'
      BY <1>0, <2>4, <2>6, TaskStays DEF TasksInv
    <3> QED BY <3>1, <3>2 DEF TasksInv
  <2>9. StopInv'
    <3>1. \A u \in Trace : trace[u].status # "none" => trace'[u].status # "none"
      BY <2>1, <2>6
    <3>2. trace'[t].status # "none"
      BY <2>1, <2>6
    <3>3. ASSUME NEW x \in Stopper
          PROVE  /\ stopper'[x].pc # "idle" => stopper'[x].trace \in Trace
                 /\ \A u \in Trace : stopper'[x].pc # "idle" /\ stopper'[x].trace = u
                                       => trace'[u].status # "none"
                 /\ \A u \in Trace : stopper'[x].pc = "done" /\ stopper'[x].waits /\ stopper'[x].trace = u
                                       => (Alive(u))' = {}
      <4>1. CASE x = s
        BY <4>1, <2>2, <2>7, <3>2
      <4>2. CASE x # s
        <5>1. stopper'[x] = stopper[x]
          BY <4>2, <2>7
        <5> QED BY <5>1, <1>0, <2>4, <3>1 DEF StopInv
      <4> QED BY <4>1, <4>2
    <3> QED BY <3>3 DEF StopInv
  <2> QED BY <2>5, <2>8, <2>9 DEF RabbitInv
<1>7. ASSUME NEW s \in Stopper, StopEnds(s) PROVE RabbitInv'
  <2>1. trace' = trace /\ probe' = probe /\ stopper' = [stopper EXCEPT ![s].pc = "done"]
        /\ stopper[s].pc = "gathers" /\ (stopper[s].waits => Alive(stopper[s].trace) = {})
    BY <1>7 DEF StopEnds, Gathered
  <2>2. RabbitTypeOK'
    BY <1>0, <2>1 DEF RabbitTypeOK, StopRecord
  <2>3. \A u \in Trace : (Alive(u))' = Alive(u)
    BY <2>1 DEF Alive
  <2>4. TasksInv'
    BY <1>0, <2>1, <2>3 DEF TasksInv, TaskInv
  <2>5. \A x \in Stopper : /\ x # s => stopper'[x] = stopper[x]
                           /\ stopper'[x].trace = stopper[x].trace
                           /\ stopper'[x].waits = stopper[x].waits
    BY <1>0, <2>1 DEF RabbitTypeOK, StopRecord
  <2>6. StopInv'
    <3> SUFFICES ASSUME NEW x \in Stopper
                 PROVE  /\ stopper'[x].pc # "idle" => stopper'[x].trace \in Trace
                        /\ \A t \in Trace : stopper'[x].pc # "idle" /\ stopper'[x].trace = t => trace'[t].status # "none"
                        /\ \A t \in Trace : stopper'[x].pc = "done" /\ stopper'[x].waits /\ stopper'[x].trace = t
                                              => (Alive(t))' = {}
      BY DEF StopInv
    <3>1. CASE x = s
      BY <1>0, <2>1, <2>3, <2>5, <3>1 DEF StopInv
    <3>2. CASE x # s
      BY <1>0, <2>1, <2>3, <2>5, <3>2 DEF StopInv
    <3> QED BY <3>1, <3>2
  <2> QED BY <2>2, <2>4, <2>6 DEF RabbitInv
<1>8. CASE UNCHANGED rabbitVars
  BY <1>8 DEF rabbitVars, RabbitInv, RabbitTypeOK, TasksInv, TaskInv, StopInv, Alive
<1> QED
  BY <1>1, <1>2, <1>3, <1>4, <1>5, <1>6, <1>7, <1>8 DEF RabbitNext

\* What has ended is quiet, however the probes of a trace, its deadline and any number of
\* stop requests cross.  The tasks are in _tasks exactly while the trace runs, so one of
\* the finisher and the requests takes them out, cancels them and waits for them, and no
\* step starts a probe of a trace a second time.  The finisher cancels once, so a wait for
\* an ssh is cut short by a stop only and never in a trace that is done.
THEOREM EndsStayQuiet == RabbitSpec => []EndIsQuiet
<1>1. RabbitInv => EndIsQuiet
  <2> SUFFICES ASSUME RabbitInv, NEW t \in Trace
               PROVE  /\ trace[t].status = "done" =>
                           \A p \in Watch : probe[t][p] \in {"none", "over", "orphan"}
                      /\ \A s \in Stopper :
                           stopper[s] = [pc |-> "done", trace |-> t, waits |-> TRUE] => Alive(t) = {}
                      /\ \A p \in Watch : probe[t][p] = "cut" => trace[t].status = "stopped"
    BY DEF EndIsQuiet
  <2>1. TaskInv(t) /\ \A p \in Watch : probe[t][p] \in ProbeState
    BY DEF RabbitInv, RabbitTypeOK, TasksInv
  <2>2. trace[t].status = "done" => \A p \in Watch : probe[t][p] \in {"none", "over", "orphan"}
    BY <2>1 DEF TaskInv, ProbeState, Alive
  <2>3. \A p \in Watch : probe[t][p] = "cut" => trace[t].status = "stopped"
    BY <2>1 DEF TaskInv
  <2>4. \A s \in Stopper :
          stopper[s] = [pc |-> "done", trace |-> t, waits |-> TRUE] => Alive(t) = {}
    BY DEF RabbitInv, StopInv
  <2> QED BY <2>2, <2>3, <2>4
<1> QED
  BY <1>1, RabbitInitOK, RabbitStep, PTL DEF RabbitSpec
==============================================================================
