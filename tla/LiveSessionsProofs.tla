------------------------- MODULE LiveSessionsProofs -------------------------
(***************************************************************************)
(* The live sessions of the GUI, proved for any number of sockets,         *)
(* publishers and events.  The invariant adds to the two properties the    *)
(* types, and that a handler of the events stays subscribed from the first *)
(* half of subscribe until it leaves.                                      *)
(***************************************************************************)
EXTENDS LiveSessions, SequenceTheorems, FiniteSetTheorems, TLAPS

SessionRecord ==
    [kind : {"none", "events", "console", "logs"},
     pc : {"idle", "opens", "subscribing", "relay", "streams", "ends", "done"},
     subscribed : BOOLEAN, queue : Seq(Nat), got : SUBSET Nat, tracked : BOOLEAN,
     cancelled : BOOLEAN, dropped : SUBSET Nat]
Callback == [to : Socket \cup {"all"}, event : Nat]

\* The types of the bus, the loop and the handlers; no event is numbered 0.
LiveTypeOK ==
    /\ history \in Seq(Nat \ {0})
    /\ published \in Nat
    /\ publisher \in [Publisher -> Nat]
    /\ loop \in Seq(Callback)
    /\ socket \in [Socket -> SessionRecord]
    /\ stopping \in BOOLEAN

\* A handler of ws_events is subscribed from the first half of subscribe until it leaves.
StaysSubscribed(r) ==
    /\ r.pc = "relay" => r.kind = "console"
    /\ r.pc \in {"subscribing", "streams"} /\ r.kind = "events" => r.subscribed

\* What a session has got, or will get without a further publish.
Reached(s, r) == r.got \cup Range(r.queue) \cup r.dropped \cup Pending(s) \cup Range(publisher)

Told == \E i \in DOMAIN loop : loop[i].to = "all"

LiveInv ==
    /\ LiveTypeOK
    /\ \A s \in Socket : StaysSubscribed(socket[s])
    /\ NothingIsMissed
    /\ ShutdownReachesAll

-----------------------------------------------------------------------------
(* Sequences as the bus and the loop use them.                             *)

\* The elements of a sequence that grows or loses its head.
LEMMA RangeAppend ==
  ASSUME NEW S, NEW s \in Seq(S), NEW e \in S
  PROVE  Append(s, e) \in Seq(S) /\ Range(Append(s, e)) = Range(s) \cup {e}
  <1> DEFINE t == Append(s, e)
  <1>1. t \in Seq(S) /\ Len(t) = Len(s) + 1 /\ t[Len(s) + 1] = e /\ DOMAIN t = 1..Len(s)+1 /\ DOMAIN s = 1..Len(s)
        /\ \A i \in 1..Len(s) : t[i] = s[i]
    OBVIOUS
  <1> HIDE DEF t
  <1>2. Range(t) \subseteq Range(s) \cup {e}
    BY <1>1 DEF Range
  <1>3. Range(s) \cup {e} \subseteq Range(t)
    BY <1>1 DEF Range
  <1> QED BY <1>1, <1>2, <1>3 DEF t

\* ... or loses its head.
LEMMA RangeTail ==
  ASSUME NEW S, NEW s \in Seq(S), s # <<>>
  PROVE  Tail(s) \in Seq(S) /\ Head(s) \in S /\ Range(s) = {Head(s)} \cup Range(Tail(s))
  <1> DEFINE t == Tail(s)
  <1>1. t \in Seq(S) /\ Len(t) = Len(s) - 1 /\ DOMAIN t = 1..(Len(s) - 1) /\ DOMAIN s = 1..Len(s) /\ Len(s) \in Nat \ {0}
        /\ (\A i \in 1..(Len(s) - 1) : t[i] = s[i + 1]) /\ Head(s) = s[1]
    OBVIOUS
  <1> HIDE DEF t
  <1>2. {s[1]} \cup Range(t) \subseteq Range(s)
    BY <1>1 DEF Range
  <1>3. ASSUME NEW x \in Range(s) PROVE x = s[1] \/ x \in Range(t)
    <2>1. PICK i \in 1..Len(s) : x = s[i]
      BY <1>1 DEF Range
    <2>2. CASE i = 1
      BY <2>1, <2>2
    <2>3. CASE i # 1
      <3>1. i - 1 \in 1..(Len(s) - 1) /\ t[i - 1] = s[i]
        BY <1>1, <2>3
      <3> QED BY <2>1, <3>1, <1>1 DEF Range
    <2> QED BY <2>2, <2>3
  <1>4. Head(s) \in S
    BY <1>1
  <1> QED BY <1>1, <1>2, <1>3, <1>4 DEF t

\* The callbacks on the loop, as a set, say all that the invariant needs.
Calls == Range(loop)

\* What waits in the loop for one session.
LEMMA PendingCalls ==
  ASSUME NEW s
  PROVE  Pending(s) = {c.event : c \in {d \in Calls : d.to = s}}
  BY DEF Pending, Calls, Range

\* The shutdown waits in the loop as a call to every session.
LEMMA ToldCalls == Told <=> \E c \in Calls : c.to = "all"
  BY DEF Told, Calls, Range

\* SetToSeq lists a finite set.
LEMMA ListsAll ==
  ASSUME NEW S, IsFiniteSet(S)
  PROVE  SetToSeq(S) \in Seq(S) /\ Range(SetToSeq(S)) = S
  <1> DEFINE n == Cardinality(S)
  <1>1. n \in Nat /\ ExistsBijection(1..n, S)
    BY FS_CountingElements, FS_NatBijection, FS_CardinalityType
  <1>2. PICK g : g \in Bijection(1..n, S)
    BY <1>1 DEF ExistsBijection
  <1>3. g \in [1..n -> S] /\ IsInjective(g)
    BY <1>2 DEF Bijection, Injection
  <1>4. SetToSeq(S) \in [1..n -> S] /\ IsInjective(SetToSeq(S))
    BY <1>3 DEF SetToSeq
  <1> DEFINE f == SetToSeq(S)
  <1> HIDE DEF f
  <1>5. f \in Injection(1..n, S)
    BY <1>4 DEF f, Injection
  <1>6. IsFiniteSet(1..n) /\ Cardinality(1..n) = n
    BY <1>1, FS_Interval
  <1>7. f \in Surjection(1..n, S)
    BY <1>5, <1>6, FS_Injection
  <1>8. f \in Seq(S)
    BY <1>1, <1>4 DEF f
  <1>9. Range(f) = S
    BY <1>7 DEF Surjection, Range
  <1> QED BY <1>8, <1>9 DEF f

\* Two sequences, one after the other.
LEMMA RangeConcat ==
  ASSUME NEW S, NEW s \in Seq(S), NEW t \in Seq(S)
  PROVE  s \o t \in Seq(S) /\ Range(s \o t) = Range(s) \cup Range(t)
  <1> DEFINE u == s \o t
  <1>1. /\ u \in Seq(S) /\ DOMAIN u = 1..(Len(s) + Len(t)) /\ DOMAIN s = 1..Len(s) /\ DOMAIN t = 1..Len(t)
        /\ \A i \in 1..Len(s) : u[i] = s[i]
        /\ \A i \in 1..Len(t) : u[Len(s) + i] = t[i]
        /\ \A i \in 1..(Len(s) + Len(t)) : i > Len(s) => u[i] = t[i - Len(s)] /\ i - Len(s) \in 1..Len(t)
        /\ Len(s) \in Nat /\ Len(t) \in Nat
    <2>1. /\ u \in Seq(S) /\ DOMAIN u = 1..Len(u) /\ DOMAIN s = 1..Len(s) /\ DOMAIN t = 1..Len(t)
          /\ Len(u) = Len(s) + Len(t) /\ Len(s) \in Nat /\ Len(t) \in Nat
      OBVIOUS
    <2>2. \A i \in 1..(Len(s) + Len(t)) : u[i] = IF i <= Len(s) THEN s[i] ELSE t[i - Len(s)]
      BY ConcatProperties
    <2> HIDE DEF u
    <2>3. \A i \in 1..Len(s) : u[i] = s[i]
      BY <2>1, <2>2
    <2>4. ASSUME NEW i \in 1..Len(t) PROVE u[Len(s) + i] = t[i]
      <3>1. Len(s) + i \in 1..(Len(s) + Len(t)) /\ ~(Len(s) + i <= Len(s)) /\ (Len(s) + i) - Len(s) = i
        BY <2>1
      <3> QED BY <2>2, <3>1
    <2>5. ASSUME NEW i \in 1..(Len(s) + Len(t)), i > Len(s)
          PROVE  u[i] = t[i - Len(s)] /\ i - Len(s) \in 1..Len(t)
      BY <2>1, <2>2, <2>5
    <2> QED BY <2>1, <2>3, <2>4, <2>5, Zenon
  <1> HIDE DEF u
  <1>2. Range(u) \subseteq Range(s) \cup Range(t)
    <2>1. ASSUME NEW i \in 1..(Len(s) + Len(t)) PROVE u[i] \in Range(s) \cup Range(t)
      <3>1. CASE i \in 1..Len(s)
        BY <3>1, <1>1 DEF Range
      <3>2. CASE i \notin 1..Len(s)
        <4>1. u[i] = t[i - Len(s)] /\ i - Len(s) \in 1..Len(t)
          BY <3>2, <1>1
        <4> QED BY <4>1, <1>1 DEF Range
      <3> QED BY <3>1, <3>2
    <2> QED BY <2>1, <1>1 DEF Range
  <1>3. Range(s) \cup Range(t) \subseteq Range(u)
    <2>1. ASSUME NEW i \in 1..Len(t) PROVE t[i] \in Range(u)
      <3>1. Len(s) + i \in 1..(Len(s) + Len(t)) /\ u[Len(s) + i] = t[i]
        BY <1>1
      <3> QED BY <3>1, <1>1 DEF Range
    <2>2. ASSUME NEW i \in 1..Len(s) PROVE s[i] \in Range(u)
      <3>1. i \in 1..(Len(s) + Len(t)) /\ u[i] = s[i]
        BY <1>1
      <3> QED BY <3>1, <1>1 DEF Range
    <2> QED BY <1>1, <2>1, <2>2 DEF Range
  <1> QED BY <1>1, <1>2, <1>3 DEF u

-----------------------------------------------------------------------------
(* The steps.                                                              *)

\* A handler replaces its record by one that is subscribed where it streams, is told when
\* it is tracked, and misses nothing.
LEMMA HandlesInv ==
  ASSUME LiveInv, NEW s \in Socket, NEW rec \in SessionRecord, Handles(s, rec),
         StaysSubscribed(rec),
         rec.tracked /\ stopping => rec.cancelled \/ (socket[s].tracked /\ ~socket[s].cancelled),
         rec.pc = "streams" /\ rec.kind = "events" => Range(history) \subseteq Reached(s, rec)
  PROVE  LiveInv'
  <1>1. /\ UNCHANGED <<history, published, publisher, loop, stopping>>
        /\ socket' \in [Socket -> SessionRecord]
        /\ socket'[s] = rec /\ \A q \in Socket \ {s} : socket'[q] = socket[q]
    BY DEF Handles, LiveInv, LiveTypeOK
  <1>2. LiveTypeOK' /\ \A q \in Socket : StaysSubscribed(socket[q])'
    BY <1>1 DEF LiveInv, LiveTypeOK, StaysSubscribed
  <1>3. NothingIsMissed'
    BY <1>1 DEF LiveInv, NothingIsMissed, Reached, Pending
  <1>4. ShutdownReachesAll'
    BY <1>1 DEF LiveInv, ShutdownReachesAll
  <1> QED BY <1>2, <1>3, <1>4 DEF LiveInv

\* The record of a new session, and of one that has ended.
LEMMA OpenedRecord ==
  ASSUME NEW kind \in {"none", "events", "console", "logs"}
  PROVE  /\ Opened(kind) \in SessionRecord /\ ~Opened(kind).tracked /\ Opened(kind).pc = "opens"
         /\ Opened(kind).kind = kind
  BY DEF Opened, SessionRecord

\* The record of a session that was refused.
LEMMA EndedRecord ==
  /\ [NoSession EXCEPT !.pc = "done"] \in SessionRecord
  /\ ~[NoSession EXCEPT !.pc = "done"].tracked
  /\ [NoSession EXCEPT !.pc = "done"].pc = "done"
  /\ NoSession \in SessionRecord /\ ~NoSession.tracked /\ NoSession.pc = "idle"
  <1> DEFINE o == Opened("none")
  <1>1. o \in SessionRecord /\ ~o.tracked
    BY OpenedRecord
  <1> HIDE DEF o
  <1>2. NoSession = [o EXCEPT !.pc = "idle"]
    BY DEF NoSession, o
  <1>3. NoSession \in SessionRecord /\ ~NoSession.tracked /\ NoSession.pc = "idle"
    BY <1>1, <1>2 DEF SessionRecord
  <1> QED BY <1>3 DEF SessionRecord

\* track: the socket is cancelled if the shutdown was requested before.
LEMMA TrackedRecord ==
  ASSUME LiveInv, NEW s \in Socket, NEW pc \in {"relay", "streams"}
  PROVE  /\ Tracked(s, pc) \in SessionRecord /\ Tracked(s, pc).pc = pc
         /\ (Tracked(s, pc).tracked /\ stopping => Tracked(s, pc).cancelled)
         /\ Tracked(s, pc).kind = socket[s].kind /\ Tracked(s, pc).subscribed = socket[s].subscribed
  <1>1. ASSUME NEW r \in SessionRecord, NEW b \in BOOLEAN
        PROVE  /\ [r EXCEPT !.pc = pc, !.tracked = TRUE, !.cancelled = b] \in SessionRecord
               /\ [r EXCEPT !.pc = pc, !.tracked = TRUE, !.cancelled = b].pc = pc
               /\ [r EXCEPT !.pc = pc, !.tracked = TRUE, !.cancelled = b].cancelled = b
               /\ [r EXCEPT !.pc = pc, !.tracked = TRUE, !.cancelled = b].kind = r.kind
               /\ [r EXCEPT !.pc = pc, !.tracked = TRUE, !.cancelled = b].subscribed = r.subscribed
    BY DEF SessionRecord
  <1>2. socket[s] \in SessionRecord /\ stopping \in BOOLEAN
    BY DEF LiveInv, LiveTypeOK
  <1> QED BY <1>1, <1>2, Zenon DEF Tracked

\* A record of which only the place changes.
LEMMA PlaceRecord ==
  ASSUME LiveInv, NEW s \in Socket, NEW pc \in {"subscribing", "relay", "streams", "ends", "done"},
         NEW b \in BOOLEAN
  PROVE  /\ [socket[s] EXCEPT !.pc = pc] \in SessionRecord
         /\ [socket[s] EXCEPT !.pc = pc].pc = pc
         /\ [socket[s] EXCEPT !.pc = pc].kind = socket[s].kind
         /\ [socket[s] EXCEPT !.pc = pc].tracked = socket[s].tracked
         /\ [socket[s] EXCEPT !.pc = pc].cancelled = socket[s].cancelled
         /\ [socket[s] EXCEPT !.pc = pc, !.subscribed = b] \in SessionRecord
         /\ [socket[s] EXCEPT !.pc = pc, !.subscribed = b].pc = pc
         /\ [socket[s] EXCEPT !.pc = pc, !.subscribed = b].subscribed = b
         /\ [socket[s] EXCEPT !.pc = pc, !.subscribed = b].kind = socket[s].kind
         /\ [socket[s] EXCEPT !.pc = pc, !.subscribed = b].tracked = socket[s].tracked
         /\ [socket[s] EXCEPT !.pc = pc, !.subscribed = b].cancelled = socket[s].cancelled
  BY DEF LiveInv, LiveTypeOK, SessionRecord

\* A session of the events opens.
LEMMA OpenInv ==
  ASSUME LiveInv, NEW s \in Socket, Open(s)
  PROVE  LiveInv'
  <1>1. ASSUME NEW kind \in {"events", "console", "logs"}, Handles(s, Opened(kind)) PROVE LiveInv'
    BY <1>1, OpenedRecord, HandlesInv DEF StaysSubscribed
  <1>2. CASE Handles(s, [NoSession EXCEPT !.pc = "done"])
    <2> DEFINE r == [NoSession EXCEPT !.pc = "done"]
    <2>1. r \in SessionRecord /\ ~r.tracked /\ r.pc = "done" /\ Handles(s, r)
      BY <1>2, EndedRecord
    <2> HIDE DEF r
    <2> QED BY <2>1, HandlesInv DEF StaysSubscribed
  <1> QED BY <1>1, <1>2 DEF Open

\* The second half of subscribe hands over the history that was not seen.
LEMMA SubscribeInv ==
  ASSUME LiveInv, NEW s \in Socket, Subscribe(s)
  PROVE  LiveInv'
  <1>0. StaysSubscribed(socket[s]) /\ socket[s] \in SessionRecord
        /\ (socket[s].tracked /\ stopping => socket[s].cancelled \/ ~socket[s].cancelled)
    BY DEF LiveInv, LiveTypeOK
  <1>1. CASE socket[s].pc = "opens" /\ Handles(s, Subscription(s, 1))
    <2> DEFINE r == [socket[s] EXCEPT !.pc = "subscribing", !.subscribed = TRUE]
    <2>1. /\ r \in SessionRecord /\ r.pc = "subscribing" /\ r.subscribed = TRUE
          /\ r.tracked = socket[s].tracked /\ r.cancelled = socket[s].cancelled
      BY <1>0 DEF SessionRecord
    <2>2. Handles(s, r)
      BY <1>1 DEF Subscription
    <2> HIDE DEF r
    <2>3. StaysSubscribed(r)
      BY <2>1, Zenon DEF StaysSubscribed
    <2>4. r.tracked /\ stopping => r.cancelled \/ (socket[s].tracked /\ ~socket[s].cancelled)
      BY <2>1, Zenon
    <2>5. r.pc # "streams"
      BY <2>1
    <2> QED BY <2>1, <2>2, <2>3, <2>4, <2>5, HandlesInv, Zenon
  <1>2. CASE socket[s].pc = "subscribing" /\ Handles(s, Subscription(s, 2))
    <2> DEFINE t == Tracked(s, "streams")
               r == [t EXCEPT !.queue = history]
    <2>1. /\ t \in SessionRecord /\ t.pc = "streams"
          /\ (t.tracked /\ stopping => t.cancelled)
          /\ t.kind = socket[s].kind /\ t.subscribed = socket[s].subscribed
      BY TrackedRecord
    <2>2. Handles(s, r)
      BY <1>2 DEF Subscription
    <2> HIDE DEF t
    <2>3. history \in Seq(Nat)
      <3>1. history \in Seq(Nat \ {0})
        BY DEF LiveInv, LiveTypeOK
      <3> QED BY <3>1
    <2>4. /\ r \in SessionRecord /\ r.pc = "streams" /\ r.queue = history /\ r.kind = t.kind
          /\ r.subscribed = t.subscribed /\ r.tracked = t.tracked /\ r.cancelled = t.cancelled
      <3> DEFINE Q == Seq(Nat)
      <3>1. history \in Q
        BY <2>3
      <3> HIDE DEF Q
      <3>2. t \in [kind : {"none", "events", "console", "logs"},
                   pc : {"idle", "opens", "subscribing", "relay", "streams", "ends", "done"},
                   subscribed : BOOLEAN, queue : Q, got : SUBSET Nat, tracked : BOOLEAN,
                   cancelled : BOOLEAN, dropped : SUBSET Nat]
        BY <2>1 DEF SessionRecord, Q
      <3> QED BY <2>1, <3>1, <3>2 DEF SessionRecord, Q
    <2> HIDE DEF r
    <2>5. StaysSubscribed(r)
      BY <1>0, <1>2, <2>1, <2>4 DEF StaysSubscribed
    <2>6. Range(history) \subseteq Reached(s, r)
      BY <2>4 DEF Reached
    <2>7. r.tracked /\ stopping => r.cancelled
      BY <2>1, <2>4, Zenon
    <2> QED BY <2>2, <2>4, <2>5, <2>6, <2>7, HandlesInv, Zenon
  <1> QED BY <1>1, <1>2 DEF Subscribe

\* A console registers with the registry, or finds the service stopping.
LEMMA OpenConsoleInv ==
  ASSUME LiveInv, NEW s \in Socket, OpenConsole(s)
  PROVE  LiveInv'
  <1>1. CASE socket[s].kind = "console" /\ Handles(s, Tracked(s, "relay"))
    <2> DEFINE r == Tracked(s, "relay")
    <2>1. /\ r \in SessionRecord /\ r.pc = "relay" /\ r.kind = "console"
          /\ (r.tracked /\ stopping => r.cancelled)
      BY <1>1, TrackedRecord
    <2>2. Handles(s, r)
      BY <1>1
    <2> HIDE DEF r
    <2>3. StaysSubscribed(r)
      BY <2>1 DEF StaysSubscribed
    <2> QED BY <2>1, <2>2, <2>3, HandlesInv
  <1>2. CASE /\ socket[s].pc = "relay" /\ ~socket[s].cancelled
             /\ Handles(s, [socket[s] EXCEPT !.pc = "streams"])
    <2> DEFINE r == [socket[s] EXCEPT !.pc = "streams"]
    <2>1. /\ r \in SessionRecord /\ r.pc = "streams" /\ r.kind = socket[s].kind
          /\ r.tracked = socket[s].tracked
      BY PlaceRecord
    <2>2. socket[s].kind = "console"
      BY <1>2 DEF LiveInv, StaysSubscribed
    <2>3. Handles(s, r)
      BY <1>2
    <2> HIDE DEF r
    <2>4. StaysSubscribed(r)
      BY <2>1, <2>2 DEF StaysSubscribed
    <2>5. r.tracked => socket[s].tracked /\ ~socket[s].cancelled
      BY <1>2, <2>1, Zenon
    <2> QED BY <2>1, <2>2, <2>3, <2>4, <2>5, HandlesInv
  <1> QED BY <1>1, <1>2 DEF OpenConsole

\* So does the stream of the logs.
LEMMA OpenLogsInv ==
  ASSUME LiveInv, NEW s \in Socket, OpenLogs(s)
  PROVE  LiveInv'
  <1>1. CASE socket[s].kind = "logs" /\ Handles(s, Tracked(s, "streams"))
    <2> DEFINE r == Tracked(s, "streams")
    <2>1. /\ r \in SessionRecord /\ r.pc = "streams" /\ r.kind = "logs"
          /\ (r.tracked /\ stopping => r.cancelled)
      BY <1>1, TrackedRecord
    <2>2. Handles(s, r)
      BY <1>1
    <2> HIDE DEF r
    <2>3. StaysSubscribed(r)
      BY <2>1 DEF StaysSubscribed
    <2> QED BY <2>1, <2>2, <2>3, HandlesInv
  <1>2. CASE Handles(s, [socket[s] EXCEPT !.pc = "done"])
    <2> DEFINE r == [socket[s] EXCEPT !.pc = "done"]
    <2>1. /\ r \in SessionRecord /\ r.pc = "done"
          /\ r.tracked = socket[s].tracked /\ r.cancelled = socket[s].cancelled
      BY PlaceRecord
    <2>2. Handles(s, r)
      BY <1>2
    <2> HIDE DEF r
    <2>3. StaysSubscribed(r)
      BY <2>1 DEF StaysSubscribed
    <2>4. r.tracked => r.cancelled \/ (socket[s].tracked /\ ~socket[s].cancelled)
      BY <2>1, Zenon
    <2> QED BY <2>1, <2>2, <2>3, <2>4, HandlesInv
  <1> QED BY <1>1, <1>2 DEF OpenLogs

\* A handler that ends keeps its place in the registry until it unregisters.
LEMMA EndsInv ==
  ASSUME LiveInv, NEW s \in Socket, Leave(s) \/ RelayEnds(s)
  PROVE  LiveInv'
  <1>1. ASSUME NEW r \in SessionRecord, r.pc = "ends", r.tracked = socket[s].tracked,
               r.cancelled = socket[s].cancelled, Handles(s, r)
        PROVE  LiveInv'
    <2>1. StaysSubscribed(r) /\ r.pc # "streams"
      BY <1>1 DEF StaysSubscribed
    <2>2. r.tracked => r.cancelled \/ (socket[s].tracked /\ ~socket[s].cancelled)
      BY <1>1, Zenon
    <2> QED BY <1>1, <2>1, <2>2, HandlesInv
  <1>2. CASE Leave(s)
    <2> DEFINE r == [socket[s] EXCEPT !.pc = "ends", !.subscribed = FALSE]
    <2>1. /\ r \in SessionRecord /\ r.pc = "ends" /\ r.tracked = socket[s].tracked
          /\ r.cancelled = socket[s].cancelled
      BY PlaceRecord, Zenon
    <2>2. Handles(s, r)
      BY <1>2 DEF Leave
    <2> HIDE DEF r
    <2> QED BY <1>1, <2>1, <2>2, Zenon
  <1>3. CASE RelayEnds(s)
    <2> DEFINE r == [socket[s] EXCEPT !.pc = "ends"]
    <2>1. /\ r \in SessionRecord /\ r.pc = "ends" /\ r.tracked = socket[s].tracked
          /\ r.cancelled = socket[s].cancelled
      BY PlaceRecord
    <2>2. Handles(s, r)
      BY <1>3 DEF RelayEnds
    <2> HIDE DEF r
    <2> QED BY <1>1, <2>1, <2>2, Zenon
  <1> QED BY <1>2, <1>3

\* A session that ends is taken out of the registry.
LEMMA UnregisterInv ==
  ASSUME LiveInv, NEW s \in Socket, Unregister(s)
  PROVE  LiveInv'
  <1> DEFINE r == [NoSession EXCEPT !.pc = "done"]
  <1>1. r \in SessionRecord /\ ~r.tracked /\ r.pc = "done" /\ Handles(s, r)
    BY EndedRecord DEF Unregister
  <1> HIDE DEF r
  <1> QED BY <1>1, HandlesInv DEF StaysSubscribed

\* An event leaves the queue only for the client.
LEMMA StreamInv ==
  ASSUME LiveInv, NEW s \in Socket, Stream(s)
  PROVE  LiveInv'
  <1> DEFINE o == socket[s]
             r == [socket[s] EXCEPT !.queue = Tail(@), !.got = @ \cup {Head(socket[s].queue)}]
  <1>1. o \in SessionRecord /\ o.queue \in Seq(Nat) /\ o.queue # <<>> /\ o.got \in SUBSET Nat
        /\ StaysSubscribed(o) /\ o.pc = "streams"
    BY DEF Stream, LiveInv, LiveTypeOK, SessionRecord
  <1>2. Tail(o.queue) \in Seq(Nat) /\ Head(o.queue) \in Nat
        /\ Range(o.queue) = {Head(o.queue)} \cup Range(Tail(o.queue))
    BY <1>1, RangeTail
  <1>3. Handles(s, r)
    BY DEF Stream
  <1>4. /\ r \in SessionRecord /\ r.pc = o.pc /\ r.kind = o.kind /\ r.tracked = o.tracked
        /\ r.cancelled = o.cancelled /\ r.subscribed = o.subscribed
        /\ r.queue = Tail(o.queue) /\ r.got = o.got \cup {Head(o.queue)} /\ r.dropped = o.dropped
    <2> DEFINE q == Tail(o.queue)
               g == o.got \cup {Head(o.queue)}
               Q == Seq(Nat)
               G == SUBSET Nat
    <2>1. q \in Q /\ g \in G /\ r = [o EXCEPT !.queue = q, !.got = g]
      BY <1>1, <1>2
    <2>2. o \in [kind : {"none", "events", "console", "logs"},
                 pc : {"idle", "opens", "subscribing", "relay", "streams", "ends", "done"},
                 subscribed : BOOLEAN, queue : Q, got : G, tracked : BOOLEAN,
                 cancelled : BOOLEAN, dropped : G]
      BY <1>1 DEF SessionRecord
    <2>3. /\ [o EXCEPT !.queue = q, !.got = g].queue = q /\ [o EXCEPT !.queue = q, !.got = g].got = g
          /\ [o EXCEPT !.queue = q, !.got = g] \in
                [kind : {"none", "events", "console", "logs"},
                 pc : {"idle", "opens", "subscribing", "relay", "streams", "ends", "done"},
                 subscribed : BOOLEAN, queue : Q, got : G, tracked : BOOLEAN,
                 cancelled : BOOLEAN, dropped : G]
          /\ [o EXCEPT !.queue = q, !.got = g].pc = o.pc /\ [o EXCEPT !.queue = q, !.got = g].kind = o.kind
          /\ [o EXCEPT !.queue = q, !.got = g].tracked = o.tracked
          /\ [o EXCEPT !.queue = q, !.got = g].cancelled = o.cancelled
          /\ [o EXCEPT !.queue = q, !.got = g].subscribed = o.subscribed
          /\ [o EXCEPT !.queue = q, !.got = g].dropped = o.dropped
      <3> HIDE DEF q, g, Q, G, o
      <3> QED BY <2>1, <2>2
    <2> QED BY <2>1, <2>3, Zenon DEF SessionRecord
  <1> HIDE DEF r
  <1>5. StaysSubscribed(r)
    BY <1>1, <1>4, Zenon DEF StaysSubscribed
  <1>6. Reached(s, o) = Reached(s, r)
    BY <1>2, <1>4 DEF Reached
  <1>7. r.pc = "streams" /\ r.kind = "events" => Range(history) \subseteq Reached(s, r)
    BY <1>1, <1>4, <1>6 DEF LiveInv, NothingIsMissed, Reached
  <1>8. r.tracked => r.cancelled \/ (socket[s].tracked /\ ~socket[s].cancelled)
    BY <1>4, Zenon
  <1> QED BY <1>3, <1>4, <1>5, <1>7, <1>8, HandlesInv

\* A step of the bus or of the shutdown that only adds to the loop: an event that leaves
\* the hands of its publisher is on the loop.
LEMMA BusInv ==
  ASSUME LiveInv, LiveTypeOK', UNCHANGED socket, Range(loop) \subseteq Range(loop'),
         stopping' => stopping \/ \E c \in Range(loop') : c.to = "all",
         \A s \in Socket : socket[s].subscribed =>
            \A e \in Range(history') :
               \/ e \in Range(publisher')
               \/ /\ e \in Range(history)
                  /\ e \in Range(publisher) => \E c \in Range(loop') : c.to = s /\ c.event = e
  PROVE  LiveInv'
  <1>1. \A s \in Socket : StaysSubscribed(socket[s])'
    BY DEF LiveInv, StaysSubscribed
  <1>2. NothingIsMissed'
    <2> SUFFICES ASSUME NEW s \in Socket, socket[s].pc = "streams", socket[s].kind = "events",
                        NEW e \in Range(history')
                 PROVE  e \in socket[s].got \cup Range(socket[s].queue) \cup socket[s].dropped
                                 \cup Pending(s)' \cup Range(publisher')
      BY DEF NothingIsMissed
    <2>1. socket[s].subscribed
      BY DEF LiveInv, StaysSubscribed
    <2>2. Pending(s)' = {c.event : c \in {d \in Range(loop') : d.to = s}}
      BY DEF Pending, Range
    <2>3. Pending(s) = {c.event : c \in {d \in Range(loop) : d.to = s}}
      BY DEF Pending, Range
    <2>4. CASE e \in Range(publisher')
      BY <2>4
    <2>5. CASE e \notin Range(publisher')
      <3>1. /\ e \in Range(history)
            /\ e \in Range(publisher) => \E c \in Range(loop') : c.to = s /\ c.event = e
        BY <2>1, <2>5
      <3>2. e \in socket[s].got \cup Range(socket[s].queue) \cup socket[s].dropped
                    \cup Pending(s) \cup Range(publisher)
        BY <3>1 DEF LiveInv, NothingIsMissed
      <3> QED BY <2>2, <2>3, <3>1, <3>2
    <2> QED BY <2>4, <2>5
  <1>3. ShutdownReachesAll'
    <2>1. Told => \E c \in Range(loop') : c.to = "all"
      BY ToldCalls DEF Calls
    <2>2. (\E c \in Range(loop') : c.to = "all") => Told'
      BY DEF Told, Range
    <2> QED BY <2>1, <2>2 DEF LiveInv, ShutdownReachesAll, Told
  <1> QED BY <1>1, <1>2, <1>3 DEF LiveInv

\* publish, first half: the event is in the hands of its publisher.
LEMMA PublishInv ==
  ASSUME LiveInv, NEW p \in Publisher, Publish(p)
  PROVE  LiveInv'
  <1> DEFINE h == Append(history, published')
  <1>1. /\ published' = published + 1 /\ publisher[p] = 0
        /\ publisher' = [publisher EXCEPT ![p] = published']
        /\ history' = IF Len(h) > Buffer THEN Tail(h) ELSE h
        /\ UNCHANGED <<loop, socket, stopping>>
    BY DEF Publish
  <1>2. /\ history \in Seq(Nat \ {0}) /\ published' \in Nat \ {0} /\ publisher \in [Publisher -> Nat]
    BY <1>1 DEF LiveInv, LiveTypeOK
  <1>3. h \in Seq(Nat \ {0}) /\ Range(h) = Range(history) \cup {published'} /\ h # <<>>
    <2>1. h \in Seq(Nat \ {0}) /\ Range(h) = Range(history) \cup {published'}
      <3> DEFINE S == Nat \ {0}
                 e == published'
      <3>1. history \in Seq(S) /\ e \in S
        BY <1>2
      <3> HIDE DEF S, e
      <3>2. Append(history, e) \in Seq(S) /\ Range(Append(history, e)) = Range(history) \cup {e}
        BY <3>1, RangeAppend
      <3> QED BY <3>2 DEF S, e
    <2>2. h # <<>>
      <3>1. Len(h) = Len(history) + 1 /\ Len(history) \in Nat
        BY <1>2
      <3> QED BY <3>1
    <2> QED BY <2>1, <2>2
  <1> HIDE DEF h
  <1>4. Tail(h) \in Seq(Nat \ {0}) /\ Range(Tail(h)) \subseteq Range(h)
    BY <1>3, RangeTail
  <1>5. history' \in Seq(Nat \ {0}) /\ Range(history') \subseteq Range(history) \cup {published'}
    BY <1>1, <1>3, <1>4
  <1>6. /\ publisher' \in [Publisher -> Nat] /\ published' \in Range(publisher')
        /\ Range(publisher) \ {0} \subseteq Range(publisher')
    BY <1>1, <1>2 DEF Range
  <1>7. 0 \notin Range(history')
    BY <1>5 DEF Range
  <1>8. LiveTypeOK'
    BY <1>1, <1>2, <1>5, <1>6 DEF LiveInv, LiveTypeOK
  <1>9. \A e \in Range(history') : e \in Range(publisher') \/ (e \in Range(history) /\ e \notin Range(publisher))
    BY <1>5, <1>6, <1>7
  <1> QED BY <1>1, <1>8, <1>9, BusInv

\* publish, second half: the event goes to the loop for every subscriber.
LEMMA ScheduleInv ==
  ASSUME LiveInv, NEW p \in Publisher, Schedule(p)
  PROVE  LiveInv'
  <1> DEFINE new == {[to |-> s, event |-> publisher[p]] : s \in Subscribed}
  <1>1. /\ publisher[p] # 0 /\ publisher' = [publisher EXCEPT ![p] = 0]
        /\ loop' = loop \o SetToSeq(new)
        /\ UNCHANGED <<history, published, socket, stopping>>
    BY DEF Schedule
  <1>2. /\ publisher \in [Publisher -> Nat] /\ loop \in Seq(Callback) /\ history \in Seq(Nat \ {0})
    BY DEF LiveInv, LiveTypeOK
  <1>3. new \in SUBSET Callback
    BY <1>2 DEF Callback, Subscribed
  <1>4. IsFiniteSet(new)
    <2> DEFINE f == [s \in Subscribed |-> [to |-> s, event |-> publisher[p]]]
    <2>1. Subscribed \subseteq Socket /\ IsFiniteSet(Subscribed)
      <3>1. Subscribed \subseteq Socket
        BY DEF Subscribed
      <3> QED BY <3>1, FS_Subset, SessionsAssumption
    <2>2. f \in Surjection(Subscribed, new)
      BY DEF Surjection
    <2> QED BY <2>1, <2>2, FS_Surjection
  <1> HIDE DEF new
  <1>5. SetToSeq(new) \in Seq(Callback) /\ Range(SetToSeq(new)) = new
    <2>1. SetToSeq(new) \in Seq(new) /\ Range(SetToSeq(new)) = new
      BY <1>4, ListsAll
    <2> QED BY <1>3, <2>1
  <1>6. loop' \in Seq(Callback) /\ Range(loop') = Range(loop) \cup new
    BY <1>1, <1>2, <1>5, RangeConcat
  <1>7. ASSUME NEW s \in Socket, socket[s].subscribed, NEW e \in Range(history')
        PROVE  \/ e \in Range(publisher')
               \/ /\ e \in Range(history)
                  /\ e \in Range(publisher) => \E c \in Range(loop') : c.to = s /\ c.event = e
    <2>1. e \in Range(history)
      BY <1>1
    <2>2. CASE e = publisher[p]
      <3> DEFINE c == [to |-> s, event |-> publisher[p]]
      <3>1. c \in new /\ c.to = s /\ c.event = e
        BY <1>7, <2>2 DEF new, Subscribed
      <3> QED BY <3>1, <2>1, <1>6
    <2>3. CASE e # publisher[p] /\ e \in Range(publisher)
      BY <2>3, <1>1, <1>2 DEF Range
    <2> QED BY <2>1, <2>2, <2>3
  <1>8. LiveTypeOK'
    BY <1>1, <1>2, <1>6 DEF LiveInv, LiveTypeOK
  <1> QED BY <1>1, <1>6, <1>7, <1>8, BusInv

\* The callback that cancels is on the loop before the shutdown is seen as requested.
LEMMA CancelScheduled ==
  ASSUME LiveInv, loop' = Append(loop, [to |-> "all", event |-> 0])
  PROVE  /\ loop' \in Seq(Callback) /\ Range(loop) \subseteq Range(loop')
         /\ \E c \in Range(loop') : c.to = "all"
  <1> DEFINE c == [to |-> "all", event |-> 0]
  <1>1. c \in Callback /\ c.to = "all"
    BY DEF Callback
  <1>2. loop \in Seq(Callback)
    BY DEF LiveInv, LiveTypeOK
  <1> HIDE DEF c
  <1>3. loop' = Append(loop, c)
    BY DEF c
  <1> QED BY <1>1, <1>2, <1>3, RangeAppend

\* request_shutdown marks the registry, and the loop drains it.
LEMMA ShutdownInv ==
  ASSUME LiveInv, RequestShutdown \/ Drain
  PROVE  LiveInv'
  <1>1. UNCHANGED <<history, published, publisher, socket>> /\ stopping' \in BOOLEAN
        /\ (stopping' => stopping \/ RequestShutdown)
        /\ (loop' = Append(loop, [to |-> "all", event |-> 0]) \/ (loop' = loop /\ ~RequestShutdown))
    BY DEF RequestShutdown, Drain, LiveInv, LiveTypeOK
  <1>2. loop' \in Seq(Callback) /\ Range(loop) \subseteq Range(loop')
    BY <1>1, CancelScheduled DEF LiveInv, LiveTypeOK
  <1>3. RequestShutdown => \E c \in Range(loop') : c.to = "all"
    BY <1>1, CancelScheduled
  <1>4. LiveTypeOK'
    BY <1>1, <1>2 DEF LiveInv, LiveTypeOK
  <1>5. ASSUME NEW s \in Socket, NEW e \in Range(history')
        PROVE  \/ e \in Range(publisher')
               \/ /\ e \in Range(history)
                  /\ e \in Range(publisher) => \E c \in Range(loop') : c.to = s /\ c.event = e
    BY <1>1
  <1> QED BY <1>1, <1>2, <1>3, <1>4, <1>5, BusInv

\* _try_put: what the loop held for a session is in its queue or dropped.
LEMMA PutRecord ==
  ASSUME LiveInv, NEW s \in Socket, NEW e \in Nat, Put(s, e)
  PROVE  /\ socket' \in [Socket -> SessionRecord]
         /\ \A q \in Socket : /\ socket'[q].pc = socket[q].pc /\ socket'[q].kind = socket[q].kind
                              /\ socket'[q].subscribed = socket[q].subscribed
                              /\ socket'[q].tracked = socket[q].tracked
                              /\ socket'[q].cancelled = socket[q].cancelled
                              /\ socket'[q].got = socket[q].got
                              /\ Range(socket[q].queue) \subseteq Range(socket'[q].queue)
                              /\ socket[q].dropped \subseteq socket'[q].dropped
         /\ e \in Range(socket'[s].queue) \cup socket'[s].dropped
  <1> DEFINE o == socket[s]
             Q == Seq(Nat)
             G == SUBSET Nat
             q == Append(o.queue, e)
             d == o.dropped \cup {e}
  <1>1. o \in SessionRecord /\ socket \in [Socket -> SessionRecord]
    BY DEF LiveInv, LiveTypeOK
  <1>2. o.queue \in Q /\ o.dropped \in G
    BY <1>1 DEF SessionRecord
  <1>3. q \in Q /\ Range(q) = Range(o.queue) \cup {e}
    BY <1>2, RangeAppend
  <1>4. d \in G
    BY <1>2
  <1>5. o \in [kind : {"none", "events", "console", "logs"},
               pc : {"idle", "opens", "subscribing", "relay", "streams", "ends", "done"},
               subscribed : BOOLEAN, queue : Q, got : G, tracked : BOOLEAN,
               cancelled : BOOLEAN, dropped : G]
    BY <1>1 DEF SessionRecord
  <1>6. CASE socket' = [socket EXCEPT ![s].queue = q]
    <2> DEFINE r == [o EXCEPT !.queue = q]
    <2>1. /\ r \in [kind : {"none", "events", "console", "logs"},
               pc : {"idle", "opens", "subscribing", "relay", "streams", "ends", "done"},
               subscribed : BOOLEAN, queue : Q, got : G, tracked : BOOLEAN,
               cancelled : BOOLEAN, dropped : G]
          /\ r.queue = q /\ r.pc = o.pc /\ r.kind = o.kind /\ r.subscribed = o.subscribed
          /\ r.tracked = o.tracked /\ r.cancelled = o.cancelled /\ r.got = o.got
          /\ r.dropped = o.dropped
      <3> HIDE DEF o, Q, G, q
      <3> QED BY <1>3, <1>5
    <2>2. r \in SessionRecord
      BY <2>1, Zenon DEF SessionRecord
    <2>3. socket' = [socket EXCEPT ![s] = r]
      BY <1>6
    <2> HIDE DEF r, q
    <2>4. socket' \in [Socket -> SessionRecord] /\ socket'[s] = r
          /\ \A x \in Socket : x # s => socket'[x] = socket[x]
      BY <1>1, <2>2, <2>3
    <2>5. /\ r.queue = q /\ r.pc = o.pc /\ r.kind = o.kind /\ r.subscribed = o.subscribed
          /\ r.tracked = o.tracked /\ r.cancelled = o.cancelled /\ r.got = o.got
          /\ r.dropped = o.dropped
      BY <2>1, Zenon
    <2> QED BY <1>3, <2>4, <2>5
  <1>7. CASE socket' = [socket EXCEPT ![s].dropped = d]
    <2> DEFINE r == [o EXCEPT !.dropped = d]
    <2>1. /\ r \in [kind : {"none", "events", "console", "logs"},
               pc : {"idle", "opens", "subscribing", "relay", "streams", "ends", "done"},
               subscribed : BOOLEAN, queue : Q, got : G, tracked : BOOLEAN,
               cancelled : BOOLEAN, dropped : G]
          /\ r.dropped = d /\ r.pc = o.pc /\ r.kind = o.kind /\ r.subscribed = o.subscribed
          /\ r.tracked = o.tracked /\ r.cancelled = o.cancelled /\ r.got = o.got
          /\ r.queue = o.queue
      <3> HIDE DEF o, Q, G, d
      <3> QED BY <1>4, <1>5
    <2>2. r \in SessionRecord
      BY <2>1, Zenon DEF SessionRecord
    <2>3. socket' = [socket EXCEPT ![s] = r]
      BY <1>7
    <2> HIDE DEF r
    <2>4. socket' \in [Socket -> SessionRecord] /\ socket'[s] = r
          /\ \A x \in Socket : x # s => socket'[x] = socket[x]
      BY <1>1, <2>2, <2>3
    <2>5. /\ r.dropped = d /\ r.pc = o.pc /\ r.kind = o.kind /\ r.subscribed = o.subscribed
          /\ r.tracked = o.tracked /\ r.cancelled = o.cancelled /\ r.got = o.got
          /\ r.queue = o.queue
      BY <2>1, Zenon
    <2> QED BY <2>4, <2>5
  <1> QED BY <1>6, <1>7 DEF Put

\* _cancel_active changes the flags of the registered sockets and nothing else.
LEMMA CancelRecord ==
  ASSUME LiveInv, CancelActive
  PROVE  /\ socket' \in [Socket -> SessionRecord]
         /\ \A q \in Socket : /\ socket'[q].pc = socket[q].pc /\ socket'[q].kind = socket[q].kind
                              /\ socket'[q].subscribed = socket[q].subscribed
                              /\ socket'[q].tracked => socket'[q].cancelled
                              /\ socket'[q].got = socket[q].got
                              /\ socket'[q].queue = socket[q].queue
                              /\ socket'[q].dropped = socket[q].dropped
  <1>1. ASSUME NEW r \in SessionRecord, NEW b \in BOOLEAN
        PROVE  /\ [r EXCEPT !.cancelled = b] \in SessionRecord
               /\ [r EXCEPT !.cancelled = b].pc = r.pc /\ [r EXCEPT !.cancelled = b].kind = r.kind
               /\ [r EXCEPT !.cancelled = b].subscribed = r.subscribed
               /\ [r EXCEPT !.cancelled = b].cancelled = b
               /\ [r EXCEPT !.cancelled = b].got = r.got /\ [r EXCEPT !.cancelled = b].queue = r.queue
               /\ [r EXCEPT !.cancelled = b].dropped = r.dropped
    BY DEF SessionRecord
  <1>2. ASSUME NEW q \in Socket
        PROVE  /\ socket'[q] \in SessionRecord
               /\ socket'[q].pc = socket[q].pc /\ socket'[q].kind = socket[q].kind
               /\ socket'[q].subscribed = socket[q].subscribed
               /\ socket'[q].tracked => socket'[q].cancelled
               /\ socket'[q].got = socket[q].got
               /\ socket'[q].queue = socket[q].queue
               /\ socket'[q].dropped = socket[q].dropped
    <2>1. socket[q] \in SessionRecord
      BY DEF LiveInv, LiveTypeOK
    <2>2. CASE socket[q].tracked
      <3>1. socket'[q] = [socket[q] EXCEPT !.cancelled = TRUE]
        BY <2>2 DEF CancelActive
      <3>2. TRUE \in BOOLEAN
        OBVIOUS
      <3> DEFINE rec == [socket[q] EXCEPT !.cancelled = TRUE]
      <3>3. /\ rec \in SessionRecord /\ rec.pc = socket[q].pc /\ rec.kind = socket[q].kind
            /\ rec.subscribed = socket[q].subscribed /\ rec.cancelled
            /\ rec.got = socket[q].got /\ rec.queue = socket[q].queue
            /\ rec.dropped = socket[q].dropped
        BY <2>1, <3>2, <1>1
      <3>4. socket'[q] = rec
        BY <3>1
      <3> HIDE DEF rec
      <3> QED BY <3>3, <3>4
    <2>3. CASE ~socket[q].tracked
      <3>1. socket'[q] = socket[q]
        BY <2>3 DEF CancelActive
      <3> QED BY <3>1, <2>1, <2>3, Zenon
    <2> QED BY <2>2, <2>3
  <1>3. socket' \in [Socket -> SessionRecord]
    BY <1>2 DEF CancelActive
  <1> QED BY <1>2, <1>3, Zenon

\* The loop runs its callbacks in order.
LEMMA RunCallbackInv ==
  ASSUME LiveInv, RunCallback
  PROVE  LiveInv'
  <1> DEFINE c == Head(loop)
  <1>1. /\ loop # <<>> /\ loop' = Tail(loop) /\ UNCHANGED <<history, published, publisher, stopping>>
        /\ IF c.to = "all" THEN CancelActive ELSE Put(c.to, c.event)
    BY DEF RunCallback
  <1>2. loop \in Seq(Callback)
    BY DEF LiveInv, LiveTypeOK
  <1>3. loop' \in Seq(Callback) /\ c \in Callback /\ Range(loop) = {c} \cup Range(loop')
    BY <1>1, <1>2, RangeTail
  <1> HIDE DEF c
  <1>4. /\ socket' \in [Socket -> SessionRecord]
        /\ \A q \in Socket : /\ socket'[q].pc = socket[q].pc /\ socket'[q].kind = socket[q].kind
                             /\ socket'[q].subscribed = socket[q].subscribed
                             /\ socket'[q].got = socket[q].got
                             /\ Range(socket[q].queue) \subseteq Range(socket'[q].queue)
                             /\ socket[q].dropped \subseteq socket'[q].dropped
                             /\ c.to = q => c.event \in Range(socket'[q].queue) \cup socket'[q].dropped
                             /\ c.to = "all" => (socket'[q].tracked => socket'[q].cancelled)
                             /\ c.to # "all" => socket'[q].tracked = socket[q].tracked
                                                /\ socket'[q].cancelled = socket[q].cancelled
    <2>1. CASE c.to = "all"
      BY <2>1, <1>1, CancelRecord, SessionsAssumption
    <2>2. CASE c.to # "all"
      <3>1. c.to \in Socket /\ c.event \in Nat /\ Put(c.to, c.event)
        BY <2>2, <1>1, <1>3 DEF Callback
      <3> QED BY <3>1, <2>2, PutRecord
    <2> QED BY <2>1, <2>2
  <1>5. LiveTypeOK'
    BY <1>1, <1>3, <1>4 DEF LiveInv, LiveTypeOK
  <1>6. \A q \in Socket : StaysSubscribed(socket[q])'
    <2> SUFFICES ASSUME NEW q \in Socket PROVE StaysSubscribed(socket[q])'
      OBVIOUS
    <2>1. StaysSubscribed(socket[q])
      BY DEF LiveInv
    <2>2. socket'[q].pc = socket[q].pc /\ socket'[q].kind = socket[q].kind
          /\ socket'[q].subscribed = socket[q].subscribed
      BY <1>4, Zenon
    <2> QED BY <2>1, <2>2, Zenon DEF StaysSubscribed
  <1>7. NothingIsMissed'
    <2> SUFFICES ASSUME NEW s \in Socket, socket'[s].pc = "streams", socket'[s].kind = "events",
                        NEW e \in Range(history')
                 PROVE  e \in socket'[s].got \cup Range(socket'[s].queue) \cup socket'[s].dropped
                                 \cup Pending(s)' \cup Range(publisher')
      BY DEF NothingIsMissed
    <2>1. Pending(s)' = {x.event : x \in {d \in Range(loop') : d.to = s}}
      BY DEF Pending, Range
    <2>2. Pending(s) = {x.event : x \in {d \in Range(loop) : d.to = s}}
      BY DEF Pending, Range
    <2>3. e \in socket[s].got \cup Range(socket[s].queue) \cup socket[s].dropped
                    \cup Pending(s) \cup Range(publisher)
      BY <1>1, <1>4 DEF LiveInv, NothingIsMissed
    <2>4. CASE e \in Pending(s)
      <3>1. PICK x \in Range(loop) : x.to = s /\ x.event = e
        BY <2>2, <2>4
      <3>2. CASE x = c
        BY <3>1, <3>2, <1>4
      <3>3. CASE x # c
        BY <3>1, <3>3, <1>3, <2>1
      <3> QED BY <3>2, <3>3
    <2>5. CASE e \notin Pending(s)
      BY <2>3, <2>5, <1>1, <1>4
    <2> QED BY <2>4, <2>5
  <1>8. ShutdownReachesAll'
    <2> SUFFICES ASSUME stopping', ~Told', NEW s \in Socket, socket'[s].tracked
                 PROVE  socket'[s].cancelled
      BY DEF ShutdownReachesAll, Told
    <2>1. CASE c.to = "all"
      BY <2>1, <1>4
    <2>2. CASE c.to # "all"
      <3>1. ~\E x \in Range(loop') : x.to = "all"
        BY DEF Told, Range
      <3>2. ~Told
        BY <3>1, <2>2, <1>3, ToldCalls DEF Calls
      <3>3. socket'[s].tracked = socket[s].tracked /\ socket'[s].cancelled = socket[s].cancelled
        BY <2>2, <1>4, Zenon
      <3>4. socket[s].tracked /\ stopping
        BY <1>1, <3>3, Zenon
      <3>5. socket[s].cancelled
        BY <3>2, <3>4 DEF LiveInv, ShutdownReachesAll, Told
      <3> QED BY <3>3, <3>5, Zenon
    <2> QED BY <2>1, <2>2
  <1> QED BY <1>5, <1>6, <1>7, <1>8 DEF LiveInv

\* Nobody listens and nothing was published.
LEMMA LiveInvInit == LiveInit => LiveInv
  <1> SUFFICES ASSUME LiveInit PROVE LiveInv
    OBVIOUS
  <1>1. NoSession \in SessionRecord /\ ~NoSession.tracked /\ NoSession.pc = "idle"
    BY EndedRecord
  <1>2. /\ socket \in [Socket -> SessionRecord]
        /\ \A s \in Socket : ~socket[s].tracked /\ socket[s].pc = "idle"
    BY <1>1 DEF LiveInit
  <1>3. LiveTypeOK
    <2>1. history = <<>> /\ loop = <<>> /\ published = 0 /\ stopping = FALSE
          /\ publisher = [p \in Publisher |-> 0]
      BY DEF LiveInit
    <2>2. history \in Seq(Nat \ {0}) /\ loop \in Seq(Callback)
      BY <2>1
    <2>3. publisher \in [Publisher -> Nat] /\ published \in Nat
      BY <2>1
    <2>4. stopping \in BOOLEAN
      BY <2>1
    <2> QED BY <1>2, <2>2, <2>3, <2>4 DEF LiveTypeOK
  <1>4. \A s \in Socket : StaysSubscribed(socket[s])
    BY <1>2 DEF StaysSubscribed
  <1>5. NothingIsMissed
    BY <1>2 DEF NothingIsMissed
  <1>6. ShutdownReachesAll
    BY <1>2 DEF ShutdownReachesAll
  <1> QED BY <1>3, <1>4, <1>5, <1>6 DEF LiveInv

\* Every step keeps the invariant of the live sessions.
LEMMA LiveInvNext ==
  ASSUME LiveInv, [LiveNext]_liveVars
  PROVE  LiveInv'
  <1>1. CASE UNCHANGED liveVars
    <2>1. UNCHANGED <<history, published, publisher, loop, socket, stopping>>
      BY <1>1 DEF liveVars
    <2>2. LiveTypeOK' /\ \A s \in Socket : StaysSubscribed(socket[s])'
      BY <2>1 DEF LiveInv, LiveTypeOK, StaysSubscribed
    <2>3. NothingIsMissed' /\ ShutdownReachesAll'
      BY <2>1 DEF LiveInv, NothingIsMissed, Pending, ShutdownReachesAll
    <2> QED BY <2>2, <2>3 DEF LiveInv
  <1> QED
    BY <1>1, PublishInv, ScheduleInv, OpenInv, SubscribeInv, OpenConsoleInv, OpenLogsInv, StreamInv,
       EndsInv, UnregisterInv, ShutdownInv, RunCallbackInv DEF LiveNext

\* The invariant holds in every reachable state.
LEMMA LiveInvariant == LiveSpec => []LiveInv
  BY LiveInvInit, LiveInvNext, PTL DEF LiveSpec

\* events_bus.py: a session of the events that is subscribed and keeps up has got, or has
\* waiting in its queue or in the loop, every event the bus remembers, through the two halves
\* of subscribe and publishers in threads.
THEOREM NothingIsEverMissed == LiveSpec => []NothingIsMissed
  <1>1. LiveInv => NothingIsMissed
    BY DEF LiveInv
  <1> QED BY <1>1, LiveInvariant, PTL

\* shutdown_registry.py: once the service stops, every session that is tracked has been
\* cancelled or will be by a call that waits in the loop, those that register later too.
THEOREM ShutdownAlwaysReachesAll == LiveSpec => []ShutdownReachesAll
  <1>1. LiveInv => ShutdownReachesAll
    BY DEF LiveInv
  <1> QED BY <1>1, LiveInvariant, PTL
=============================================================================
