------------------------- MODULE ConsoleRelayProofs -------------------------
(***************************************************************************)
(* Proofs about ConsoleRelay, for every number of clients and brokers, any *)
(* size of the history and of the queues and any amount of output: one     *)
(* console process at a time, and output without holes.                    *)
(***************************************************************************)
EXTENDS ConsoleRelay, SequenceTheorems, TLAPS

BrokerRecord ==
    [state : {"none", "open", "closed", "killed", "gone"}, wait : {"none", "polls", "opens"},
     up : BOOLEAN, timer : BOOLEAN, firing : BOOLEAN, history : Seq(Nat)]

ClientRecord ==
    [pc : {"idle", "lookup", "logs", "attach", "attached", "done"}, broker : Broker \cup {"none"},
     sub : BOOLEAN, open : BOOLEAN, queue : Seq(Nat), got : Seq(Nat)]

RelayTypeOK ==
    /\ registry \in Broker \cup {"none"}
    /\ broker \in [Broker -> BrokerRecord]
    /\ client \in [ConsoleClient -> ClientRecord]
    /\ printed \in Nat

\* A broker that has not finished its cleanup is the one of the table, and only a broker
\* that has not yet ended its process holds one.
BrokerRegistered(b) ==
    /\ broker[b].state \in {"open", "closed", "killed"} => registry = b
    /\ broker[b].up => broker[b].state \in {"open", "closed"}

\* s is a run of consecutive chunks; it ends with chunk n, if there is any.
Run(s) == \A i \in 1..(Len(s) - 1) : s[i + 1] = s[i] + 1
EndsWith(s, n) == s # <<>> => s[Len(s)] = n

HistoryCurrent(b) ==
    broker[b].state = "open" => Run(broker[b].history) /\ EndsWith(broker[b].history, printed)

Seen(c) == client[c].got \o client[c].queue

ClientServed(c) ==
    /\ client[c].pc \in {"idle", "lookup", "attach"} =>
         ~client[c].sub /\ client[c].got = <<>> /\ client[c].queue = <<>>
    /\ client[c].pc \in {"attach", "attached"} => client[c].broker \in Broker
    /\ client[c].sub => /\ client[c].broker \in Broker
                        /\ broker[client[c].broker].state = "open"
                        /\ EndsWith(Seen(c), printed)
    /\ Run(Seen(c))

RelayInv ==
    /\ RelayTypeOK
    /\ \A b \in Broker : BrokerRegistered(b) /\ HistoryCurrent(b)
    /\ \A c \in ConsoleClient : ClientServed(c)

-----------------------------------------------------------------------------
(* Runs of chunks.                                                         *)

\* The next chunk extends a run.
LEMMA RunGrows ==
    ASSUME NEW s \in Seq(Nat), NEW n \in Nat, Run(s), EndsWith(s, n)
    PROVE  /\ Append(s, n + 1) \in Seq(Nat)
           /\ Run(Append(s, n + 1)) /\ EndsWith(Append(s, n + 1), n + 1)
<1> DEFINE t == Append(s, n + 1)
<1>1. t \in Seq(Nat) /\ Len(t) = Len(s) + 1 /\ t[Len(s) + 1] = n + 1
      /\ \A i \in 1..Len(s) : t[i] = s[i]
    OBVIOUS
<1>2. s # <<>> => s[Len(s)] = n
    BY DEF EndsWith
<1>3. Run(t)
    BY <1>1, <1>2 DEF Run
<1> QED BY <1>1, <1>3 DEF EndsWith

\* The oldest chunk may go.
LEMMA RunShrinks ==
    ASSUME NEW s \in Seq(Nat), s # <<>>, NEW n, Run(s), EndsWith(s, n)
    PROVE  Tail(s) \in Seq(Nat) /\ Run(Tail(s)) /\ EndsWith(Tail(s), n)
<1>1. /\ Tail(s) \in Seq(Nat) /\ Len(Tail(s)) = Len(s) - 1
      /\ \A i \in 1..(Len(s) - 1) : Tail(s)[i] = s[i + 1]
    OBVIOUS
<1>2. Run(Tail(s))
    BY <1>1 DEF Run
<1>3. EndsWith(Tail(s), n)
    BY <1>1 DEF EndsWith
<1> QED BY <1>1, <1>2, <1>3

\* What the history keeps of a run is a run with the same end.
LEMMA RecentRun ==
    ASSUME NEW s \in Seq(Nat), NEW n, Run(s), EndsWith(s, n)
    PROVE  Recent(s) \in Seq(Nat) /\ Run(Recent(s)) /\ EndsWith(Recent(s), n)
<1>1. Len(s) > HistoryMax => s # <<>>
    BY RelayAssumption
<1> QED BY <1>1, RunShrinks DEF Recent

\* Sending moves a chunk from the queue to what the client got.
LEMMA SendKeepsSeen ==
    ASSUME NEW g \in Seq(Nat), NEW q \in Seq(Nat), q # <<>>
    PROVE  /\ Append(g, Head(q)) \in Seq(Nat) /\ Tail(q) \in Seq(Nat)
           /\ Append(g, Head(q)) \o Tail(q) = g \o q
<1> DEFINE l == Append(g, Head(q)) \o Tail(q)
           r == g \o q
<1>1. Append(g, Head(q)) \in Seq(Nat) /\ Tail(q) \in Seq(Nat) /\ l \in Seq(Nat) /\ r \in Seq(Nat)
    OBVIOUS
<1>2. Len(l) = Len(r)
    OBVIOUS
<1>3. ASSUME NEW i \in 1..Len(l) PROVE l[i] = r[i]
    <2>1. CASE i <= Len(g)
        BY <2>1
    <2>2. CASE i = Len(g) + 1
        BY <2>2
    <2>3. CASE i > Len(g) + 1
        BY <2>3
    <2> QED BY <2>1, <2>2, <2>3
<1> HIDE DEF l, r
<1>4. l = r
    BY <1>1, <1>2, <1>3, SeqEqual
<1> QED BY <1>1, <1>4 DEF l, r

\* A chunk that is queued is seen last.
LEMMA QueuedIsSeen ==
    ASSUME NEW g \in Seq(Nat), NEW q \in Seq(Nat), NEW n \in Nat
    PROVE  /\ Append(q, n) \in Seq(Nat)
           /\ g \o Append(q, n) = Append(g \o q, n)
OBVIOUS

\* A client that joins has seen exactly the history.
LEMMA JoinsWithHistory ==
    ASSUME NEW h \in Seq(Nat)
    PROVE  <<>> \o h = h
OBVIOUS

-----------------------------------------------------------------------------
(* What the steps leave alone.                                             *)

\* A client whose record stays is served as before, while nothing is printed and its
\* broker stays open.
LEMMA ClientKept ==
    ASSUME NEW c \in ConsoleClient, ClientServed(c), client'[c] = client[c], printed' = printed,
           client[c].sub => broker'[client[c].broker].state = "open"
    PROVE  ClientServed(c)'
BY DEF ClientServed, Seen

\* A broker that keeps its state and its history, and starts no process.
LEMMA BrokerKept ==
    ASSUME NEW b \in Broker, BrokerRegistered(b), HistoryCurrent(b),
           broker'[b].state = broker[b].state, broker'[b].history = broker[b].history,
           broker'[b].up => broker[b].up, printed' = printed, registry' = registry
    PROVE  BrokerRegistered(b)' /\ HistoryCurrent(b)'
BY DEF BrokerRegistered, HistoryCurrent

\* The first half of close() keeps the invariant.
LEMMA ClosedKeeps ==
    ASSUME RelayInv, NEW b \in Broker, broker[b].state = "open",
           NEW record \in BrokerRecord, record.history = broker[b].history,
           Closed(b, record), UNCHANGED <<registry, printed>>
    PROVE  RelayInv'
<1>1. RelayTypeOK /\ (\A x \in Broker : BrokerRegistered(x) /\ HistoryCurrent(x))
      /\ (\A c \in ConsoleClient : ClientServed(c))
    BY DEF RelayInv
<1>2. /\ broker'[b].state = "closed" /\ broker'[b].up = record.up
      /\ broker'[b].history = broker[b].history /\ broker'[b] \in BrokerRecord
      /\ \A x \in Broker \ {b} : broker'[x] = broker[x]
      /\ broker' \in [Broker -> BrokerRecord]
    BY <1>1 DEF Closed, RelayTypeOK, BrokerRecord
<1>3. /\ client' \in [ConsoleClient -> ClientRecord]
      /\ \A c \in Subscribers(b) :
           /\ client'[c].pc = client[c].pc /\ client'[c].broker = client[c].broker
           /\ client'[c].got = client[c].got /\ client'[c].queue = client[c].queue
           /\ ~client'[c].sub
      /\ \A c \in ConsoleClient \ Subscribers(b) : client'[c] = client[c]
    <2>1. ASSUME NEW c \in ConsoleClient
          PROVE  /\ [client[c] EXCEPT !.sub = FALSE, !.open = FALSE] \in ClientRecord
                 /\ [client[c] EXCEPT !.sub = FALSE, !.open = FALSE].pc = client[c].pc
                 /\ [client[c] EXCEPT !.sub = FALSE, !.open = FALSE].broker = client[c].broker
                 /\ [client[c] EXCEPT !.sub = FALSE, !.open = FALSE].got = client[c].got
                 /\ [client[c] EXCEPT !.sub = FALSE, !.open = FALSE].queue = client[c].queue
                 /\ ~[client[c] EXCEPT !.sub = FALSE, !.open = FALSE].sub
        BY <1>1 DEF RelayTypeOK, ClientRecord
    <2>2. client' = [c \in ConsoleClient |-> IF c \in Subscribers(b)
                        THEN [client[c] EXCEPT !.sub = FALSE, !.open = FALSE] ELSE client[c]]
        BY DEF Closed
    <2>3. Subscribers(b) \subseteq ConsoleClient /\ client \in [ConsoleClient -> ClientRecord]
        BY <1>1 DEF RelayTypeOK, Subscribers
    <2>4. ASSUME NEW c \in Subscribers(b)
          PROVE  client'[c] = [client[c] EXCEPT !.sub = FALSE, !.open = FALSE]
        BY <2>2, <2>3
    <2>5. ASSUME NEW c \in ConsoleClient \ Subscribers(b) PROVE client'[c] = client[c]
        BY <2>2
    <2>6. client' \in [ConsoleClient -> ClientRecord]
        BY <2>1, <2>2, <2>3
    <2>7. ASSUME NEW c \in Subscribers(b)
          PROVE  /\ client'[c].pc = client[c].pc /\ client'[c].broker = client[c].broker
                 /\ client'[c].got = client[c].got /\ client'[c].queue = client[c].queue
                 /\ ~client'[c].sub
        <3> DEFINE rec == [client[c] EXCEPT !.sub = FALSE, !.open = FALSE]
        <3>1. /\ rec.pc = client[c].pc /\ rec.broker = client[c].broker
              /\ rec.got = client[c].got /\ rec.queue = client[c].queue /\ ~rec.sub
            BY <2>1, <2>3
        <3>2. client'[c] = rec
            BY <2>4
        <3> HIDE DEF rec
        <3> QED BY <3>1, <3>2
    <2> QED BY <2>5, <2>6, <2>7
<1>4. RelayTypeOK'
    BY <1>1, <1>2, <1>3 DEF RelayTypeOK
<1>5. ASSUME NEW x \in Broker PROVE BrokerRegistered(x)' /\ HistoryCurrent(x)'
    <2>1. CASE x = b
        BY <1>1, <1>2, <2>1 DEF BrokerRegistered, HistoryCurrent
    <2>2. CASE x # b
        BY <1>1, <1>2, <2>2, BrokerKept
    <2> QED BY <2>1, <2>2
<1>6. ASSUME NEW c \in ConsoleClient PROVE ClientServed(c)'
    <2>1. CASE c \in Subscribers(b)
        BY <1>1, <1>3, <2>1 DEF ClientServed, Seen
    <2>2. CASE c \notin Subscribers(b)
        <3>1. client[c].sub => client[c].broker \in Broker \ {b} /\ broker[client[c].broker].state = "open"
            BY <1>1, <2>2 DEF ClientServed, Subscribers
        <3> QED BY <1>1, <1>2, <1>3, <2>2, <3>1, ClientKept
    <2> QED BY <2>1, <2>2
<1> QED BY <1>4, <1>5, <1>6 DEF RelayInv

\* So does a step that changes no client and leaves every broker its state and history.
LEMMA BrokersStep ==
    ASSUME RelayInv, UNCHANGED <<client, registry, printed>>, broker' \in [Broker -> BrokerRecord],
           \A b \in Broker : /\ broker'[b].state = broker[b].state
                             /\ broker'[b].history = broker[b].history
                             /\ broker'[b].up => broker[b].up \/ broker[b].state = "open"
    PROVE  RelayInv'
<1>1. RelayTypeOK'
    BY DEF RelayInv, RelayTypeOK
<1>2. ASSUME NEW b \in Broker PROVE BrokerRegistered(b)' /\ HistoryCurrent(b)'
    BY DEF RelayInv, BrokerRegistered, HistoryCurrent
<1>3. ASSUME NEW c \in ConsoleClient PROVE ClientServed(c)'
    <2>1. ClientServed(c) /\ (client[c].sub => client[c].broker \in Broker /\ broker[client[c].broker].state = "open")
        BY DEF RelayInv, ClientServed
    <2> QED BY <2>1, ClientKept
<1> QED BY <1>1, <1>2, <1>3 DEF RelayInv

\* And a step of client c that leaves every broker its state, history and process.
LEMMA ClientStep ==
    ASSUME RelayInv, NEW c \in ConsoleClient, UNCHANGED <<registry, printed>>,
           broker' \in [Broker -> BrokerRecord], client' \in [ConsoleClient -> ClientRecord],
           \A b \in Broker : /\ broker'[b].state = broker[b].state
                             /\ broker'[b].history = broker[b].history
                             /\ broker'[b].up = broker[b].up,
           \A d \in ConsoleClient \ {c} : client'[d] = client[d],
           ClientServed(c)'
    PROVE  RelayInv'
<1>1. RelayTypeOK'
    BY DEF RelayInv, RelayTypeOK
<1>2. ASSUME NEW b \in Broker PROVE BrokerRegistered(b)' /\ HistoryCurrent(b)'
    BY BrokerKept DEF RelayInv
<1>3. ASSUME NEW d \in ConsoleClient \ {c} PROVE ClientServed(d)'
    <2>1. ClientServed(d) /\ (client[d].sub => client[d].broker \in Broker /\ broker[client[d].broker].state = "open")
        BY DEF RelayInv, ClientServed
    <2> QED BY <2>1, ClientKept
<1> QED BY <1>1, <1>2, <1>3 DEF RelayInv

-----------------------------------------------------------------------------
(* Steps of a client.                                                      *)

\* A handler that only moves on, before or after it has been attached.
LEMMA MovesKeeps ==
    ASSUME RelayInv, NEW c \in ConsoleClient, UNCHANGED <<registry, broker, printed>>,
           NEW pc \in {"lookup", "logs", "done"}, client' = Moves(c, pc),
           client[c].pc \in {"idle", "lookup", "logs", "attach"},
           pc = "lookup" => client[c].pc = "idle"
    PROVE  RelayInv'
<1>1. /\ client' \in [ConsoleClient -> ClientRecord]
      /\ client'[c] = [client[c] EXCEPT !.pc = pc]
      /\ \A d \in ConsoleClient \ {c} : client'[d] = client[d]
    <2> DEFINE rec == [client[c] EXCEPT !.pc = pc]
    <2>1. client \in [ConsoleClient -> ClientRecord]
        BY DEF RelayInv, RelayTypeOK
    <2>2. rec \in ClientRecord
        BY <2>1 DEF ClientRecord
    <2>3. client' = [client EXCEPT ![c] = rec]
        BY DEF Moves
    <2> HIDE DEF rec
    <2>4. client' \in [ConsoleClient -> ClientRecord] /\ client'[c] = rec
          /\ \A d \in ConsoleClient \ {c} : client'[d] = client[d]
        BY <2>1, <2>2, <2>3
    <2> QED BY <2>4 DEF rec
<1>2. /\ client'[c].pc = pc /\ client'[c].broker = client[c].broker
      /\ client'[c].sub = client[c].sub
      /\ client'[c].got = client[c].got /\ client'[c].queue = client[c].queue
    BY <1>1 DEF RelayInv, RelayTypeOK, ClientRecord
<1>3. ClientServed(c)'
    BY <1>2 DEF RelayInv, ClientServed, Seen
<1> QED BY <1>1, <1>3, ClientStep DEF RelayInv, RelayTypeOK

\* A new broker starts only when the table is empty, or the client joins the open one.
LEMMA GetBrokerKeeps ==
    ASSUME RelayInv, NEW c \in ConsoleClient, GetBroker(c)
    PROVE  RelayInv'
<1>1. RelayTypeOK /\ ClientServed(c) /\ client[c].pc = "lookup" /\ printed' = printed
    BY DEF RelayInv, GetBroker
<1>2. ASSUME NEW b \in Broker, client' = [client EXCEPT ![c].pc = "attach", ![c].broker = b]
      PROVE  /\ client' \in [ConsoleClient -> ClientRecord]
             /\ client'[c].pc = "attach" /\ client'[c].broker = b
             /\ client'[c].sub = client[c].sub
             /\ client'[c].got = client[c].got /\ client'[c].queue = client[c].queue
             /\ \A d \in ConsoleClient \ {c} : client'[d] = client[d]
    BY <1>1, <1>2 DEF RelayTypeOK, ClientRecord
<1>3. ASSUME NEW b \in Broker, client' = [client EXCEPT ![c].pc = "attach", ![c].broker = b]
      PROVE  ClientServed(c)'
    BY <1>1, <1>2, <1>3 DEF ClientServed, Seen
<1>4. CASE /\ registry # "none" /\ UNCHANGED <<registry, broker>>
           /\ client' = [client EXCEPT ![c].pc = "attach", ![c].broker = registry]
    <2>1. registry \in Broker
        BY <1>1, <1>4 DEF RelayTypeOK
    <2> QED BY <1>1, <1>2, <1>3, <1>4, <2>1, ClientStep DEF RelayTypeOK
<1>5. ASSUME NEW b \in Broker, registry = "none", broker[b] = Fresh,
             broker' = [broker EXCEPT ![b] = [Fresh EXCEPT !.state = "open", !.wait = "polls"]],
             registry' = b, client' = [client EXCEPT ![c].pc = "attach", ![c].broker = b]
      PROVE  RelayInv'
    <2>1. /\ broker' \in [Broker -> BrokerRecord]
          /\ broker'[b].state = "open" /\ ~broker'[b].up /\ broker'[b].history = <<>>
          /\ \A x \in Broker \ {b} : broker'[x] = broker[x]
        BY <1>1, <1>5 DEF RelayTypeOK, BrokerRecord, Fresh
    <2>2. RelayTypeOK'
        BY <1>1, <1>2, <1>5, <2>1 DEF RelayTypeOK
    <2>3. \A x \in Broker : broker[x].state \notin {"open", "closed", "killed"} /\ ~broker[x].up
        BY <1>5, RelayAssumption DEF RelayInv, BrokerRegistered
    <2>4. ASSUME NEW x \in Broker PROVE BrokerRegistered(x)' /\ HistoryCurrent(x)'
        <3>1. CASE x = b
            BY <1>5, <2>1, <3>1 DEF BrokerRegistered, HistoryCurrent, Run, EndsWith
        <3>2. CASE x # b
            BY <2>1, <2>3, <3>2 DEF BrokerRegistered, HistoryCurrent
        <3> QED BY <3>1, <3>2
    <2>5. ASSUME NEW d \in ConsoleClient \ {c} PROVE ClientServed(d)'
        <3>1. ClientServed(d) /\ ~client[d].sub /\ client'[d] = client[d]
            BY <1>2, <1>5, <2>3 DEF RelayInv, ClientServed
        <3> QED BY <1>1, <3>1, ClientKept
    <2> QED BY <1>3, <1>5, <2>2, <2>4, <2>5 DEF RelayInv
<1> QED BY <1>4, <1>5 DEF GetBroker, MayReplace

\* A subscriber starts with the history, which ends with the last chunk.
LEMMA AttachKeeps ==
    ASSUME RelayInv, NEW c \in ConsoleClient, Attach(c)
    PROVE  RelayInv'
<1> DEFINE b == client[c].broker
<1>1. RelayTypeOK /\ ClientServed(c) /\ client[c].pc = "attach" /\ UNCHANGED <<registry, printed>>
      /\ b \in Broker /\ HistoryCurrent(b)
    BY DEF RelayInv, Attach, ClientServed
<1>2. CASE client' = Moves(c, "done") /\ UNCHANGED broker
    BY <1>1, <1>2, MovesKeeps
<1>3. CASE /\ broker[b].state = "open"
           /\ client' = [client EXCEPT ![c] = [@ EXCEPT !.pc = "attached", !.sub = TRUE,
                            !.open = TRUE, !.queue = broker[b].history]]
           /\ broker' = [broker EXCEPT ![b].timer = FALSE]
    <2>1. /\ broker' \in [Broker -> BrokerRecord]
          /\ \A x \in Broker : /\ broker'[x].state = broker[x].state
                               /\ broker'[x].history = broker[x].history
                               /\ broker'[x].up = broker[x].up
      <3> DEFINE r == [broker[b] EXCEPT !.timer = FALSE]
      <3>1. r \in BrokerRecord /\ r.state = broker[b].state /\ r.history = broker[b].history
            /\ r.up = broker[b].up
        BY <1>1 DEF RelayTypeOK, BrokerRecord
      <3>2. broker' = [broker EXCEPT ![b] = r]
        BY <1>3
      <3> HIDE DEF r
      <3> QED BY <1>1, <3>1, <3>2 DEF RelayTypeOK
    <2>2. broker[b].history \in Seq(Nat)
        BY <1>1 DEF RelayTypeOK, BrokerRecord
    <2>3. /\ client' \in [ConsoleClient -> ClientRecord]
          /\ client'[c].pc = "attached" /\ client'[c].broker = b
          /\ client'[c].got = client[c].got /\ client'[c].queue = broker[b].history
          /\ \A d \in ConsoleClient \ {c} : client'[d] = client[d]
        BY <1>1, <1>3, <2>2 DEF RelayTypeOK, ClientRecord
    <2>4. Seen(c)' = broker[b].history
        BY <1>1, <2>2, <2>3, JoinsWithHistory DEF ClientServed, Seen
    <2>5. Run(broker[b].history) /\ EndsWith(broker[b].history, printed)
        BY <1>1, <1>3 DEF HistoryCurrent
    <2>6. ClientServed(c)'
        BY <1>1, <1>3, <2>1, <2>3, <2>4, <2>5 DEF ClientServed
    <2> QED BY <1>1, <2>1, <2>3, <2>6, ClientStep
<1> QED BY <1>1, <1>2, <1>3 DEF Attach

\* Setting the grace timer leaves a broker its state, its history and its process.
LEMMA TimedFrame ==
    ASSUME RelayTypeOK, NEW b \in Broker, NEW subs
    PROVE  /\ Timed(b, subs) \in [Broker -> BrokerRecord]
           /\ \A x \in Broker : /\ Timed(b, subs)[x].state = broker[x].state
                                /\ Timed(b, subs)[x].history = broker[x].history
                                /\ Timed(b, subs)[x].up = broker[x].up
<1> DEFINE t == broker[b].timer \/ (broker[b].state = "open" /\ subs = {})
<1>1. ASSUME NEW f, NEW v \in BOOLEAN, f = [broker EXCEPT ![b].timer = v]
      PROVE  /\ f \in [Broker -> BrokerRecord]
             /\ \A x \in Broker : /\ f[x].state = broker[x].state
                                  /\ f[x].history = broker[x].history
                                  /\ f[x].up = broker[x].up
    BY <1>1 DEF RelayTypeOK, BrokerRecord
<1>2. t \in BOOLEAN
    OBVIOUS
<1>3. Timed(b, subs) = [broker EXCEPT ![b].timer = t]
    BY DEF Timed
<1> HIDE DEF t
<1> QED BY <1>1, <1>2, <1>3, Zenon

\* A client that leaves keeps what it has seen.
LEMMA DetachKeeps ==
    ASSUME RelayInv, NEW c \in ConsoleClient, Detach(c)
    PROVE  RelayInv'
<1> DEFINE b == client[c].broker
<1>1. RelayTypeOK /\ ClientServed(c) /\ client[c].pc = "attached" /\ UNCHANGED <<registry, printed>>
      /\ client' = [client EXCEPT ![c] = [@ EXCEPT !.pc = "done", !.sub = FALSE, !.open = FALSE]]
      /\ broker' = Timed(b, Subscribers(b) \ {c}) /\ b \in Broker
    BY DEF RelayInv, Detach, ClientServed
<1>2. /\ broker' \in [Broker -> BrokerRecord]
      /\ \A x \in Broker : /\ broker'[x].state = broker[x].state
                           /\ broker'[x].history = broker[x].history
                           /\ broker'[x].up = broker[x].up
    BY <1>1, TimedFrame
<1>3. /\ client' \in [ConsoleClient -> ClientRecord]
      /\ client'[c].pc = "done" /\ ~client'[c].sub
      /\ client'[c].got = client[c].got /\ client'[c].queue = client[c].queue
      /\ \A d \in ConsoleClient \ {c} : client'[d] = client[d]
    BY <1>1 DEF RelayTypeOK, ClientRecord
<1>4. ClientServed(c)'
    BY <1>1, <1>3 DEF ClientServed, Seen
<1> QED BY <1>1, <1>2, <1>3, <1>4, ClientStep

\* The sender thread hands on the oldest chunk, or gives up.
LEMMA SendKeeps ==
    ASSUME RelayInv, NEW c \in ConsoleClient, Send(c)
    PROVE  RelayInv'
<1>1. RelayTypeOK /\ ClientServed(c) /\ UNCHANGED <<registry, broker, printed>>
      /\ client[c].queue # <<>>
      /\ client[c].got \in Seq(Nat) /\ client[c].queue \in Seq(Nat)
    BY DEF RelayInv, Send, RelayTypeOK, ClientRecord
<1>2. CASE client' = [client EXCEPT ![c].queue = Tail(@), ![c].got = Append(@, Head(client[c].queue))]
    <2> DEFINE q == Tail(client[c].queue)
               g == Append(client[c].got, Head(client[c].queue))
    <2>1. client' = [client EXCEPT ![c].queue = q, ![c].got = g]
        BY <1>2
    <2>2. q \in Seq(Nat) /\ g \in Seq(Nat) /\ g \o q = client[c].got \o client[c].queue
        BY <1>1, SendKeepsSeen
    <2> HIDE DEF q, g
    <2>3. /\ client' \in [ConsoleClient -> ClientRecord]
          /\ client'[c].pc = client[c].pc /\ client'[c].broker = client[c].broker
          /\ client'[c].sub = client[c].sub
          /\ client'[c].got = g /\ client'[c].queue = q
          /\ \A d \in ConsoleClient \ {c} : client'[d] = client[d]
        BY <1>1, <2>1, <2>2 DEF RelayTypeOK, ClientRecord
    <2>4. Seen(c)' = Seen(c)
        BY <2>2, <2>3 DEF Seen
    <2>5. client[c].pc \notin {"idle", "lookup", "attach"}
        BY <1>1 DEF ClientServed
    <2>6. ClientServed(c)'
        BY <1>1, <2>3, <2>4, <2>5 DEF ClientServed
    <2> QED BY <1>1, <2>3, <2>6, ClientStep DEF RelayTypeOK
<1>3. CASE client' = [client EXCEPT ![c].open = FALSE]
    <2>1. /\ client' \in [ConsoleClient -> ClientRecord]
          /\ client'[c].pc = client[c].pc /\ client'[c].broker = client[c].broker
          /\ client'[c].sub = client[c].sub
          /\ client'[c].got = client[c].got /\ client'[c].queue = client[c].queue
          /\ \A d \in ConsoleClient \ {c} : client'[d] = client[d]
        BY <1>1, <1>3 DEF RelayTypeOK, ClientRecord
    <2>2. ClientServed(c)'
        BY <1>1, <2>1 DEF ClientServed, Seen
    <2> QED BY <1>1, <2>1, <2>2, ClientStep DEF RelayTypeOK
<1> QED BY <1>2, <1>3 DEF Send

-----------------------------------------------------------------------------
(* Steps of a broker.                                                      *)

\* The thread that waits for the console moves on, or closes the broker.
LEMMA WaitKeeps ==
    ASSUME RelayInv, NEW b \in Broker, WaitUpstream(b)
    PROVE  RelayInv'
<1>1. RelayTypeOK /\ UNCHANGED <<registry, printed>>
    BY DEF RelayInv, WaitUpstream
<1>2. ASSUME NEW w \in {"none", "opens"}, broker' = [broker EXCEPT ![b].wait = w], UNCHANGED client
      PROVE  RelayInv'
    <2> DEFINE r == [broker[b] EXCEPT !.wait = w]
    <2>1. r \in BrokerRecord /\ r.state = broker[b].state /\ r.history = broker[b].history
          /\ r.up = broker[b].up
        BY <1>1 DEF RelayTypeOK, BrokerRecord
    <2>2. broker' = [broker EXCEPT ![b] = r]
        BY <1>2
    <2> HIDE DEF r
    <2>3. /\ broker' \in [Broker -> BrokerRecord]
          /\ \A x \in Broker : /\ broker'[x].state = broker[x].state
                               /\ broker'[x].history = broker[x].history
                               /\ broker'[x].up = broker[x].up
        BY <1>1, <2>1, <2>2 DEF RelayTypeOK
    <2> QED BY <1>1, <1>2, <2>3, BrokersStep
<1>3. CASE broker[b].state = "open" /\ Closed(b, [broker[b] EXCEPT !.wait = "none"])
    <2>1. [broker[b] EXCEPT !.wait = "none"] \in BrokerRecord
          /\ [broker[b] EXCEPT !.wait = "none"].history = broker[b].history
        BY <1>1 DEF RelayTypeOK, BrokerRecord
    <2> QED BY <1>1, <1>3, <2>1, ClosedKeeps
<1> QED BY <1>2, <1>3 DEF WaitUpstream

\* The process is recorded only by a broker that is open still.
LEMMA StartKeeps ==
    ASSUME RelayInv, NEW b \in Broker, StartUpstream(b)
    PROVE  RelayInv'
<1>1. RelayTypeOK /\ UNCHANGED <<registry, printed>>
    BY DEF RelayInv, StartUpstream
<1>2. ASSUME NEW v \in BOOLEAN, v => broker[b].state = "open", UNCHANGED client,
             broker' = [broker EXCEPT ![b] = [@ EXCEPT !.wait = "none", !.up = v]]
      PROVE  RelayInv'
    <2>1. /\ broker' \in [Broker -> BrokerRecord]
          /\ \A x \in Broker : /\ broker'[x].state = broker[x].state
                               /\ broker'[x].history = broker[x].history
                               /\ x # b => broker'[x].up = broker[x].up
          /\ broker'[b].up = v
      <3> DEFINE r == [broker[b] EXCEPT !.wait = "none", !.up = v]
      <3>1. r \in BrokerRecord /\ r.state = broker[b].state /\ r.history = broker[b].history /\ r.up = v
        BY <1>1 DEF RelayTypeOK, BrokerRecord
      <3>2. broker' = [broker EXCEPT ![b] = r]
        BY <1>2
      <3> HIDE DEF r
      <3> QED BY <1>1, <3>1, <3>2 DEF RelayTypeOK
    <2>2. \A x \in Broker : broker'[x].up => broker[x].up \/ broker[x].state = "open"
        BY <1>2, <2>1
    <2> QED BY <1>1, <1>2, <2>1, <2>2, BrokersStep
<1>3. CASE broker[b].state = "open" /\ Closed(b, [broker[b] EXCEPT !.wait = "none"])
    <2>1. [broker[b] EXCEPT !.wait = "none"] \in BrokerRecord
          /\ [broker[b] EXCEPT !.wait = "none"].history = broker[b].history
        BY <1>1 DEF RelayTypeOK, BrokerRecord
    <2> QED BY <1>1, <1>3, <2>1, ClosedKeeps
<1>4. CASE /\ broker' = [broker EXCEPT ![b] = [@ EXCEPT !.wait = "none", !.up = broker[b].state = "open"]]
           /\ UNCHANGED client
    <2> DEFINE v == broker[b].state = "open"
    <2>1. v \in BOOLEAN /\ (v => broker[b].state = "open")
        OBVIOUS
    <2>2. broker' = [broker EXCEPT ![b] = [@ EXCEPT !.wait = "none", !.up = v]]
        BY <1>4, Zenon
    <2> HIDE DEF v
    <2> QED BY <1>2, <1>4, <2>1, <2>2
<1> QED BY <1>3, <1>4 DEF StartUpstream

\* A chunk reaches the history and every subscriber that keeps up; the others are cut off.
LEMMA FanOutKeeps ==
    ASSUME RelayInv, NEW b \in Broker, FanOut(b)
    PROVE  RelayInv'
<1> DEFINE chunk == printed + 1
           h == Recent(Append(broker[b].history, chunk))
<1>1. RelayTypeOK /\ BrokerRegistered(b) /\ HistoryCurrent(b) /\ printed \in Nat
      /\ broker[b].up /\ broker[b].state = "open" /\ printed' = chunk /\ UNCHANGED registry
    BY DEF RelayInv, RelayTypeOK, FanOut
<1>2. \A x \in Broker \ {b} : broker[x].state # "open" /\ ~broker[x].up
    BY <1>1 DEF RelayInv, BrokerRegistered
<1>3. broker[b].history \in Seq(Nat) /\ Run(broker[b].history) /\ EndsWith(broker[b].history, printed)
    BY <1>1 DEF RelayTypeOK, BrokerRecord, HistoryCurrent
<1>4. h \in Seq(Nat) /\ Run(h) /\ EndsWith(h, chunk)
    BY <1>1, <1>3, RunGrows, RecentRun
<1>5. /\ broker' \in [Broker -> BrokerRecord]
      /\ broker'[b].history = h
      /\ \A x \in Broker : /\ broker'[x].state = broker[x].state /\ broker'[x].up = broker[x].up
                           /\ x # b => broker'[x].history = broker[x].history
    <2>1. ASSUME NEW f \in [Broker -> BrokerRecord], f[b].history = broker[b].history,
                 \A x \in Broker : /\ f[x].state = broker[x].state /\ f[x].up = broker[x].up
                                   /\ f[x].history = broker[x].history,
                 broker' = [f EXCEPT ![b].history = h]
          PROVE  /\ broker' \in [Broker -> BrokerRecord]
                 /\ broker'[b].history = h
                 /\ \A x \in Broker : /\ broker'[x].state = broker[x].state /\ broker'[x].up = broker[x].up
                                      /\ x # b => broker'[x].history = broker[x].history
        <3> HIDE DEF h
        <3> DEFINE r == [f[b] EXCEPT !.history = h]
        <3>1. /\ r \in BrokerRecord /\ r.history = h
              /\ r.state = broker[b].state /\ r.up = broker[b].up
          BY <1>4, <2>1 DEF BrokerRecord
        <3>2. broker' = [f EXCEPT ![b] = r]
          BY <2>1
        <3> HIDE DEF r
        <3> QED BY <2>1, <3>1, <3>2
    <2>2. CASE broker' = [broker EXCEPT ![b].history = Recent(Append(@, chunk))]
        BY <1>1, <2>1, <2>2 DEF RelayTypeOK
    <2>3. CASE broker' = [Timed(b, Subscribers(b) \ Slow(b))
                            EXCEPT ![b].history = Recent(Append(@, chunk))]
        <3> DEFINE f == Timed(b, Subscribers(b) \ Slow(b))
        <3>1. /\ f \in [Broker -> BrokerRecord]
              /\ \A x \in Broker : /\ f[x].state = broker[x].state
                                   /\ f[x].history = broker[x].history /\ f[x].up = broker[x].up
            BY <1>1, TimedFrame
        <3>2. f[b].history = broker[b].history
            BY <3>1
        <3>3. broker' = [f EXCEPT ![b].history = h]
            BY <2>3, <3>2, Zenon
        <3> HIDE DEF f, h
        <3> QED BY <2>1, <3>1, <3>2, <3>3, Zenon
    <2> QED BY <2>2, <2>3 DEF FanOut
<1>6. \A x \in Broker : BrokerRegistered(x)' /\ HistoryCurrent(x)'
    <2> HIDE DEF h, chunk
    <2> QED BY <1>1, <1>2, <1>4, <1>5 DEF RelayInv, BrokerRegistered, HistoryCurrent
<1>7. ASSUME NEW c \in ConsoleClient
      PROVE  client'[c] \in ClientRecord /\ ClientServed(c)'
    <2>1. ClientServed(c) /\ client[c] \in ClientRecord /\ client[c].got \in Seq(Nat) /\ client[c].queue \in Seq(Nat)
        BY <1>1 DEF RelayInv, RelayTypeOK, ClientRecord
    <2>2. CASE c \in Slow(b)
        <3>1. client'[c] = [client[c] EXCEPT !.sub = FALSE, !.open = FALSE]
            BY <2>2 DEF FanOut
        <3>2. /\ client'[c].pc = client[c].pc /\ client'[c].broker = client[c].broker
              /\ client'[c].got = client[c].got /\ client'[c].queue = client[c].queue
              /\ ~client'[c].sub /\ client'[c] \in ClientRecord
            BY <2>1, <3>1 DEF ClientRecord
        <3> QED BY <2>1, <3>2 DEF ClientServed, Seen
    <2>3. CASE c \in Subscribers(b) \ Slow(b)
        <3>1. client'[c] = Enqueued(c, chunk) /\ Len(client[c].queue) < QueueMax
            <4>1. client'[c] = Enqueued(c, chunk)
                BY <2>3 DEF FanOut
            <4>2. ~(Len(client[c].queue) >= QueueMax)
                BY <2>3 DEF Slow
            <4> QED BY <2>1, <4>1, <4>2, RelayAssumption
        <3>2. client'[c] = [client[c] EXCEPT !.queue = Append(client[c].queue, chunk)]
            <4> DEFINE e == IF Len(client[c].queue) < QueueMax THEN Append(client[c].queue, chunk)
                            ELSE client[c].queue
            <4>1. Enqueued(c, chunk) = [client[c] EXCEPT !.queue = e]
                BY Zenon DEF Enqueued
            <4>2. e = Append(client[c].queue, chunk)
                BY <3>1
            <4> HIDE DEF e
            <4> QED BY <3>1, <4>1, <4>2, Zenon
        <3>3. /\ Append(client[c].queue, chunk) \in Seq(Nat)
              /\ client[c].got \o Append(client[c].queue, chunk) = Append(client[c].got \o client[c].queue, chunk)
            <4>1. chunk \in Nat
                BY <1>1
            <4> HIDE DEF chunk
            <4> QED BY <2>1, <4>1, QueuedIsSeen
        <3>4. client[c].sub /\ client[c].broker = b
            BY <2>3 DEF Subscribers
        <3> DEFINE q == Append(client[c].queue, chunk)
        <3>5. q \in Seq(Nat) /\ client'[c] = [client[c] EXCEPT !.queue = q]
            BY <3>2, <3>3
        <3> HIDE DEF q
        <3>6. /\ client'[c].pc = client[c].pc /\ client'[c].broker = client[c].broker
              /\ client'[c].sub = client[c].sub
              /\ client'[c].got = client[c].got /\ client'[c].queue = q
              /\ client'[c] \in ClientRecord
            BY <2>1, <3>5 DEF ClientRecord
        <3>7. Seen(c)' = Append(Seen(c), chunk)
            BY <3>3, <3>6 DEF Seen, q
        <3>8. Seen(c) \in Seq(Nat) /\ Run(Seen(c)) /\ EndsWith(Seen(c), printed)
            BY <2>1, <3>4 DEF Seen, ClientServed
        <3>9. Run(Seen(c)') /\ EndsWith(Seen(c)', printed')
            BY <1>1, <3>7, <3>8, RunGrows
        <3>10. client[c].pc \notin {"idle", "lookup", "attach"}
            BY <2>1, <3>4 DEF ClientServed
        <3> QED BY <1>1, <1>5, <3>4, <3>6, <3>9, <3>10, <2>1 DEF ClientServed
    <2>4. CASE c \notin Subscribers(b)
        <3>1. c \notin Slow(b)
            BY <2>4 DEF Slow
        <3>2. client'[c] = client[c]
            BY <2>4, <3>1 DEF FanOut
        <3>3. ~client[c].sub
            BY <1>2, <2>1, <2>4 DEF ClientServed, Subscribers
        <3> QED BY <2>1, <3>2, <3>3 DEF ClientServed, Seen
    <2> QED BY <2>2, <2>3, <2>4
<1>8. RelayTypeOK'
    <2>1. client' \in [ConsoleClient -> ClientRecord]
        BY <1>7 DEF FanOut
    <2> QED BY <1>1, <1>5, <2>1 DEF RelayTypeOK
<1> QED BY <1>6, <1>7, <1>8 DEF RelayInv

\* The reader and the grace timer close an open broker.
LEMMA TimersKeep ==
    ASSUME RelayInv, NEW b \in Broker, ReadEnds(b) \/ TimerFires(b) \/ TimerCloses(b)
    PROVE  RelayInv'
<1>1. RelayTypeOK /\ UNCHANGED <<registry, printed>>
    BY DEF RelayInv, ReadEnds, TimerFires, TimerCloses
<1>2. CASE broker[b].state = "open" /\ Closed(b, broker[b])
    BY <1>1, <1>2, ClosedKeeps DEF RelayTypeOK
<1>3. CASE broker[b].state = "open" /\ Closed(b, [broker[b] EXCEPT !.firing = FALSE])
    <2>1. [broker[b] EXCEPT !.firing = FALSE] \in BrokerRecord
          /\ [broker[b] EXCEPT !.firing = FALSE].history = broker[b].history
        BY <1>1 DEF RelayTypeOK, BrokerRecord
    <2> QED BY <1>1, <1>3, <2>1, ClosedKeeps
<1>4. ASSUME NEW v \in BOOLEAN, broker' = [broker EXCEPT ![b].firing = v], UNCHANGED client
      PROVE  RelayInv'
    <2>1. /\ broker' \in [Broker -> BrokerRecord]
          /\ \A x \in Broker : /\ broker'[x].state = broker[x].state
                               /\ broker'[x].history = broker[x].history
                               /\ broker'[x].up = broker[x].up
        BY <1>1, <1>4 DEF RelayTypeOK, BrokerRecord
    <2> QED BY <1>1, <1>4, <2>1, BrokersStep
<1> QED BY <1>2, <1>3, <1>4 DEF ReadEnds, TimerFires, TimerCloses

\* The second half of close(): no client is subscribed any more.
LEMMA CloseKillsKeeps ==
    ASSUME RelayInv, NEW b \in Broker, CloseKills(b)
    PROVE  RelayInv'
<1>1. RelayTypeOK /\ UNCHANGED <<registry, client, printed>> /\ broker[b].state = "closed"
    BY DEF RelayInv, CloseKills
<1>2. ASSUME NEW x \in Broker
      PROVE  /\ broker'[x] \in BrokerRecord
             /\ x = b => broker'[x].state = "killed" /\ ~broker'[x].up
             /\ x # b => /\ broker'[x].state = broker[x].state
                         /\ broker'[x].history = broker[x].history
                         /\ broker'[x].up => broker[x].up
    <2>1. broker[x] \in BrokerRecord
        BY <1>1 DEF RelayTypeOK
    <2>2. CASE x = b
        <3>1. broker'[x] = [broker[x] EXCEPT !.state = "killed", !.up = FALSE]
            BY <2>2 DEF CloseKills, CutOff
        <3> QED BY <2>1, <2>2, <3>1 DEF BrokerRecord
    <2>3. CASE x # b /\ x \in CutOff(b)
        <3>1. broker'[x] = [broker[x] EXCEPT !.up = FALSE]
            BY <2>3 DEF CloseKills
        <3> QED BY <2>1, <2>3, <3>1 DEF BrokerRecord
    <2>4. CASE x # b /\ x \notin CutOff(b)
        BY <2>1, <2>4 DEF CloseKills
    <2> QED BY <2>2, <2>3, <2>4
<1>3. /\ broker' \in [Broker -> BrokerRecord]
      /\ broker'[b].state = "killed" /\ ~broker'[b].up
      /\ \A x \in Broker \ {b} : /\ broker'[x].state = broker[x].state
                                 /\ broker'[x].history = broker[x].history
                                 /\ broker'[x].up => broker[x].up
    <2>1. broker' = [x \in Broker |-> broker'[x]]
        BY DEF CloseKills
    <2> QED BY <1>2, <2>1
<1>4. ASSUME NEW x \in Broker PROVE BrokerRegistered(x)' /\ HistoryCurrent(x)'
    <2>1. CASE x = b
        BY <1>1, <1>3, <2>1 DEF RelayInv, BrokerRegistered, HistoryCurrent
    <2>2. CASE x # b
        BY <1>1, <1>3, <2>2, BrokerKept DEF RelayInv
    <2> QED BY <2>1, <2>2
<1>5. ASSUME NEW c \in ConsoleClient PROVE ClientServed(c)'
    <2>1. ClientServed(c) /\ (client[c].sub => client[c].broker \in Broker \ {b}
                                               /\ broker[client[c].broker].state = "open")
        BY <1>1 DEF RelayInv, ClientServed
    <2> QED BY <1>1, <1>3, <2>1, ClientKept
<1> QED BY <1>1, <1>3, <1>4, <1>5 DEF RelayInv, RelayTypeOK

\* The table is given up by a broker that has ended its process.
LEMMA CloseEndsKeeps ==
    ASSUME RelayInv, NEW b \in Broker, CloseEnds(b)
    PROVE  RelayInv'
<1>1. RelayTypeOK /\ UNCHANGED <<client, printed>> /\ broker[b].state = "killed"
      /\ BrokerRegistered(b) /\ registry' = IF registry = b THEN "none" ELSE registry
    BY DEF RelayInv, CloseEnds
<1>2. registry = b /\ registry' = "none" /\ ~broker[b].up
    BY <1>1 DEF BrokerRegistered
<1>3. /\ broker' \in [Broker -> BrokerRecord]
      /\ broker'[b].state = "gone" /\ broker'[b].up = broker[b].up
      /\ \A x \in Broker \ {b} : broker'[x] = broker[x]
    <2>1. ASSUME NEW e \in Seq(Nat), broker' = [broker EXCEPT ![b] = [@ EXCEPT !.state = "gone", !.history = e]]
          PROVE  /\ broker' \in [Broker -> BrokerRecord]
                 /\ broker'[b].state = "gone" /\ broker'[b].up = broker[b].up
                 /\ \A x \in Broker \ {b} : broker'[x] = broker[x]
        BY <1>1, <2>1 DEF RelayTypeOK, BrokerRecord
    <2>2. <<>> \in Seq(Nat)
        OBVIOUS
    <2> QED BY <2>1, <2>2, Zenon DEF CloseEnds
<1>4. \A x \in Broker : BrokerRegistered(x)' /\ HistoryCurrent(x)'
    BY <1>1, <1>2, <1>3 DEF RelayInv, BrokerRegistered, HistoryCurrent
<1>5. ASSUME NEW c \in ConsoleClient PROVE ClientServed(c)'
    <2>1. ClientServed(c) /\ (client[c].sub => client[c].broker \in Broker \ {b}
                                               /\ broker[client[c].broker].state = "open")
        BY <1>1 DEF RelayInv, ClientServed
    <2> QED BY <1>1, <1>3, <2>1, ClientKept
<1> QED BY <1>1, <1>2, <1>3, <1>4, <1>5 DEF RelayInv, RelayTypeOK

-----------------------------------------------------------------------------
(* The invariants.                                                         *)

\* RelayInv holds at the start.
LEMMA RelayInvInit == RelayInit => RelayInv
<1> SUFFICES ASSUME RelayInit PROVE RelayInv
    OBVIOUS
<1>1. Fresh \in BrokerRecord /\ Caller \in ClientRecord
    BY DEF Fresh, Caller, BrokerRecord, ClientRecord
<1>2. RelayTypeOK
    BY <1>1 DEF RelayInit, RelayTypeOK
<1>3. \A b \in Broker : BrokerRegistered(b) /\ HistoryCurrent(b)
    BY DEF RelayInit, Fresh, BrokerRegistered, HistoryCurrent
<1>4. ASSUME NEW c \in ConsoleClient PROVE ClientServed(c)
    <2>1. client[c] = Caller
        BY DEF RelayInit
    <2>2. Seen(c) = <<>>
        BY <2>1 DEF Seen, Caller
    <2> QED BY <2>1, <2>2 DEF ClientServed, Caller, Run
<1> QED BY <1>2, <1>3, <1>4 DEF RelayInv

\* Every step of the relay keeps RelayInv.
LEMMA RelayInvNext ==
    ASSUME RelayInv, [RelayNext]_relayVars
    PROVE  RelayInv'
<1>1. CASE UNCHANGED <<registry, broker, client, printed>>
    BY <1>1, BrokersStep DEF RelayInv, RelayTypeOK
<1>2. ASSUME NEW b \in Broker, BrokerNext(b) PROVE RelayInv'
    BY <1>2, WaitKeeps, StartKeeps, FanOutKeeps, TimersKeep, CloseKillsKeeps, CloseEndsKeeps
       DEF BrokerNext
<1>3. ASSUME NEW c \in ConsoleClient, ClientNext(c) PROVE RelayInv'
    <2>1. CASE Request(c) \/ StreamLogs(c)
        BY <2>1, MovesKeeps DEF Request, StreamLogs
    <2>2. CASE GetBroker(c) \/ Attach(c) \/ Send(c) \/ Detach(c)
        BY <2>2, GetBrokerKeeps, AttachKeeps, SendKeeps, DetachKeeps
    <2> QED BY <1>3, <2>1, <2>2 DEF ClientNext
<1>4. CASE Terminate
    <2>1. CASE UNCHANGED <<broker, client>>
        BY <1>1, <1>4, <2>1 DEF Terminate
    <2>2. CASE registry # "none" /\ broker[registry].state = "open" /\ Closed(registry, broker[registry])
        <3>1. registry \in Broker /\ broker[registry] \in BrokerRecord
            BY <2>2 DEF RelayInv, RelayTypeOK
        <3> QED BY <1>4, <2>2, <3>1, ClosedKeeps DEF Terminate
    <2> QED BY <1>4, <2>1, <2>2 DEF Terminate
<1> QED BY <1>1, <1>2, <1>3, <1>4 DEF RelayNext, relayVars, VdChanges

\* RelayInv is an invariant of the relay.
LEMMA RelayInvariant == RelaySpec => []RelayInv
BY RelayInvInit, RelayInvNext, PTL DEF RelaySpec

\* Two brokers never hold a console process at the same time: a client waits for the
\* cleanup of a closed broker before it starts the next one.
THEOREM ConsoleIsSingle == RelaySpec => []OneUpstream
<1>1. RelayInv => OneUpstream
    BY DEF RelayInv, BrokerRegistered, OneUpstream
<1> QED BY <1>1, RelayInvariant, PTL

\* What a client has been sent and what waits for it is an unbroken run of the output,
\* up to the last chunk while it is subscribed.
THEOREM OutputStaysUnbroken == RelaySpec => []OutputIsUnbroken
<1>1. ASSUME RelayInv PROVE OutputIsUnbroken
    <2>1. ASSUME NEW c \in ConsoleClient
          PROVE  /\ Run(Seen(c))
                 /\ client[c].sub /\ Seen(c) # <<>> /\ broker[client[c].broker].history # <<>> =>
                      Seen(c)[Len(Seen(c))]
                        = broker[client[c].broker].history[Len(broker[client[c].broker].history)]
        BY <1>1 DEF RelayInv, ClientServed, HistoryCurrent, EndsWith
    <2> QED BY <2>1 DEF OutputIsUnbroken, Run, Seen
<1> QED BY <1>1, RelayInvariant, PTL
=============================================================================
