---------------------------- MODULE ConsoleRelay ----------------------------
(***************************************************************************)
(* The runtime relay of a lab (src/src/multinode/runtime-relay/relay.py)   *)
(* for one container: many clients share one console through a broker.     *)
(* Every client has a handler and a sender thread, a broker has a thread   *)
(* that waits for the console, one that reads it and a grace timer; each   *)
(* action below is what one of them does between two releases of a lock.   *)
(* Containers do not interact: brokers are kept by container name.         *)
(***************************************************************************)
EXTENDS Naturals, Sequences, FiniteSets

CONSTANTS
    ConsoleClient,      \* connections to the relay
    Broker,      \* broker objects, each used once
    HistoryMax,  \* CONSOLE_HISTORY_BYTES, in chunks
    QueueMax,    \* CONSOLE_CLIENT_QUEUE_BYTES, in chunks
    MaxChunks    \* bound on what the console prints

ASSUME RelayAssumption ==
    /\ HistoryMax \in Nat /\ QueueMax \in Nat /\ HistoryMax <= QueueMax
    /\ MaxChunks \in Nat /\ "none" \notin Broker

VARIABLES
    vd,        \* the container: "boots" (no console yet), "ready" or "down"
    serial,    \* whether the console is a telnet port (a native container has none)
    serving,   \* whether main() still accepts connections
    registry,  \* _CONSOLE_BROKERS[container], or "none"
    broker,    \* the broker objects
    client,    \* the handlers and their subscribers
    printed    \* number of chunks the console has printed so far

relayVars == <<vd, serial, serving, registry, broker, client, printed>>

\* `wait` is the thread of _wait_for_upstream, `up` says that proc and master_fd
\* are set, `timer` that _grace_timer is set, `firing` that a timer has passed its
\* own check and is about to call close().
Fresh == [state |-> "none", wait |-> "none", up |-> FALSE, timer |-> FALSE,
          firing |-> FALSE, history |-> <<>>]
Caller == [pc |-> "idle", broker |-> "none", sub |-> FALSE, open |-> FALSE,
           queue |-> <<>>, got |-> <<>>]

Subscribers(b) == {c \in ConsoleClient : client[c].sub /\ client[c].broker = b}

-----------------------------------------------------------------------------
(* Requests: _handle, _get_console_broker, attach, detach.                 *)

Moves(c, pc) == [client EXCEPT ![c].pc = pc]

\* A request that is not authorised, or for a container that does not run, is
\* answered and ends; LOG streams docker logs and touches no broker.
Request(c) ==
    /\ serving /\ client[c].pc = "idle"
    /\ \/ client' = Moves(c, "done")
       \/ vd # "down" /\ client' = Moves(c, "lookup")
       \/ vd # "down" /\ client' = Moves(c, "logs")
    /\ UNCHANGED <<vd, serial, serving, registry, broker, printed>>

StreamLogs(c) ==
    /\ client[c].pc = "logs" /\ client' = Moves(c, "done")
    /\ UNCHANGED <<vd, serial, serving, registry, broker, printed>>

\* (mutant) a replacement is started while its predecessor still cleans up
MayReplaceAny == registry # "none" => broker[registry].state # "open"

\* A closed broker is waited for: it leaves the table when its cleanup is done.
MayReplace == registry = "none"

GetBroker(c) ==
    /\ client[c].pc = "lookup"
    /\ \/ /\ MayReplace
          /\ \E b \in Broker :
               /\ broker[b] = Fresh
               /\ broker' = [broker EXCEPT ![b] = [Fresh EXCEPT !.state = "open", !.wait = "polls"]]
               /\ registry' = b
               /\ client' = [client EXCEPT ![c].pc = "attach", ![c].broker = b]
       \/ /\ registry # "none" /\ broker[registry].state = "open"
          /\ client' = [client EXCEPT ![c].pc = "attach", ![c].broker = registry]
          /\ UNCHANGED <<registry, broker>>
    /\ UNCHANGED <<vd, serial, serving, printed>>

\* The history is queued and the subscriber registered under the broker's lock.
Attach(c) ==
    LET b == client[c].broker
    IN /\ client[c].pc = "attach"
       /\ IF broker[b].state # "open"
          THEN client' = Moves(c, "done") /\ UNCHANGED broker
          ELSE /\ client' = [client EXCEPT ![c] = [@ EXCEPT !.pc = "attached", !.sub = TRUE,
                                !.open = TRUE, !.queue = broker[b].history]]
               /\ broker' = [broker EXCEPT ![b].timer = FALSE]
       /\ UNCHANGED <<vd, serial, serving, registry, printed>>

\* A timer that has already fired cannot be cancelled; a broker without
\* subscribers that has no timer gets one.
Timed(b, subs) == [broker EXCEPT ![b].timer = @ \/ (broker[b].state = "open" /\ subs = {})]

\* The socket fails or is shut down, by the client or by subscriber.close().
Detach(c) ==
    LET b == client[c].broker
    IN /\ client[c].pc = "attached"
       /\ client' = [client EXCEPT ![c] = [@ EXCEPT !.pc = "done", !.sub = FALSE, !.open = FALSE]]
       /\ broker' = Timed(b, Subscribers(b) \ {c})
       /\ UNCHANGED <<vd, serial, serving, registry, printed>>

\* The sender thread: sendall succeeds, or the subscriber is closed.
Send(c) ==
    /\ client[c].open /\ client[c].queue # <<>>
    /\ \/ client' = [client EXCEPT ![c].queue = Tail(@), ![c].got = Append(@, Head(client[c].queue))]
       \/ client' = [client EXCEPT ![c].open = FALSE]
    /\ UNCHANGED <<vd, serial, serving, registry, broker, printed>>

-----------------------------------------------------------------------------
(* The upstream of a broker.                                               *)

\* The first half of close(), under the lock: later callers return at once.
Closed(b, record) ==
    /\ broker' = [broker EXCEPT ![b] = [record EXCEPT !.state = "closed", !.timer = FALSE]]
    /\ client' = [c \in ConsoleClient |-> IF c \in Subscribers(b)
                                   THEN [client[c] EXCEPT !.sub = FALSE, !.open = FALSE]
                                   ELSE client[c]]

\* _connect_cmd: the serial port of a VM once it listens, the shell of a native container
\* as soon as it runs.
ConsoleFound == IF serial THEN vd = "ready" ELSE vd # "down"

\* _connect_cmd finds the console; the container stopped, the deadline passed or
\* an exception: the broker closes; it was closed meanwhile: the thread ends.
WaitUpstream(b) ==
    /\ broker[b].wait = "polls"
    /\ \/ /\ broker[b].state # "open"
          /\ broker' = [broker EXCEPT ![b].wait = "none"]
          /\ UNCHANGED client
       \/ /\ broker[b].state = "open" /\ ConsoleFound
          /\ broker' = [broker EXCEPT ![b].wait = "opens"]
          /\ UNCHANGED client
       \/ broker[b].state = "open" /\ Closed(b, [broker[b] EXCEPT !.wait = "none"])
    /\ UNCHANGED <<vd, serial, serving, registry, printed>>

\* Popen came first: a broker that was closed meanwhile terminates the process
\* it never recorded.
StartUpstream(b) ==
    /\ broker[b].wait = "opens"
    /\ \/ /\ broker' = [broker EXCEPT ![b] = [@ EXCEPT !.wait = "none",
                                                       !.up = broker[b].state = "open"]]
          /\ UNCHANGED client
       \/ broker[b].state = "open" /\ Closed(b, [broker[b] EXCEPT !.wait = "none"])
    /\ UNCHANGED <<vd, serial, serving, registry, printed>>

Recent(s) == IF Len(s) > HistoryMax THEN Tail(s) ELSE s

\* (mutant) a subscriber whose queue is full just misses the chunk
NeverSlow(b) == {}

\* enqueue refuses what would exceed the queue of a client, or a closed one.
Slow(b) == {c \in Subscribers(b) : ~client[c].open \/ Len(client[c].queue) >= QueueMax}

Enqueued(c, chunk) == [client[c] EXCEPT !.queue =
                          IF Len(@) < QueueMax THEN Append(@, chunk) ELSE @]

FanOut(b) ==
    LET chunk == printed + 1
    IN /\ broker[b].up /\ broker[b].state = "open" /\ printed < MaxChunks /\ ConsoleFound
       /\ printed' = chunk
       /\ client' = [c \in ConsoleClient |->
                       IF c \in Slow(b) THEN [client[c] EXCEPT !.sub = FALSE, !.open = FALSE]
                       ELSE IF c \in Subscribers(b) THEN Enqueued(c, chunk)
                       ELSE client[c]]
       /\ broker' = IF Slow(b) = {} THEN [broker EXCEPT ![b].history = Recent(Append(@, chunk))]
                    ELSE [Timed(b, Subscribers(b) \ Slow(b))
                            EXCEPT ![b].history = Recent(Append(@, chunk))]
       /\ UNCHANGED <<vd, serial, serving, registry>>

\* The reader sees the end of the process or an error.
ReadEnds(b) ==
    /\ broker[b].up /\ broker[b].state = "open"
    /\ Closed(b, broker[b])
    /\ UNCHANGED <<vd, serial, serving, registry, printed>>

TimerFires(b) ==
    /\ broker[b].timer /\ ~broker[b].firing
    /\ broker' = [broker EXCEPT ![b].firing = TRUE]
    /\ UNCHANGED <<vd, serial, serving, registry, client, printed>>

TimerCloses(b) ==
    /\ broker[b].firing
    /\ IF broker[b].state = "open"
       THEN Closed(b, [broker[b] EXCEPT !.firing = FALSE])
       ELSE broker' = [broker EXCEPT ![b].firing = FALSE] /\ UNCHANGED client
    /\ UNCHANGED <<vd, serial, serving, registry, printed>>

\* _cleanup_container_telnet kills every telnet to the port of this console.
CutOff(b) == IF serial /\ broker[b].up THEN Broker \ {b} ELSE {}

\* The rest of close(): end the process and the telnets; then the table and
\* _cleanup_done.
CloseKills(b) ==
    /\ broker[b].state = "closed"
    /\ broker' = [x \in Broker |->
                    CASE x = b -> [broker[b] EXCEPT !.state = "killed", !.up = FALSE]
                      [] x \in CutOff(b) -> [broker[x] EXCEPT !.up = FALSE]
                      [] OTHER -> broker[x]]
    /\ UNCHANGED <<vd, serial, serving, registry, client, printed>>

CloseEnds(b) ==
    /\ broker[b].state = "killed"
    /\ broker' = [broker EXCEPT ![b] = [@ EXCEPT !.state = "gone", !.history = <<>>]]
    /\ registry' = IF registry = b THEN "none" ELSE registry
    /\ UNCHANGED <<vd, serial, serving, client, printed>>

\* SIGTERM: main() stops accepting and closes the broker of the table.
Terminate ==
    /\ serving /\ serving' = FALSE
    /\ IF registry # "none" /\ broker[registry].state = "open"
       THEN Closed(registry, broker[registry])
       ELSE UNCHANGED <<broker, client>>
    /\ UNCHANGED <<vd, serial, registry, printed>>

\* The container boots, stops and starts again (external).
VdChanges ==
    /\ vd' = CASE vd = "boots" -> "ready" [] vd = "ready" -> "down" [] OTHER -> "boots"
    /\ UNCHANGED <<serial, serving, registry, broker, client, printed>>

RelayInit ==
    /\ vd \in {"boots", "ready"} /\ serial \in BOOLEAN /\ serving = TRUE
    /\ registry = "none"
    /\ broker = [b \in Broker |-> Fresh]
    /\ client = [c \in ConsoleClient |-> Caller]
    /\ printed = 0

BrokerNext(b) ==
    \/ WaitUpstream(b) \/ StartUpstream(b) \/ FanOut(b) \/ ReadEnds(b)
    \/ TimerFires(b) \/ TimerCloses(b) \/ CloseKills(b) \/ CloseEnds(b)

ClientNext(c) ==
    Request(c) \/ StreamLogs(c) \/ GetBroker(c) \/ Attach(c) \/ Send(c) \/ Detach(c)

RelayNext ==
    \/ \E b \in Broker : BrokerNext(b)
    \/ \E c \in ConsoleClient : ClientNext(c)
    \/ Terminate \/ VdChanges

RelaySpec == RelayInit /\ [][RelayNext]_relayVars

-----------------------------------------------------------------------------
(* Properties.                                                             *)

\* What a client has been sent and what waits for it is one unbroken piece of
\* what the console printed, up to the last chunk while it is subscribed: the
\* replay neither doubles nor loses live output ("live bytes can arrive before or
\* after the replay, never in the middle"), and a slow client is cut off rather
\* than given output with holes.
OutputIsUnbroken ==
    \A c \in ConsoleClient :
        LET seen == client[c].got \o client[c].queue
        IN /\ \A i \in 1..(Len(seen) - 1) : seen[i + 1] = seen[i] + 1
           /\ client[c].sub /\ seen # <<>> /\ broker[client[c].broker].history # <<>> =>
                LET h == broker[client[c].broker].history IN seen[Len(seen)] = h[Len(h)]

\* Two brokers never hold a console process at the same time, so the pkill of a
\* closing broker never ends the upstream of its replacement.
OneUpstream ==
    \A a, b \in Broker : broker[a].up /\ broker[b].up => a = b
=============================================================================
