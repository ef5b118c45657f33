---------------------------- MODULE LiveSessions ----------------------------
(***************************************************************************)
(* The web sockets of the GUI for one lab: the stream of progress events   *)
(* with its bus (services/events_bus.py, ws_events of multinode_routes.py) *)
(* and the console and log sockets, all of them tracked by the registry    *)
(* that ends them at shutdown (services/shutdown_registry.py, main.py,     *)
(* run.py).  Handlers share the event loop; publishers are worker threads  *)
(* and a step of theirs falls between any two steps of a handler.          *)
(***************************************************************************)
EXTENDS Naturals, Sequences, FiniteSets, SequencesExt

CONSTANTS
    Socket,    \* web sockets that clients open
    Publisher,  \* worker threads that report progress
    Buffer,     \* buffer_size of the bus
    MaxEvents   \* bound on the events published

ASSUME SessionsAssumption ==
    /\ Buffer \in Nat \ {0} /\ MaxEvents \in Nat
    /\ IsFiniteSet(Socket) /\ "all" \notin Socket

VARIABLES
    history,    \* _history[lab], a ring of the last Buffer events
    published,  \* number of events published so far
    publisher,  \* the event a worker has appended and not yet scheduled, or 0
    loop,       \* callbacks scheduled on the event loop: _try_put and _cancel_active
    socket,    \* the handlers
    stopping,   \* _shutdown_requested
    drain       \* the shutdown handler: "no", "waits" or "over"

liveVars == <<history, published, publisher, loop, socket, stopping, drain>>

Opened(kind) == [kind |-> kind, pc |-> "opens", subscribed |-> FALSE, queue |-> <<>>,
                 got |-> {}, tracked |-> FALSE, cancelled |-> FALSE, dropped |-> {}]
NoSession == [Opened("none") EXCEPT !.pc = "idle"]

-----------------------------------------------------------------------------
(* EventsBus.                                                              *)

\* publish, first half: the ring drops its oldest event.
Publish(p) ==
    /\ published < MaxEvents /\ publisher[p] = 0
    /\ published' = published + 1
    /\ publisher' = [publisher EXCEPT ![p] = published']
    /\ LET h == Append(history, published')
       IN history' = IF Len(h) > Buffer THEN Tail(h) ELSE h
    /\ UNCHANGED <<loop, socket, stopping, drain>>

Subscribed == {s \in Socket : socket[s].subscribed}

\* publish, second half: one callback per subscriber of this moment.
Schedule(p) ==
    /\ publisher[p] # 0
    /\ loop' = loop \o SetToSeq({[to |-> s, event |-> publisher[p]] : s \in Subscribed})
    /\ publisher' = [publisher EXCEPT ![p] = 0]
    /\ UNCHANGED <<history, published, socket, stopping, drain>>

\* _try_put: a full queue drops the event.
Put(s, e) ==
    socket' = IF Len(socket[s].queue) < 2 * Buffer
              THEN [socket EXCEPT ![s].queue = Append(@, e)]
              ELSE [socket EXCEPT ![s].dropped = @ \cup {e}]

-----------------------------------------------------------------------------
(* ShutdownRegistry.                                                       *)

\* (mutant) a socket that registers after the request is not told
TrackedLate(s, pc) == [socket[s] EXCEPT !.pc = pc, !.tracked = TRUE]

\* track and register: a socket that comes after the request is cancelled.
Tracked(s, pc) == [socket[s] EXCEPT !.pc = pc, !.tracked = TRUE, !.cancelled = stopping]

\* _cancel_active: every registered task is cancelled.
CancelActive ==
    socket' = [s \in Socket |-> IF socket[s].tracked
                                  THEN [socket[s] EXCEPT !.cancelled = TRUE]
                                  ELSE socket[s]]

\* The signal handler of the server (run.py).
RequestShutdown ==
    /\ ~stopping /\ stopping' = TRUE
    /\ loop' = Append(loop, [to |-> "all", event |-> 0])
    /\ UNCHANGED <<history, published, publisher, socket, drain>>

\* drain asks again, then waits until no socket is registered or time is over.
Drain ==
    /\ stopping
    /\ \/ /\ drain = "no" /\ drain' = "waits"
          /\ loop' = Append(loop, [to |-> "all", event |-> 0])
       \/ /\ drain = "waits" /\ drain' = "over" /\ UNCHANGED loop
    /\ UNCHANGED <<history, published, publisher, socket, stopping>>

\* A handler between the two halves of subscribe holds the event loop.
LoopFree == \A s \in Socket : socket[s].pc # "subscribing"

RunCallback ==
    /\ LoopFree /\ loop # <<>>
    /\ loop' = Tail(loop)
    /\ IF Head(loop).to = "all" THEN CancelActive ELSE Put(Head(loop).to, Head(loop).event)
    /\ UNCHANGED <<history, published, publisher, stopping, drain>>

-----------------------------------------------------------------------------
(* The handlers: ws_events, console_ws and logs_ws.                        *)

Handles(s, record) ==
    /\ socket' = [socket EXCEPT ![s] = record]
    /\ UNCHANGED <<history, published, publisher, loop, stopping, drain>>

\* The handshake: a bad origin, no user or no lab ends it before accept().
Open(s) ==
    /\ LoopFree /\ socket[s].pc = "idle" /\ drain # "over"
    /\ \/ \E kind \in {"events", "console", "logs"} : Handles(s, Opened(kind))
       \/ Handles(s, [NoSession EXCEPT !.pc = "done"])

\* (mutant) the history is copied before the queue is registered
ReplaysFirst(s, half) ==
    IF half = 1 THEN [socket[s] EXCEPT !.pc = "subscribing", !.queue = history]
                ELSE [Tracked(s, "streams") EXCEPT !.subscribed = TRUE]

\* subscribe registers the queue and then copies the history into it; track
\* follows in the same step of the loop.
Subscription(s, half) ==
    IF half = 1 THEN [socket[s] EXCEPT !.pc = "subscribing", !.subscribed = TRUE]
                ELSE [Tracked(s, "streams") EXCEPT !.queue = history]

Subscribe(s) ==
    \/ /\ LoopFree /\ socket[s].pc = "opens" /\ socket[s].kind = "events"
       /\ Handles(s, Subscription(s, 1))
    \/ /\ socket[s].pc = "subscribing"
       /\ Handles(s, Subscription(s, 2))

\* A console is tracked while its relay is resolved.
OpenConsole(s) ==
    /\ LoopFree
    /\ \/ /\ socket[s].pc = "opens" /\ socket[s].kind = "console"
          /\ Handles(s, Tracked(s, "relay"))
       \/ /\ socket[s].pc = "relay" /\ ~socket[s].cancelled
          /\ Handles(s, [socket[s] EXCEPT !.pc = "streams"])

\* A log socket is tracked once its relay is resolved, and an error of the resolution
\* ends its handler at once.
OpenLogs(s) ==
    /\ LoopFree /\ socket[s].pc = "opens" /\ socket[s].kind = "logs"
    /\ \/ Handles(s, Tracked(s, "streams"))
       \/ Handles(s, [socket[s] EXCEPT !.pc = "done"])

\* q.get() and send_json.
Stream(s) ==
    /\ LoopFree /\ socket[s].pc = "streams" /\ socket[s].queue # <<>>
    /\ ~socket[s].cancelled
    /\ Handles(s, [socket[s] EXCEPT !.queue = Tail(@), !.got = @ \cup {Head(socket[s].queue)}])

\* The client leaves, an error, or the cancellation arrives: the finally of ws_events
\* leaves the bus, then closes the socket.
Leave(s) ==
    /\ LoopFree /\ socket[s].pc = "streams" /\ socket[s].kind = "events"
    /\ Handles(s, [socket[s] EXCEPT !.pc = "ends", !.subscribed = FALSE])

\* The relay cannot be opened, either side of the bridge ends or the cancellation
\* arrives: the connection to the relay is closed.
RelayEnds(s) ==
    /\ LoopFree /\ socket[s].pc \in {"relay", "streams"} /\ socket[s].kind # "events"
    /\ Handles(s, [socket[s] EXCEPT !.pc = "ends"])

\* unregister, when the context of track is left.
Unregister(s) ==
    /\ LoopFree /\ socket[s].pc = "ends"
    /\ Handles(s, [NoSession EXCEPT !.pc = "done"])

LiveInit ==
    /\ history = <<>> /\ published = 0
    /\ publisher = [p \in Publisher |-> 0]
    /\ loop = <<>>
    /\ socket = [s \in Socket |-> NoSession]
    /\ stopping = FALSE /\ drain = "no"

LiveNext ==
    \/ \E p \in Publisher : Publish(p) \/ Schedule(p)
    \/ \E s \in Socket : Open(s) \/ Subscribe(s) \/ OpenConsole(s) \/ OpenLogs(s)
                      \/ Stream(s) \/ Leave(s) \/ RelayEnds(s) \/ Unregister(s)
    \/ RequestShutdown \/ Drain \/ RunCallback

LiveSpec == LiveInit /\ [][LiveNext]_liveVars

-----------------------------------------------------------------------------
(* Properties.                                                             *)

Pending(s) == {loop[i].event : i \in {j \in DOMAIN loop : loop[j].to = s}}

\* A client that watches a lab gets every event the bus remembers, whenever it
\* came: the event was sent, waits in its queue, is on its way through the event
\* loop, is still in the hands of its publisher, or was dropped by a full queue.  An
\* event published while the client subscribes cannot fall between the replay and
\* the live stream (it may come twice).
NothingIsMissed ==
    \A s \in Socket :
        socket[s].pc = "streams" /\ socket[s].kind = "events" =>
            Range(history) \subseteq
                socket[s].got \cup Range(socket[s].queue) \cup socket[s].dropped
                    \cup Pending(s) \cup Range(publisher)

\* Once the request has been carried out, no registered socket is left running:
\* one that registers between the request and _cancel_active, or after it, is
\* cancelled too, so the service does not wait for it.
ShutdownReachesAll ==
    stopping /\ (\A i \in DOMAIN loop : loop[i].to # "all") =>
        \A s \in Socket : socket[s].tracked => socket[s].cancelled
=============================================================================
