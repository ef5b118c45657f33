---------------------------- MODULE FollowRabbit ----------------------------
(***************************************************************************)
(* Follow the Rabbit (services/follow_rabbit.py): a trace watches every    *)
(* link its flow can take, once per direction, with a task that reads a    *)
(* tcpdump through ssh, and ends when the tasks have ended, at its         *)
(* deadline or when a client stops it.  What is modelled is the task and   *)
(* its ssh client.  The tcpdump on the other host runs under a timeout of  *)
(* its own and may outlive both: nothing here ends it.  The lock of the    *)
(* manager is never held across an await and so never waited for: what a   *)
(* coroutine does between two awaits is one step here.                     *)
(***************************************************************************)
EXTENDS Integers, Sequences, FiniteSets, Functions

CONSTANTS
    Wire,       \* identifiers of runtime links
    WireEnds,   \* WireEnds[w]: its two nodes, <<node_a, node_b>>
    Trace,      \* sessions
    Stopper,    \* requests that stop one
    Routes,     \* [source, path, ttl, back]: paths a flow can take, its TTLs on them and
                \* those of its answers, <<>> if there are none
    MaxTraces   \* follow_the_rabbit.max_sessions

ASSUME RabbitAssumption ==
    /\ MaxTraces \in Nat
    /\ \A r \in Routes : r.path \in Seq(Wire) /\ r.ttl \in Seq(Nat) /\ r.back \in Seq(Nat)

VARIABLES
    route,     \* the way the traced packets take
    trace,     \* trace[t]: its status, its finisher and whether _tasks has its tasks
    probe,     \* probe[t][p]: the task of link and direction p, and its ssh (below)
    seen,      \* packet_obs, as <<link, direction, ttl>>
    stopper    \* the stop requests

rabbitVars == <<route, trace, probe, seen, stopper>>

-----------------------------------------------------------------------------
(* The topology graph (services/flow_reconstruct.py).                      *)

NodesOf(ws) == UNION {Range(WireEnds[w]) : w \in ws}
Touches(w, n) == n \in Range(WireEnds[w])
OtherEnd(w, n) == IF WireEnds[w][1] = n THEN WireEnds[w][2] ELSE WireEnds[w][1]

\* candidate_links: breadth first, a ring per round.  There are no more rings than links.
CandidateLinks(source) ==
    LET Rings[i \in Nat] ==
            IF i = 0 THEN {}
            ELSE {w \in Wire : NodesOf({w}) \cap ({source} \cup NodesOf(Rings[i - 1])) # {}}
    IN  Rings[Cardinality(Wire)]

-----------------------------------------------------------------------------

Leg == {"forward", "return"}
Watch == Wire \X Leg
NoTrace == [status |-> "none", finisher |-> "none", tasks |-> FALSE]
NoStop == [pc |-> "idle", trace |-> "none", waits |-> FALSE]

\* A probe reads ("runs"), or its handler has terminated ssh and waits for it
\* ("cancelled").  Otherwise its task has ended: ssh has ended and was waited for
\* ("over"), was terminated and left ("cut"), or was left as it was ("orphan").
Alive(t) == {p \in Watch : probe[t][p] \in {"runs", "cancelled"}}

\* task.cancel() on the tasks that have not ended.  The handler of one that reads waits
\* for its ssh; in one that waits already, the wait is what is cancelled.
Cancelled == [runs |-> "cancelled", cancelled |-> "cut"]
CancelProbes(t) == probe' = [probe EXCEPT ![t] =
                      [p \in Watch |-> IF p \in Alive(t) THEN Cancelled[@[p]] ELSE @[p]]]

-----------------------------------------------------------------------------

\* The source is no node or the lab is not deployed, or too many traces run: refused.
\* Otherwise a probe per direction on the links that can carry the flow, and the finisher.
Start(t) ==
    /\ trace[t] = NoTrace
    /\ Cardinality({u \in Trace : trace[u].status = "running"}) < MaxTraces
    /\ trace' = [trace EXCEPT ![t] = [status |-> "running", finisher |-> "new", tasks |-> TRUE]]
    /\ probe' = [probe EXCEPT ![t] =
                   [p \in Watch |-> IF p[1] \in CandidateLinks(route.source) THEN "runs" ELSE "none"]]
    /\ UNCHANGED <<route, seen, stopper>>

\* Where a packet of a leg is seen and with which TTL.  A flow need not be answered.
Packets ==
    {<<route.path[i], "forward", route.ttl[i]>> : i \in DOMAIN route.path}
        \cup {<<route.path[i], "return", route.back[i]>> : i \in DOMAIN route.back}

\* on_packet: the packet is kept.  The first one of a link is a hit and forces a new
\* reconstruction, so what is shown is always what was seen; later ones add nothing.
Packet(t, p) ==
    /\ probe[t][p] = "runs"
    /\ \E k \in Packets :
         /\ k[1] = p[1] /\ k[2] = p[2] /\ k \notin seen[t]
         /\ seen' = [seen EXCEPT ![t] = @ \cup {k}]
    /\ UNCHANGED <<route, trace, probe, stopper>>

\* ssh ends: tcpdump has (its count, its own timeout or an error), or it was terminated.
ProbeEnds(t, p) ==
    /\ p \in Alive(t)
    /\ probe' = [probe EXCEPT ![t][p] = "over"]
    /\ UNCHANGED <<route, trace, seen, stopper>>

\* A packet that cannot be parsed or counted raises: only a cancellation ends ssh.
ProbeBreaksOff(t, p) ==
    /\ probe[t][p] = "runs"
    /\ probe' = [probe EXCEPT ![t][p] = "orphan"]
    /\ UNCHANGED <<route, trace, seen, stopper>>

Finishes(t, pc) == trace' = [trace EXCEPT ![t].finisher = pc]

\* _finish_after_timeout: all probes have ended or the deadline has passed; those that
\* remain get a moment to deliver, and are cancelled.
FinisherWaits(t) ==
    /\ \/ /\ trace[t].finisher = "new"
          /\ Finishes(t, IF trace[t].status = "running" THEN "waits" ELSE "over")
          /\ UNCHANGED probe
       \/ /\ trace[t].finisher = "waits"
          /\ Finishes(t, IF Alive(t) = {} THEN "cancels" ELSE "drains")
          /\ UNCHANGED probe
       \/ /\ trace[t].finisher = "drains"
          /\ Finishes(t, "cancels") /\ CancelProbes(t)
    /\ UNCHANGED <<route, seen, stopper>>

\* (mutant) the cancelled probes are not waited for
NotGathered(t) == TRUE

\* gather of what was cancelled.
Gathered(t) == Alive(t) = {}

\* The end: the trace is done unless it was stopped.
FinisherEnds(t) ==
    /\ trace[t].finisher = "cancels" /\ Gathered(t)
    /\ IF trace[t].status = "running"
       THEN trace' = [trace EXCEPT ![t] = [status |-> "done", finisher |-> "over", tasks |-> FALSE]]
       ELSE Finishes(t, "over")
    /\ UNCHANGED <<route, probe, seen, stopper>>

\* stop: whoever takes the tasks out of the table cancels them, the finisher too, and
\* waits; a second request, or one for a trace that is done, finds none.
Stop(s, t) ==
    /\ stopper[s] = NoStop /\ trace[t] # NoTrace
    /\ stopper' = [stopper EXCEPT ![s] = [pc |-> "gathers", trace |-> t, waits |-> trace[t].tasks]]
    /\ trace' = [trace EXCEPT ![t] = [status |-> "stopped", tasks |-> FALSE,
                    finisher |-> IF trace[t].tasks THEN "over" ELSE @.finisher]]
    /\ IF trace[t].tasks THEN CancelProbes(t) ELSE UNCHANGED probe
    /\ UNCHANGED <<route, seen>>

StopEnds(s) ==
    /\ stopper[s].pc = "gathers"
    /\ stopper[s].waits => Gathered(stopper[s].trace)
    /\ stopper' = [stopper EXCEPT ![s].pc = "done"]
    /\ UNCHANGED <<route, trace, probe, seen>>

RabbitInit ==
    /\ route \in Routes
    /\ trace = [t \in Trace |-> NoTrace]
    /\ probe = [t \in Trace |-> [p \in Watch |-> "none"]]
    /\ seen = [t \in Trace |-> {}]
    /\ stopper = [s \in Stopper |-> NoStop]

RabbitNext ==
    \/ \E t \in Trace :
         \/ Start(t) \/ FinisherWaits(t) \/ FinisherEnds(t)
         \/ \E p \in Watch : Packet(t, p) \/ ProbeEnds(t, p) \/ ProbeBreaksOff(t, p)
         \/ \E s \in Stopper : Stop(s, t)
    \/ \E s \in Stopper : StopEnds(s)

RabbitSpec == RabbitInit /\ [][RabbitNext]_rabbitVars

-----------------------------------------------------------------------------
(* Properties.                                                             *)

\* What has ended is quiet.  A trace that is done, or whose stop was answered by the
\* request that cancelled it, has no task left that could add to its result or wait for
\* an ssh, however its probes, its deadline and its stops cross.  The ssh clients of one
\* that is done were all waited for, but those an exception broke off; a stop can leave
\* behind those that its trace was just cancelling itself.
EndIsQuiet ==
    \A t \in Trace :
        /\ trace[t].status = "done" => \A p \in Watch : probe[t][p] \in {"none", "over", "orphan"}
        /\ \A s \in Stopper :
              stopper[s] = [pc |-> "done", trace |-> t, waits |-> TRUE] => Alive(t) = {}
        /\ \A p \in Watch : probe[t][p] = "cut" => trace[t].status = "stopped"
=============================================================================
