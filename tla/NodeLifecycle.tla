--------------------------- MODULE NodeLifecycle ---------------------------
(***************************************************************************)
(* The life of the virtual devices (VDs) of one deployed lab.              *)
(*                                                                         *)
(* The multinode API serialises every mutation of a lab behind one FIFO    *)
(* lock and runs the mutation in a worker thread, on a controller built    *)
(* from the state file.  Start requests are also registered in a table     *)
(* outside the lock, so that a stop request can cancel a queued or running *)
(* start at once.  The worker reports its progress by saving the state     *)
(* file; the service may die between any two of its steps.                 *)
(*                                                                         *)
(* `disk' is the state file, `mem' the controller's copy of it, `cont',    *)
(* `bg' and `dp' the lab hosts as the remote commands leave them.          *)
(***************************************************************************)
EXTENDS Naturals, Sequences, FiniteSets

CONSTANTS
    Node,       \* the VDs of the saved topology
    Link,       \* the links the saved topology may contain
    Ends,       \* Ends[l]: the VDs of l (one VD for a link to a real network)
    Settings,   \* the settings considered: what clients ask for, what may fail
    MaxQueue,   \* bound on the requests that wait for the lock
    MaxCrash    \* bound on the crashes of the service

FaultKinds == {"remote",   \* a remote command, or a wait for it, fails
               "loss",     \* the SSH transport is gone: cleanup raises as well
               "silent",   \* containerlab destroy fails and nobody notices
               "orphan",   \* an abandoned deploy goes on by itself
               "history",  \* the placement history cannot be written
               "crash"}    \* the service dies

ClientKinds == {"start", "stop", "restart", "remove", "reconcile", "link", "edit"}

ASSUME EndsAssumption   == Ends \in [Link -> (SUBSET Node) \ {{}}]
ASSUME SettingsAssumption ==
    Settings \subseteq [clients : SUBSET ClientKinds, faults : SUBSET FaultKinds]
ASSUME BoundsAssumption == MaxQueue \in Nat /\ MaxCrash \in Nat

VARIABLES
    disk,       \* the saved state: rt (VD -> state) and lk (link -> state)
    mem,        \* the controller's copy of it
    cont,       \* VDs whose container runs
    bg,         \* VDs with an abandoned deploy still running on their host
    dp,         \* links connected on the hosts
    desired,    \* links of the saved topology
    topo,       \* links of the topology the controller has parsed
    op,         \* _active_node_starts
    waiting,    \* requests waiting for _mutating_lock
    job,        \* the request that holds the lock
    adding,     \* the job is a hot add: it began without runtime state
    prev,       \* previous_links of a hot add, which its rollback restores
    pc,         \* where the worker is
    result,     \* how the worker ended: it returned or it raised
    crashes,    \* number of crashes so far
    undone,     \* (auxiliary) VDs whose hot add failed after it had saved them as
                \* running, as long as the file calls them running
    setting     \* the setting of this behaviour, chosen once

vars == <<disk, mem, cont, bg, dp, desired, topo, op, waiting, job, adding,
          prev, pc, result, crashes, undone, setting>>
hosts == <<cont, bg, dp>>
lockq == <<waiting, job, adding, prev, topo>>

-----------------------------------------------------------------------------
(* Values *)

RtState == {"absent", "stopped", "starting", "reconciling", "running",
            "stopping", "cancelling", "error"}
Transient == {"starting", "reconciling", "stopping", "cancelling"}
LkState == {"absent", "pending", "invalid", "down", "partial", "up", "error"}
State   == [rt : [Node -> RtState], lk : [Link -> LkState]]

NodeRequest == {"start", "stop", "restart", "remove", "reconcile"} \X Node
LinkRequest == {"link"} \X Link
Request     == NodeRequest \cup LinkRequest
NoJob       == <<"none", "none">>
NoLinks     == [l \in Link |-> "absent"]

Idle == [on |-> FALSE, phase |-> "queued", cancel |-> FALSE]
Operation == [on     : BOOLEAN,
              phase  : RtState \cup {"queued"},
              cancel : BOOLEAN]

Pc == {"idle", "load", "connect", "prepare", "deploy", "wait", "refresh",
       "links", "shared", "commit", "failed", "rollback", "forget",
       "cancel", "cancelDestroy", "cancelLinks",
       "stopConnect", "stopFirst", "stopSecond", "stopCommit", "removeConnect",
       "recConnect", "recLinks", "answer"}

Clients == setting.clients
Faults  == setting.faults

kind == job[1]
node == job[2]
LinksOf(n) == {l \in Link : n \in Ends[l]}

-----------------------------------------------------------------------------
(* Pieces of the controller *)

\* runtime.state = s, for the VD n of the controller's state m
WithRt(m, n, s) == [m EXCEPT !.rt = [m.rt EXCEPT ![n] = s]]
WithLk(m, lk)   == [m EXCEPT !.lk = lk]

\* save_state is atomic (write, fsync, rename): a save replaces disk.
Save(m) == mem' = m /\ disk' = m

\* _set_phase with its callback into the operation record; only a start
\* passes a callback.
Report(phase) ==
    op' = IF kind = "start" THEN [op EXCEPT ![node] = [op[node] EXCEPT !.phase = phase]] ELSE op

\* (mutant) the phase is not saved
SetPhaseInMemory(phase) ==
    /\ mem' = WithRt(mem, node, phase) /\ UNCHANGED disk
    /\ Report(phase)

\* _set_phase: runtime.state, the callback, the save
SetPhase(phase) == Save(WithRt(mem, node, phase)) /\ Report(phase)

\* cancel_event is given to the controller by the start request only.
Cancelled == kind = "start" /\ op[node].cancel

Return == pc' = "answer" /\ result' = "ok"
\* (mutant) an exception is answered as a success
Swallow == pc' = "answer" /\ result' = "ok"
Raise  == pc' = "answer" /\ result' = "raised"

\* _running_nodes: what create_link takes for a running endpoint
Running(m) == {n \in Node : m.rt[n] \in {"running", "reconciling"}}

\* _stopped_endpoints after `running_nodes or _nodes_in_link(link)`: an empty
\* set is false in Python and stands for "every endpoint runs".
StoppedEndpoints(l, running) == IF running = {} THEN {} ELSE Ends[l] \ running

\* A link that is pending or failed its validation keeps that mark whatever
\* state string a deletion or a stop writes into it.
Mark(lk, ls, s) ==
    [l \in Link |-> IF l \in ls /\ lk[l] \notin {"absent", "pending", "invalid"}
                    THEN s ELSE lk[l]]

\* _refresh_runtime_links, and the same lines of add: rebuild from the parsed topology
\* and merge with the previous links; bad are the links whose hot-link validation fails.
Refreshed(m, bad) ==
    [l \in Link |->
        IF l \notin topo THEN "absent"
        ELSE IF \E n \in Ends[l] : m.rt[n] = "absent" THEN "pending"
        ELSE IF m.lk[l] \in {"absent", "pending", "invalid"}
             THEN IF l \in bad THEN "invalid" ELSE "down"
        ELSE m.lk[l]]

\* delete_link for the links that left the topology
Dropped(m) == {l \in Link \ topo : m.lk[l] \notin {"absent", "pending"}}

\* create_link over the links in done, each either partial or brought up
Wired(ls, running) == {l \in ls : StoppedEndpoints(l, running) = {}}
Created(lk, done, running) ==
    Mark(Mark(lk, done, "partial"), Wired(done, running), "up")

\* A link can come up only over running containers.
CanWire(lk, ls) ==
    \A l \in ls : lk[l] # "pending" /\ \A n \in Ends[l] : cont[n]

\* remove drops the links of a VD from the state.
Forgotten(lk, ls) == [l \in Link |-> IF l \in ls THEN "absent" ELSE lk[l]]

Unplugged(d, ls) == [l \in Link |-> d[l] /\ l \notin ls]
Plugged(d, ls)   == [l \in Link |-> d[l] \/ l \in ls]

\* containerlab destroy (external, reached through destroy_clab): the
\* container and its interfaces vanish, or, unnoticed, they do not.
DestroyClab(n) ==
    \/ /\ cont' = [cont EXCEPT ![n] = FALSE]
       /\ dp' = Unplugged(dp, LinksOf(n))
    \/ /\ "silent" \in Faults
       /\ UNCHANGED <<cont, dp>>

-----------------------------------------------------------------------------
(* Requests: the event loop of the API *)

\* (mutant) no 409 while an attempt is active
MayAlwaysStart(n) == TRUE

\* 409 while an attempt for the VD is registered
MayStart(n) == ~ op[n].on

\* POST /labs/nodes/start: 409 while an attempt is active, else register it
\* and queue for the lock.
RequestStart(n) ==
    /\ "start" \in Clients
    /\ MayStart(n)
    /\ Len(waiting) < MaxQueue
    /\ op' = [op EXCEPT ![n] = [Idle EXCEPT !.on = TRUE]]
    /\ waiting' = Append(waiting, <<"start", n>>)
    /\ UNCHANGED <<disk, mem, hosts, desired, topo, job, adding, prev, pc, result, crashes>>

\* POST /labs/nodes/stop with an active attempt: cancel it and answer.
RequestCancel(n) ==
    /\ "stop" \in Clients
    /\ op[n].on
    /\ LET shown == IF op[n].phase = "queued" THEN "stopped" ELSE "cancelling"
       IN op' = [op EXCEPT ![n] = [on |-> TRUE, phase |-> shown, cancel |-> TRUE]]
    /\ UNCHANGED <<disk, mem, hosts, desired, lockq, pc, result, crashes>>

\* The other mutations only queue: stop without an active attempt, restart,
\* remove, reconcile of a VD and of a link.
RequestMutation(r) ==
    /\ r[1] \in Clients \ {"start"}
    /\ r[1] = "stop" => ~ op[r[2]].on
    /\ Len(waiting) < MaxQueue
    /\ waiting' = Append(waiting, r)
    /\ UNCHANGED <<disk, mem, hosts, desired, topo, op, job, adding, prev, pc, result, crashes>>

\* The GUI saves an edited topology at any time, outside the lock.
EditTopology(l) ==
    /\ "edit" \in Clients
    /\ desired' = IF l \in desired THEN desired \ {l} ELSE desired \cup {l}
    /\ UNCHANGED <<disk, mem, hosts, lockq, op, pc, result, crashes>>

\* async with _mutating_lock: the first waiter gets the lock.
Acquire ==
    /\ pc = "idle" /\ waiting # <<>>
    /\ job' = Head(waiting)
    /\ waiting' = Tail(waiting)
    /\ pc' = "load"
    /\ UNCHANGED <<disk, mem, hosts, desired, topo, op, adding, prev, result, crashes>>

\* (mutant) a failed attempt stays in the table
UnregisterOnSuccess ==
    op' = IF kind = "start" /\ result = "ok" THEN [op EXCEPT ![node] = Idle] ELSE op

\* finally: done.set() and the attempt leaves the table
Unregister == op' = IF kind = "start" THEN [op EXCEPT ![node] = Idle] ELSE op

\* The response is sent, the lock released and the attempt unregistered; the
\* event loop does this without an await in between.
Answer ==
    /\ pc = "answer"
    /\ Unregister
    /\ mem' = disk
    /\ job' = NoJob /\ pc' = "idle" /\ result' = "ok" /\ adding' = FALSE
    /\ topo' = {} /\ prev' = NoLinks
    /\ UNCHANGED <<disk, hosts, desired, waiting, crashes>>

-----------------------------------------------------------------------------
(* The worker: a controller is built from the state file, then one method   *)
(* of it runs.                                                              *)

\* (mutant) no handler settles the phase of the VD
FailUnhandled == Raise

\* What an exception leads to: the cancellation cleanup when the attempt was
\* cancelled, the rollback of a hot add, or the state "error".
Fail == /\ pc' = IF Cancelled THEN "cancel"
                 ELSE IF adding THEN "rollback" ELSE "failed"
        /\ UNCHANGED result

\* _check_cancelled in front of the next step
Proceed(next) == /\ pc' = IF Cancelled THEN "cancel" ELSE next
                 /\ UNCHANGED result

InRt(n, s) == disk.rt[n] = s

\* NodeLifecycleController.__init__ and the early returns of the method
LoadStart ==
    /\ kind = "start"
    /\ \/ Cancelled /\ Raise /\ UNCHANGED adding
       \/ ~ Cancelled /\ InRt(node, "running") /\ Return /\ UNCHANGED adding
       \/ /\ ~ Cancelled /\ InRt(node, "absent")
          /\ pc' = "prepare" /\ adding' = TRUE /\ UNCHANGED result
       \/ /\ ~ Cancelled /\ disk.rt[node] \notin {"running", "absent"}
          /\ pc' = "connect" /\ UNCHANGED <<adding, result>>

LoadStop ==
    /\ kind \in {"stop", "restart", "remove"}
    /\ \/ InRt(node, "absent") /\ kind = "stop" /\ Return
       \/ InRt(node, "absent") /\ kind # "stop" /\ Raise
       \/ InRt(node, "stopped") /\ kind = "stop" /\ Return
       \/ InRt(node, "stopped") /\ kind = "restart" /\ pc' = "connect" /\ UNCHANGED result
       \/ InRt(node, "stopped") /\ kind = "remove" /\ pc' = "removeConnect" /\ UNCHANGED result
       \/ disk.rt[node] \notin {"absent", "stopped"} /\ pc' = "stopConnect" /\ UNCHANGED result
    /\ UNCHANGED adding

LoadReconcile ==
    /\ kind \in {"reconcile", "link"}
    /\ pc' = "recConnect" /\ UNCHANGED <<adding, result>>

Load ==
    /\ pc = "load"
    /\ mem' = disk /\ topo' = desired
    /\ LoadStart \/ LoadStop \/ LoadReconcile
    /\ prev' = IF adding' THEN disk.lk ELSE NoLinks
    /\ UNCHANGED <<disk, hosts, desired, op, waiting, job, crashes>>

\* start: connect, check, phase "starting"
Connect ==
    /\ pc = "connect"
    /\ \/ /\ ~ Cancelled
          /\ SetPhase("starting")
          /\ pc' = "deploy" /\ UNCHANGED result
       \/ /\ Cancelled \/ "remote" \in Faults
          /\ Fail
          /\ UNCHANGED <<disk, mem, op>>
    /\ UNCHANGED <<hosts, desired, lockq, crashes>>

\* add, up to the runtime entry: connect, choose a host, management anchor,
\* web ports, generated files.  Nothing of the node is saved if this fails.
Prepare ==
    /\ pc = "prepare"
    /\ \/ /\ ~ Cancelled
          /\ SetPhase("starting")
          /\ pc' = "deploy" /\ UNCHANGED result
       \/ /\ Cancelled /\ Return
          /\ UNCHANGED <<disk, mem, op>>
       \/ /\ "remote" \in Faults /\ Raise
          /\ UNCHANGED <<disk, mem, op>>
    /\ UNCHANGED <<hosts, desired, lockq, crashes>>

\* deploy_clab, cancellable for a start.  An abandoned deploy (cancelled
\* before its pid file exists, or timed out) goes on by itself.
Deploy ==
    /\ pc = "deploy"
    /\ \/ /\ cont' = [cont EXCEPT ![node] = TRUE]
          /\ Proceed("wait")
          /\ UNCHANGED bg
       \/ /\ Cancelled \/ "remote" \in Faults
          /\ \E c \in {TRUE, cont[node]} : cont' = [cont EXCEPT ![node] = c]
          /\ \/ UNCHANGED bg
             \/ "orphan" \in Faults /\ bg' = [bg EXCEPT ![node] = TRUE]
          /\ Fail
    /\ UNCHANGED <<disk, mem, dp, desired, lockq, op, crashes>>

\* _wait_container_running, the default route, phase "reconciling"
Wait ==
    /\ pc = "wait"
    /\ \/ /\ ~ Cancelled /\ cont[node]
          /\ SetPhase("reconciling")
          /\ pc' = "refresh"
          /\ UNCHANGED <<cont, dp, result>>
       \/ /\ Cancelled \/ "remote" \in Faults
          /\ Fail
          /\ \/ UNCHANGED <<cont, dp>>
             \/ /\ "remote" \in Faults       \* the container exited
                /\ cont' = [cont EXCEPT ![node] = FALSE]
                /\ dp' = Unplugged(dp, LinksOf(node))
          /\ UNCHANGED <<disk, mem, op>>
    /\ UNCHANGED <<bg, desired, lockq, crashes>>

\* delete_link over ls, interrupted by the loss of the transport
DeleteRaises(ls) ==
    /\ "loss" \in Faults
    /\ \E gone \in SUBSET ls : \E f \in ls \ gone :
        /\ mem' = WithLk(mem, Mark(Mark(mem.lk, gone, "down"), {f}, "error"))
        /\ dp' = Unplugged(dp, gone)

\* add validates the links of its VD and those that failed before.
Validated == IF adding THEN LinksOf(node) \cup {l \in Link : mem.lk[l] = "invalid"} ELSE Link

\* A start refreshes the links and deletes those that left the topology; an add only
\* drops their records, so that their networks stay on the hosts.
Refresh ==
    /\ pc = "refresh"
    /\ \/ /\ \E bad \in SUBSET Validated : mem' = WithLk(mem, Refreshed(mem, bad))
          /\ dp' = IF adding THEN dp ELSE Unplugged(dp, Dropped(mem))
          /\ Proceed("links")
       \/ ~ adding /\ DeleteRaises(Dropped(mem)) /\ Fail
    /\ UNCHANGED <<disk, cont, bg, desired, lockq, op, crashes>>

\* reconcile_node_links takes the node's links that are not invalid,
\* reconcile_link exactly one link.
Todo == IF kind = "link" THEN {node}
        ELSE {l \in LinksOf(node) : mem.lk[l] \notin {"absent", "invalid"}}

\* create_link over all of Todo
CreateAll ==
    LET running == Running(mem) IN
    /\ CanWire(mem.lk, Wired(Todo, running))
    /\ mem' = WithLk(mem, Created(mem.lk, Todo, running))
    /\ dp' = Plugged(dp, Wired(Todo, running))

\* (mutant) a link that failed keeps the state it had
LeftAsItWas(lk, f) == lk

\* except Exception in create_link: link.state = "error"
LinkFailed(lk, f) == Mark(lk, {f}, "error")

\* create_link over done, then a failure at f; the failed link is taken apart
\* again unless the transport is gone.
CreateRaises ==
    LET running == Running(mem) IN
    \E f \in Wired(Todo, running) : \E done \in SUBSET (Todo \ {f}) :
        /\ "remote" \in Faults \/ Cancelled \/ ~ CanWire(mem.lk, {f})
        /\ CanWire(mem.lk, Wired(done, running))
        /\ mem' = WithLk(mem, LinkFailed(Created(mem.lk, done, running), f))
        /\ \/ dp' = Unplugged(Plugged(dp, Wired(done, running)), {f})
           \/ "loss" \in Faults /\ dp' = Plugged(dp, Wired(done, running))

\* start and add: reconcile_node_links
Links ==
    /\ pc = "links"
    /\ \/ CreateAll /\ Proceed(IF adding THEN "shared" ELSE "commit")
       \/ CreateRaises /\ Fail
    /\ UNCHANGED <<disk, cont, bg, desired, lockq, op, crashes>>

\* add only: _reconcile_shared_services (relays, DNS, jump host)
Shared ==
    /\ pc = "shared"
    /\ \/ Proceed("commit")
       \/ ("remote" \in Faults \/ Cancelled) /\ Fail
    /\ UNCHANGED <<disk, mem, hosts, desired, lockq, op, crashes>>

\* save_placement_history raises
HistoryFails == "history" \in Faults

\* The last lines of start and add: no check follows the one before them.  An add
\* writes the placement history after the file calls its VD running, and is undone
\* when that fails.
Commit ==
    /\ pc = "commit"
    /\ SetPhase("running")
    /\ \/ Return
       \/ adding /\ HistoryFails /\ Fail
    /\ UNCHANGED <<hosts, desired, lockq, crashes>>

\* except Exception in start and stop
Failed ==
    /\ pc = "failed"
    /\ Save(WithRt(mem, node, "error"))
    /\ Raise
    /\ UNCHANGED <<hosts, desired, lockq, op, crashes>>

\* except Exception in add, on the hosts: delete the node's links and destroy the
\* container, unless the handler itself raises on the way, and saves nothing.
Rollback ==
    /\ pc = "rollback"
    /\ \/ /\ dp' = Unplugged(dp, LinksOf(node))
          /\ \/ cont' = [cont EXCEPT ![node] = FALSE]
             \/ "silent" \in Faults /\ UNCHANGED cont
          /\ pc' = "forget" /\ UNCHANGED result
       \/ /\ "loss" \in Faults
          /\ \E gone \in SUBSET LinksOf(node) : dp' = Unplugged(dp, gone)
          /\ \E c \in {FALSE, cont[node]} : cont' = [cont EXCEPT ![node] = c]
          /\ Raise
    /\ UNCHANGED <<disk, mem, bg, desired, lockq, op, crashes>>

\* Its end: forget the node, restore the links as they were before, save.  The records
\* in previous_links are untouched: those of the topology were replaced by new ones, and
\* before that the links of the node are pending, which a deletion does not mark.
Forget ==
    /\ pc = "forget"
    /\ Save(WithLk(WithRt(mem, node, "absent"), prev))
    /\ Raise
    /\ UNCHANGED <<hosts, desired, lockq, op, crashes>>

\* _cancel_started_node: save "cancelling", destroy, delete the links, then
\* save "stopped" with every link of the node partial.  Errors are swallowed.
Cancel ==
    /\ pc = "cancel"
    /\ SetPhase("cancelling")
    /\ pc' = "cancelDestroy" /\ UNCHANGED result
    /\ UNCHANGED <<hosts, desired, lockq, crashes>>

\* (mutant) a cancelled start leaves its container behind
CancelKeepsContainer ==
    /\ pc = "cancelDestroy"
    /\ pc' = "cancelLinks" /\ UNCHANGED result
    /\ UNCHANGED <<disk, mem, hosts, desired, lockq, op, crashes>>

CancelDestroy ==
    /\ pc = "cancelDestroy"
    /\ \/ DestroyClab(node)
       \/ "loss" \in Faults /\ UNCHANGED <<cont, dp>>
    /\ pc' = "cancelLinks" /\ UNCHANGED result
    /\ UNCHANGED <<disk, mem, bg, desired, lockq, op, crashes>>

\* The state a cancelled start leaves behind
CancelledState(refreshed, bad) ==
    LET stopped == WithRt(mem, node, "stopped")
        lk      == IF refreshed THEN Refreshed(stopped, bad) ELSE mem.lk
    IN WithLk(stopped, Mark(lk, LinksOf(node), "partial"))

CancelLinks ==
    /\ pc = "cancelLinks"
    /\ \E gone \in SUBSET (LinksOf(node) \cup Dropped(mem)), bad \in SUBSET Link :
        LET all == gone = LinksOf(node) \cup Dropped(mem) IN
        /\ all \/ "loss" \in Faults
        /\ dp' = Unplugged(dp, gone)
        /\ Save(CancelledState(all, bad))
    /\ Report("stopped")
    /\ \/ Return
       \/ adding /\ HistoryFails /\ Raise
    /\ UNCHANGED <<cont, bg, desired, lockq, crashes>>

-----------------------------------------------------------------------------
(* stop, restart, remove *)

\* The API stops and removes with force, restart stops without.
Forced == kind # "restart"

\* (mutant) a forced stop writes the phase of the operation table
StopPhaseQueued(s) == IF Forced /\ s \notin {"running", "error"} THEN "queued" ELSE "stopping"

\* The phase a stop announces: a forced stop of a VD in flight cancels it.
StopPhase(s) ==
    IF Forced /\ s \in {"starting", "reconciling", "cancelling"}
    THEN "cancelling" ELSE "stopping"

StopConnect ==
    /\ pc = "stopConnect"
    /\ \/ /\ SetPhase(StopPhase(mem.rt[node]))
          /\ pc' = "stopFirst" /\ UNCHANGED result
       \/ "remote" \in Faults /\ Fail /\ UNCHANGED <<disk, mem, op>>
    /\ UNCHANGED <<hosts, desired, lockq, crashes>>

StopDestroy ==
    \/ /\ DestroyClab(node)
       /\ pc' = IF pc = "stopFirst" THEN "stopSecond" ELSE "stopCommit"
       /\ UNCHANGED <<mem, result>>
    \/ "loss" \in Faults /\ Fail /\ UNCHANGED <<mem, cont, dp>>

StopLinks ==
    /\ \/ /\ mem' = WithLk(mem, Mark(mem.lk, LinksOf(node), "down"))
          /\ dp' = Unplugged(dp, LinksOf(node))
          /\ pc' = IF pc = "stopFirst" THEN "stopSecond" ELSE "stopCommit"
          /\ UNCHANGED result
       \/ DeleteRaises(LinksOf(node)) /\ Fail
    /\ UNCHANGED cont

\* With force the container goes first, without it the links do.
StopWork ==
    /\ pc \in {"stopFirst", "stopSecond"}
    /\ IF Forced <=> pc = "stopFirst" THEN StopDestroy ELSE StopLinks
    /\ UNCHANGED <<disk, bg, desired, lockq, op, crashes>>

StopCommit ==
    /\ pc = "stopCommit"
    /\ Save(WithLk(WithRt(mem, node, "stopped"), Mark(mem.lk, LinksOf(node), "partial")))
    /\ \/ kind = "stop" /\ Return
       \/ kind = "restart" /\ pc' = "connect" /\ UNCHANGED result
       \/ kind = "remove" /\ pc' = "removeConnect" /\ UNCHANGED result
    /\ UNCHANGED <<hosts, desired, lockq, op, crashes>>

\* remove, after the stop: forget the VD and its links, refresh the shared
\* services, save, write the placement history.  A failure before raises and saves nothing.
Remove ==
    /\ pc = "removeConnect"
    /\ \/ /\ Save(WithLk(WithRt(mem, node, "absent"), Forgotten(mem.lk, LinksOf(node))))
          /\ Return \/ (HistoryFails /\ Raise)
       \/ "remote" \in Faults /\ Raise /\ UNCHANGED <<disk, mem>>
    /\ UNCHANGED <<hosts, desired, lockq, op, crashes>>

-----------------------------------------------------------------------------
(* reconcile and reconcile_link *)

\* connect, refresh; then the errors and early ends of the two methods
RecConnect ==
    /\ pc = "recConnect"
    /\ \/ /\ "remote" \in Faults /\ Raise
          /\ UNCHANGED <<disk, mem, dp>>
       \/ DeleteRaises(Dropped(mem)) /\ Raise /\ UNCHANGED disk
       \/ /\ dp' = Unplugged(dp, Dropped(mem))
          /\ \E bad \in SUBSET Link :
             LET m == WithLk(mem, Refreshed(mem, bad)) IN
             \/ /\ kind = "reconcile" /\ mem.rt[node] = "absent"
                /\ Raise /\ mem' = m /\ UNCHANGED disk
             \/ /\ kind = "link" /\ node \notin topo
                /\ Raise /\ mem' = m /\ UNCHANGED disk
             \/ /\ kind = "link" /\ node \in topo /\ m.lk[node] \in {"invalid", "pending"}
                /\ Return /\ Save(m)
             \/ /\ \/ kind = "reconcile" /\ mem.rt[node] # "absent"
                   \/ kind = "link" /\ node \in topo /\ m.lk[node] \notin {"invalid", "pending"}
                /\ pc' = "recLinks" /\ mem' = m /\ UNCHANGED <<disk, result>>
    /\ UNCHANGED <<cont, bg, desired, lockq, op, crashes>>

\* reconcile saves nothing when a link, or a shared service after the links,
\* fails; reconcile_link saves its one link as "error".
RecLinks ==
    /\ pc = "recLinks"
    /\ \/ CreateAll /\ Return /\ disk' = mem'
       \/ CreateAll /\ kind = "reconcile" /\ "remote" \in Faults /\ Raise /\ UNCHANGED disk
       \/ CreateRaises /\ kind = "reconcile" /\ Raise /\ UNCHANGED disk
       \/ CreateRaises /\ kind = "link" /\ Return /\ disk' = mem'
    /\ UNCHANGED <<cont, bg, desired, lockq, op, crashes>>

-----------------------------------------------------------------------------
(* The environment *)

\* The service dies and restarts: everything in memory is lost.
Crash ==
    /\ "crash" \in Faults /\ crashes < MaxCrash
    /\ crashes' = crashes + 1
    /\ op' = [n \in Node |-> Idle]
    /\ waiting' = <<>> /\ job' = NoJob /\ adding' = FALSE
    /\ prev' = NoLinks /\ topo' = {}
    /\ pc' = "idle" /\ result' = "ok" /\ mem' = disk
    /\ \/ UNCHANGED bg
       \/ /\ pc = "deploy" /\ "orphan" \in Faults
          /\ bg' = [bg EXCEPT ![node] = TRUE]
    /\ UNCHANGED <<disk, cont, dp, desired>>

\* An abandoned deploy ends, with or without a container.
OrphanEnds(n) ==
    /\ bg[n]
    /\ bg' = [bg EXCEPT ![n] = FALSE]
    /\ \E c \in {TRUE, cont[n]} : cont' = [cont EXCEPT ![n] = c]
    /\ UNCHANGED <<disk, mem, dp, desired, lockq, op, pc, result, crashes>>

-----------------------------------------------------------------------------
(* The specification *)

\* A lab after its deploy: the deployed VDs run and their links are up; the
\* other VDs and links were saved to the topology later.
Init ==
    /\ desired \in SUBSET Link
    /\ cont \in [Node -> BOOLEAN]
    /\ disk = [rt |-> [n \in Node |-> IF cont[n] THEN "running" ELSE "absent"],
               lk |-> [l \in Link |->
                         IF l \in desired /\ \A n \in Ends[l] : cont[n]
                         THEN "up" ELSE "absent"]]
    /\ dp = [l \in Link |-> disk.lk[l] = "up"]
    /\ mem = disk
    /\ bg = [n \in Node |-> FALSE]
    /\ topo = {}
    /\ op = [n \in Node |-> Idle]
    /\ waiting = <<>> /\ job = NoJob /\ adding = FALSE
    /\ prev = NoLinks /\ undone = {}
    /\ pc = "idle" /\ result = "ok"
    /\ crashes = 0
    /\ setting \in Settings

Worker ==
    \/ Load \/ Connect \/ Prepare \/ Deploy \/ Wait \/ Refresh \/ Links
    \/ Shared \/ Commit \/ Failed \/ Rollback \/ Forget
    \/ Cancel \/ CancelDestroy \/ CancelLinks
    \/ StopConnect \/ StopWork \/ StopCommit \/ Remove
    \/ RecConnect \/ RecLinks \/ Answer

Client ==
    \/ \E n \in Node : RequestStart(n) \/ RequestCancel(n)
    \/ \E r \in Request : RequestMutation(r)
    \/ \E l \in Link : EditTopology(l)

\* undone follows the other steps and hinders none: a commit that fails brings its VD
\* in, and a file that does not call it running any more takes it out.
FailsLate(n) == n = node /\ pc = "commit" /\ pc' \in {"rollback", "cancel"}
Follow ==
    /\ undone' = {n \in Node : (n \in undone \/ FailsLate(n)) /\ disk'.rt[n] = "running"}
    /\ UNCHANGED setting

Next ==
    /\ \/ Acquire \/ Worker \/ Client \/ Crash
       \/ \E n \in Node : OrphanEnds(n)
    /\ Follow

\* The lock is granted to its first waiter and the worker thread goes on;
\* remote commands end, by themselves or by their timeout.
Fairness ==
    /\ WF_vars(Acquire /\ Follow)
    /\ WF_vars(Worker /\ Follow)

Spec == Init /\ [][Next]_vars /\ Fairness

-----------------------------------------------------------------------------
(* Properties *)

TypeOK ==
    /\ disk \in State /\ mem \in State
    /\ cont \in [Node -> BOOLEAN] /\ bg \in [Node -> BOOLEAN]
    /\ dp \in [Link -> BOOLEAN]
    /\ desired \subseteq Link /\ topo \subseteq Link
    /\ op \in [Node -> Operation]
    /\ waiting \in Seq(Request)
    /\ job \in Request \cup {NoJob}
    /\ adding \in BOOLEAN /\ prev \in [Link -> LkState]
    /\ undone \subseteq Node
    /\ pc \in Pc /\ result \in {"ok", "raised"}
    /\ crashes \in 0..MaxCrash
    /\ setting \in Settings

\* What the file says of a VD that runs by right: the add of an undone one is not
\* finished, or was cut short.
CalledRunning(n) == disk.rt[n] = "running" /\ n \notin undone

\* A VD the state file calls running has a running container, whatever fails
\* and wherever the service dies: stop saves "stopping" before it destroys.
RunningHasContainer == \A n \in Node : CalledRunning(n) => cont[n]

\* The phases the file shows; a VD whose add failed late is in a phase of its own.
Shown == [n \in Node |-> IF n \in undone THEN "undone" ELSE disk.rt[n]]

Phases == INSTANCE VdPhases WITH Vd <- Node, phase <- Shown, up <- cont, stray <- bg

\* The state file keeps the promise of VdPhases to readers without the lock (Status,
\* the GUI, the cleanup): phases follow one another in order, and no request, failure
\* or crash lets a container come or go while its VD is saved as running, stopped,
\* failed or absent, but for a VD whose add fails after it was saved as running.
LivesByItsPhases == Phases!PhasesSpec

\* A start that holds the lock, or waits for it, is registered, so a stop
\* request can always reach it; no registration outlives its request.
StartsRegistered ==
    \A n \in Node :
        op[n].on <=> \/ job = <<"start", n>>
                     \/ \E i \in 1..Len(waiting) : waiting[i] = <<"start", n>>

\* A crash or a lost transport may cut the undoing of an add short.
CutShort == crashes > 0 \/ "loss" \in Faults

\* A start answered "completed" left its VD running (lab_node_start), or believed the
\* file about a VD whose earlier add was undone only in part.
CompletedMeansRunning ==
    pc = "answer" /\ kind = "start" /\ result = "ok" /\ ~ op[node].cancel
        => disk.rt[node] = "running" /\ (cont[node] \/ (CutShort /\ node \in undone))

\* Whenever no mutation is in progress, the service never died and the SSH
\* transport held, no VD is left in a passing phase: every error path of the
\* controller settles it.
PhasesSettle ==
    pc = "idle" /\ crashes = 0 /\ "loss" \notin Faults =>
        \A n \in Node : disk.rt[n] \notin Transient

\* A VD saved as stopped has no container, as long as containerlab destroy
\* does what it says and no abandoned deploy goes on.
StoppedHasNoContainer ==
    Faults \subseteq {"remote", "crash", "history"} => \A n \in Node : disk.rt[n] = "stopped" => ~ cont[n]

\* The requests and faults under which the file follows the hosts link by link.
\* The reconcile request saves nothing when it fails, and neither does one of a
\* link that was edited away; a link that an edit took away is deleted before the
\* file says so, which a crash or a lost transport in between leaves as it is.
LinksTracked ==
    /\ "reconcile" \notin Clients
    /\ "edit" \in Clients => "link" \notin Clients /\ Faults \cap {"crash", "loss"} = {}

\* A link saved as up between VDs saved as running is connected on the hosts
\* whenever no mutation is in progress (create_link, delete_link and the saves
\* of the methods around them).
UpIsConnected ==
    pc = "idle" /\ LinksTracked => \A l \in Link :
        disk.lk[l] = "up" /\ (\A n \in Ends[l] : CalledRunning(n)) => dp[l]

\* USER_GUIDE: "Forced Stop cancels the active attempt and cleans up the new
\* runtime": an attempt that was cancelled never saves its VD as running.
CancelledNeverRuns ==
    [][\A n \in Node : op[n].cancel /\ disk.rt[n] # "running"
        => disk'.rt[n] # "running"]_vars

\* create_link: "Create one runtime link if both VD endpoints are running."
UpNeedsRunningEnds ==
    [][\A l \in Link : disk.lk[l] # "up" /\ disk'.lk[l] = "up"
        => \A n \in Ends[l] : disk'.rt[n] \in {"running", "reconciling"}]_vars

\* Every registered start comes to an end and frees its registration.
StartsEnd == \A n \in Node : op[n].on ~> ~ op[n].on

-----------------------------------------------------------------------------
(* The inductive strengthening of RunningHasContainer: the controller's copy *)
(* is as truthful as the file, and the VD a worker is busy with is called    *)
(* running by neither until the worker commits.                              *)

\* the steps of a worker that may create or destroy its VD's container
BusyPc == {"connect", "prepare", "deploy", "wait", "refresh", "links", "shared",
           "commit", "rollback", "forget", "cancelDestroy", "stopFirst", "stopSecond"}
StopPc == {"stopConnect", "stopFirst", "stopSecond", "stopCommit", "removeConnect"}

CopiesTruthful ==
    \A n \in Node : disk.rt[n] = "running" \/ mem.rt[n] = "running" => cont[n] \/ n \in undone
BusyNotRunning ==
    \A n \in Node : pc \in BusyPc /\ node = n
        => \/ disk.rt[n] # "running" /\ mem.rt[n] # "running"
           \/ n \in undone /\ pc \in {"rollback", "forget"}
BusyIsUp ==
    \A n \in Node : pc \in {"refresh", "links", "shared", "commit"} /\ node = n => cont[n]
AddingIsStart ==
    /\ adding => kind = "start" /\ pc \notin {"idle", "load"}
    /\ pc \in StopPc => kind # "start"
    /\ pc \in {"rollback", "forget"} => adding
\* undone speaks of VDs the file calls running.
UndoneShown == \A n \in undone : disk.rt[n] = "running"

RunningInv == CopiesTruthful /\ BusyNotRunning /\ BusyIsUp /\ AddingIsStart /\ UndoneShown
=============================================================================
