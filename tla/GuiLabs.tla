------------------------------- MODULE GuiLabs -------------------------------
(***************************************************************************)
(* The lab operations of the GUI for one lab: lab_routes.py on top of      *)
(* lab_controller.py on top of the local mode of multinode_service.py,     *)
(* where the controllers of the orchestrator run in worker threads of the  *)
(* GUI.  A request is a sequence of steps of the event loop, each up to    *)
(* the next await; what a controller does to the hosts is one step, when   *)
(* it ends (NodeLifecycle and LabLifecycle show its inside).               *)
(***************************************************************************)
EXTENDS Naturals, FiniteSets

CONSTANTS Node, LabReq

ASSUME LabsAssumption == "none" \notin LabReq /\ "free" \notin LabReq

VARIABLES
    row,      \* the lab's row of the database
    yaml,     \* the topology file of the lab
    up,       \* nodes whose container runs
    disks,    \* nodes with a persistent directory
    lock,     \* the request that holds _deploy_lock, or "free"
    starts,   \* _local_node_starts: node -> request, or "none"
    labReq       \* the requests

labVars == <<row, yaml, up, disks, lock, starts, labReq>>

NoReq == [op |-> "none", node |-> "none", pc |-> "idle", cancel |-> FALSE,
          phase |-> "none", saw |-> {}]

To(r, pc) == labReq' = [labReq EXCEPT ![r].pc = pc]
Rest == UNCHANGED <<row, yaml, up, disks>>

-----------------------------------------------------------------------------
(* Requests.  resolve_for_write needs the row, _require_file the file.     *)

Asks(r, op, n, pc) ==
    /\ row /\ labReq[r] = NoReq
    /\ labReq' = [labReq EXCEPT ![r] = [NoReq EXCEPT !.op = op, !.node = n, !.pc = pc]]

\* deploy materialises the topology first, in the same step of the loop (it rewrites a
\* file that exists); both close the tunnels of the lab first (WebUi).
DeployOrDestroy(r) ==
    /\ \E op \in {"deploy", "destroy"} : Asks(r, op, "none", IF yaml THEN "lock" ELSE "failed")
    /\ Rest /\ UNCHANGED <<lock, starts>>

\* The operations on one link and on one real network.
LinkOperation(r) ==
    /\ \E op \in {"realnet", "link"} :
         Asks(r, op, "none", IF yaml THEN "lock" ELSE "failed")
    /\ Rest /\ UNCHANGED <<lock, starts>>

\* The operations on one node that take the lock, apart from its start and stop.
NodeOperation(r) ==
    /\ \E n \in Node, op \in {"restart", "reconcile", "remove"} :
         Asks(r, op, n, IF yaml THEN "lock" ELSE "failed")
    /\ Rest /\ UNCHANGED <<lock, starts>>

\* (mutant) a second start of a node is queued like the first one
AlwaysStarts(n) == TRUE

MayStart(n) == starts[n] = "none"

NodeStart(r, n) ==
    /\ IF yaml /\ MayStart(n)
       THEN /\ starts' = [starts EXCEPT ![n] = r]
            /\ row /\ labReq[r] = NoReq
            /\ labReq' = [labReq EXCEPT ![r] = [NoReq EXCEPT !.op = "start", !.node = n,
                                              !.pc = "lock", !.phase = "queued"]]
       ELSE Asks(r, "start", n, "failed") /\ UNCHANGED starts
    /\ Rest /\ UNCHANGED lock

\* A stop cancels the active start and is answered at once.
NodeStop(r, n) ==
    /\ row /\ labReq[r] = NoReq
    /\ LET s == starts[n]
           mine == [NoReq EXCEPT !.op = "stop", !.node = n,
                                 !.pc = IF ~yaml THEN "failed" ELSE IF s # "none" THEN "done" ELSE "lock"]
       IN labReq' = IF yaml /\ s # "none"
                 THEN [labReq EXCEPT ![r] = mine, ![s].cancel = TRUE,
                        ![s].phase = IF labReq[s].phase = "queued" THEN "stopped" ELSE "cancelling"]
                 ELSE [labReq EXCEPT ![r] = mine]
    /\ Rest /\ UNCHANGED <<lock, starts>>

Acquire(r) ==
    /\ labReq[r].pc = "lock" /\ lock = "free"
    /\ lock' = r /\ To(r, "runs")
    /\ Rest /\ UNCHANGED starts

\* phase_callback of the controller of a start.
PhaseReported(r) ==
    /\ labReq[r].op = "start" /\ labReq[r].pc = "runs" /\ labReq[r].phase # "starting"
    /\ labReq' = [labReq EXCEPT ![r].phase = "starting"]
    /\ Rest /\ UNCHANGED <<lock, starts>>

\* What a controller leaves on the hosts when it succeeds, and when it fails.
Effect(op, n) ==
    CASE op = "deploy" -> {Node}
      [] op \in {"destroy", "delete"} -> {{}}
      [] op \in {"start", "restart"} -> {up \cup {n}}
      [] op \in {"stop", "remove"} -> {up \ {n}}
      [] OTHER -> {up}

Damage(op, n) ==
    CASE op = "deploy" -> {{}}
      [] op \in {"destroy", "delete"} -> SUBSET up
      [] op \in {"start", "stop", "restart", "remove"} -> {up, up \ {n}}
      [] OTHER -> {up}

\* The finally of node_start: the entry of the node is removed with the start.
Released(r) == IF labReq[r].op = "start" THEN [starts EXCEPT ![labReq[r].node] = "none"] ELSE starts

\* The controller ends and the lock is released.  A cancelled start ends as
\* cancelled whether its container came up or not.
ControllerEnds(r) ==
    LET o == labReq[r].op
        n == labReq[r].node
        after == IF labReq[r].saw # {} THEN "clean" ELSE "done"
    IN /\ labReq[r].pc = "runs"
       /\ \/ up' \in Effect(o, n) /\ To(r, after)
          \/ up' \in Damage(o, n) /\ To(r, IF labReq[r].cancel THEN "done" ELSE "failed")
       /\ disks' = IF o \in {"deploy", "start", "restart"} THEN disks \cup up' ELSE disks
       /\ lock' = "free" /\ starts' = Released(r)
       /\ UNCHANGED <<row, yaml>>

-----------------------------------------------------------------------------
(* wipe_node_disk, delete_lab and resolve_node_host: no lock is held.      *)

Probing(r) ==
    /\ \/ \E n \in Node : Asks(r, "wipe", n, IF yaml THEN "probe" ELSE "failed")
       \/ Asks(r, "delete", "none", "probe")
    /\ Rest /\ UNCHANGED <<lock, starts>>

\* get_lab_status: a probe that fails looks like a lab without containers, and the
\* phase of an active start hides the state of its container.
Started == {n \in Node : starts[n] # "none"}
Reported == {[there |-> up \cup Started, running |-> up \ Started], [there |-> {}, running |-> {}]}

\* A delete destroys what the probe saw, then goes on; destroy requires the file.
Probe(r) ==
    /\ labReq[r].pc = "probe"
    /\ \/ \E seen \in {s \in Reported : yaml \/ s.there = {}} :
            labReq' = [labReq EXCEPT ![r].saw = seen.there, ![r].pc =
                      CASE labReq[r].op = "wipe" -> IF labReq[r].node \in seen.running THEN "failed" ELSE "wipe"
                        [] seen.there = {} -> "clean"
                        [] OTHER -> "lock"]
       \/ labReq[r].op = "wipe" /\ To(r, "failed")
    /\ Rest /\ UNCHANGED <<lock, starts>>

Wipe(r) ==
    /\ labReq[r].pc = "wipe"
    /\ \/ disks' = disks \ {labReq[r].node} /\ To(r, "done")
       \/ UNCHANGED disks /\ To(r, "failed")
    /\ UNCHANGED <<row, yaml, up, lock, starts>>

\* Errors of the cleanup are warnings.
CleanPersist(r) ==
    /\ labReq[r].pc = "clean"
    /\ disks' \in (IF yaml THEN SUBSET disks ELSE {disks})
    /\ To(r, "unlink")
    /\ UNCHANGED <<row, yaml, up, lock, starts>>

Unlink(r) ==
    /\ labReq[r].pc = "unlink"
    /\ \/ yaml' = FALSE /\ To(r, "row")
       \/ UNCHANGED yaml /\ To(r, "failed")
    /\ UNCHANGED <<row, up, disks, lock, starts>>

\* The route drops the row last.
DropRow(r) ==
    /\ labReq[r].pc = "row" /\ row' = FALSE /\ To(r, "done")
    /\ UNCHANGED <<yaml, up, disks, lock, starts>>

\* The planner fallback of resolve_node_host loads and saves the topology in a
\* worker thread: a delete in between does not stop the save.
ResolveHost(r) ==
    /\ \/ Asks(r, "resolve", "none", IF yaml THEN "save" ELSE "failed") /\ UNCHANGED yaml
       \/ labReq[r].pc = "save" /\ yaml' = TRUE /\ To(r, "done")
    /\ UNCHANGED <<row, up, disks, lock, starts>>

LabsInit ==
    /\ row = TRUE /\ yaml = TRUE /\ up \in {{}, Node} /\ disks = up
    /\ lock = "free" /\ starts = [n \in Node |-> "none"]
    /\ labReq = [r \in LabReq |-> NoReq]

LabsNext ==
    \E r \in LabReq :
        \/ DeployOrDestroy(r) \/ LinkOperation(r) \/ NodeOperation(r) \/ Probing(r) \/ ResolveHost(r)
        \/ \E n \in Node : NodeStart(r, n) \/ NodeStop(r, n)
        \/ Acquire(r) \/ PhaseReported(r) \/ ControllerEnds(r)
        \/ Probe(r) \/ Wipe(r) \/ CleanPersist(r) \/ Unlink(r) \/ DropRow(r)

LabsSpec == LabsInit /\ [][LabsNext]_labVars

-----------------------------------------------------------------------------
(* Properties.                                                             *)

\* Every start that waits for the lock or runs is the one its node is registered
\* with, so that a stop always reaches it: two starts of a node never share the
\* entry, and the end of one never removes the entry of the other.
StopReachesStart ==
    \A r \in LabReq : labReq[r].op = "start" /\ labReq[r].pc \in {"lock", "runs"} =>
                       starts[labReq[r].node] = r
=============================================================================
