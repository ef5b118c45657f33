------------------------------ MODULE ImageSync ------------------------------
(***************************************************************************)
(* Images of the master kept in step on a worker: the daemon and its       *)
(* control API (services/image_sync.py, image_sync_api.py), the one-shot   *)
(* passes of its command line (image_sync_cli.py) and the transfer of the  *)
(* images of a topology (controllers/sync.py).  Nothing keeps two passes   *)
(* apart.  Workers are handled in parallel and do not interact: one worker *)
(* stands for each of them.                                                *)
(***************************************************************************)
EXTENDS Naturals, FiniteSets

CONSTANTS
    Image,       \* names of images
    Version,     \* image IDs
    Selected,    \* names that pass include and exclude of hosts.yml
    Pass,        \* passes of the command line and of topologies
    MaxChanges   \* bound on changes of the master's images

ASSUME SyncAssumption ==
    /\ Selected \subseteq Image /\ Version # {} /\ MaxChanges \in Nat
    /\ "daemon" \notin Pass

VARIABLES
    master,     \* master[i]: the ID of image i there, or "none"
    worker,     \* the same on the worker
    listening,  \* docker events delivers
    event,      \* an event is on its way
    trigger,    \* _trigger is set
    daemon,     \* where the loop of the daemon is
    left,       \* a change is left to the next tick: no event told of it, or its pass failed
    pass,       \* the passes, the daemon's among them
    changes

syncVars == <<master, worker, listening, event, trigger, daemon, left, pass, changes>>

Daemon == "daemon"
AllPass == Pass \cup {Daemon}
NoPass == [pc |-> "idle", kind |-> "none", snap |-> [i \in {} |-> "none"], push |-> {}, drop |-> {}]

Present(host) == {i \in Image : host[i] # "none"}

\* filter_images, of the images of the master.
Filtered(names) == [i \in Present(master) \cap names |-> master[i]]

\* compute_diff: what is missing or stale, and what the master's list does not have.
ToPush(snap) == {i \in DOMAIN snap : worker[i] # snap[i]}
ToRemove(snap) == Present(worker) \ DOMAIN snap

-----------------------------------------------------------------------------
(* A pass.                                                                 *)

Begins(p, kind, names) ==
    pass' = [pass EXCEPT ![p] = [NoPass EXCEPT !.pc = "list", !.kind = kind, !.snap = Filtered(names)]]

\* sync --all and sync --image, which puts the one name in the place of the filter.
StartPass(p) ==
    /\ pass[p].pc = "idle"
    /\ Begins(p, "all", Selected) \/ \E i \in Image : Begins(p, "one", {i})
    /\ UNCHANGED <<master, worker, listening, event, trigger, daemon, left, changes>>

\* The images of a topology, whatever they are; one the master lacks is an error.
SyncTopology(p) ==
    /\ pass[p].pc = "idle"
    /\ \E wanted \in SUBSET Image : Begins(p, "topology", wanted)
    /\ UNCHANGED <<master, worker, listening, event, trigger, daemon, left, changes>>

\* list_remote_images and the difference; an error leaves the worker alone.  A
\* topology asks for presence only and removes nothing, and so may a pass of the
\* other kinds (--no-remove-extra).
ListWorker(p) ==
    /\ pass[p].pc = "list"
    /\ \/ pass' = [pass EXCEPT ![p].pc = "over"]
       \/ \E extra \in IF pass[p].kind = "topology" THEN {FALSE} ELSE BOOLEAN :
            pass' = [pass EXCEPT ![p] = [@ EXCEPT !.pc = "works",
                       !.push = IF pass[p].kind = "topology"
                                THEN DOMAIN pass[p].snap \ Present(worker) ELSE ToPush(pass[p].snap),
                       !.drop = IF extra THEN ToRemove(pass[p].snap) ELSE {}]]
    /\ UNCHANGED <<master, worker, listening, event, trigger, daemon, left, changes>>

\* docker save | docker load sends what the master has under that name by now.
Push(p, i) ==
    /\ pass[p].pc = "works" /\ i \in pass[p].push
    /\ pass' = [pass EXCEPT ![p].push = @ \ {i}]
    /\ \/ master[i] # "none" /\ worker' = [worker EXCEPT ![i] = master[i]]
       \/ UNCHANGED worker
    /\ UNCHANGED <<master, listening, event, trigger, daemon, left, changes>>

\* docker rmi, refused for an image in use (containers of the worker come and go).
RemoveExtra(p, i) ==
    /\ pass[p].pc = "works" /\ pass[p].push = {} /\ i \in pass[p].drop
    /\ pass' = [pass EXCEPT ![p].drop = @ \ {i}]
    /\ worker' \in {worker, [worker EXCEPT ![i] = "none"]}
    /\ UNCHANGED <<master, listening, event, trigger, daemon, left, changes>>

\* (mutant) the daemon clears the trigger when its pass is over
EndPassClears(p) ==
    /\ \/ pass[p].pc = "over"
       \/ pass[p].pc = "works" /\ pass[p].push = {} /\ pass[p].drop = {}
    /\ pass' = [pass EXCEPT ![p].pc = "idle", ![p].kind = "none"]
    /\ daemon' = IF p = Daemon /\ daemon = "pass" THEN "wait" ELSE daemon
    /\ trigger' = (trigger /\ p # Daemon)
    /\ UNCHANGED <<master, worker, listening, event, left, changes>>

\* The state file is written; the daemon waits again.
EndPass(p) ==
    /\ \/ pass[p].pc = "over"
       \/ pass[p].pc = "works" /\ pass[p].push = {} /\ pass[p].drop = {}
    /\ pass' = [pass EXCEPT ![p].pc = "idle", ![p].kind = "none"]
    /\ daemon' = IF p = Daemon /\ daemon = "pass" THEN "wait" ELSE daemon
    /\ UNCHANGED <<master, worker, listening, event, trigger, left, changes>>

-----------------------------------------------------------------------------
(* The daemon.                                                             *)

\* _docker_events_loop, in a thread of its own.
Listen ==
    /\ ~listening /\ listening' = TRUE
    /\ UNCHANGED <<master, worker, event, trigger, daemon, left, pass, changes>>

EventArrives ==
    /\ event /\ event' = FALSE /\ trigger' = TRUE
    /\ UNCHANGED <<master, worker, listening, daemon, left, pass, changes>>

\* A reconcile is asked for through the GUI or the API, by SIGUSR1 to the unit or
\* by HTTP to the container: both need a daemon that runs.
UnitActive == daemon # "stopped"

\* trigger_reconcile, from the signal handler or from POST /reconcile.
TriggerReconcile ==
    /\ UnitActive
    /\ ~trigger /\ trigger' = TRUE
    /\ UNCHANGED <<master, worker, listening, event, daemon, left, pass, changes>>

\* The wait ends by a trigger or, without one, by the interval.
Wake ==
    /\ daemon = "wait"
    /\ daemon' = IF trigger THEN "coalesce" ELSE "probe"
    /\ UNCHANGED <<master, worker, listening, event, trigger, left, pass, changes>>

\* The trigger is cleared before the images of the master are read.
Clear ==
    /\ daemon = "coalesce" /\ daemon' = "probe"
    /\ trigger' = FALSE
    /\ UNCHANGED <<master, worker, listening, event, left, pass, changes>>

\* _do_reconcile: the configuration or docker images may fail.
ReadMaster ==
    /\ daemon = "probe"
    /\ \/ daemon' = "pass" /\ left' = FALSE /\ Begins(Daemon, "all", Selected)
       \/ daemon' = "wait" /\ left' = TRUE /\ UNCHANGED pass
    /\ UNCHANGED <<master, worker, listening, event, trigger, changes>>

\* stop(): the loop ends; a pass under way is finished.
StopDaemon ==
    /\ daemon # "stopped" /\ daemon' = "stopped" /\ trigger' = TRUE /\ listening' = FALSE
    /\ UNCHANGED <<master, worker, event, left, pass, changes>>

\* The images of the master change (external).
MasterChanges(i) ==
    /\ changes < MaxChanges /\ changes' = changes + 1
    /\ \E v \in Version \cup {"none"} :
         v # master[i] /\ master' = [master EXCEPT ![i] = v]
    /\ event' = (event \/ listening) /\ left' = (left \/ ~listening)
    /\ UNCHANGED <<worker, listening, trigger, daemon, pass>>

SyncInit ==
    /\ master \in [Image -> {CHOOSE v \in Version : TRUE, "none"}]
    /\ worker \in {master, [i \in Image |-> CHOOSE v \in Version : TRUE]}
    /\ listening = FALSE /\ event = FALSE /\ trigger = FALSE
    /\ daemon = "probe" /\ left = TRUE
    /\ pass = [p \in AllPass |-> NoPass] /\ changes = 0

SyncNext ==
    \/ \E p \in Pass : StartPass(p) \/ SyncTopology(p)
    \/ \E p \in AllPass : \/ ListWorker(p) \/ EndPass(p)
                          \/ \E i \in Image : Push(p, i) \/ RemoveExtra(p, i)
    \/ Listen \/ EventArrives \/ TriggerReconcile \/ Wake \/ Clear \/ ReadMaster \/ StopDaemon
    \/ \E i \in Image : MasterChanges(i)

SyncSpec == SyncInit /\ [][SyncNext]_syncVars

-----------------------------------------------------------------------------
(* Properties.                                                             *)

\* No change of the master is lost between two passes of the daemon: while what its
\* last pass read is out of date, the trigger is set, an event is on its way, or the
\* daemon is about to read again.  The change is then not left to the interval.
ChangeIsNoticed ==
    daemon \in {"wait", "pass"} /\ ~left /\ pass[Daemon].snap # Filtered(Selected)
        => event \/ trigger
=============================================================================
