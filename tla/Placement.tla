------------------------------ MODULE Placement ------------------------------
(***************************************************************************)
(* Where the VDs of a lab go, and their disks with them: the resources of  *)
(* an image (services/resources.py), the plan (controllers/plan.py,        *)
(* services/scheduler.py) and the overlays that lie on the disks of the    *)
(* hosts (services/persistence.py, backend local-sticky), over deploys     *)
(* that fail or are cut short, destroys, live removals and additions of    *)
(* VDs, and wipes.  Every VD has the same image, which needs a disk; VDs   *)
(* and hosts are numbers, in the order of the topology and of their names. *)
(***************************************************************************)
EXTENDS Integers, FiniteSets, FiniteSetsExt

CONSTANTS
    Vd, Host,
    MasterHost,   \* the host that takes a VD only when no worker can
    NoHost,
    LaunchSize,   \* the [cpu, ram] that launch.py of the image asks for
    DefaultSize,  \* _DEFAULT_CPU, _DEFAULT_RAM_MB
    NodeSize,     \* what the data of some VDs asks for instead
    Capacities,   \* what the hosts may report, over time
    MaxMishaps    \* bound on the writes, copies, hosts and services that fail

\* Processors and megabytes, asked for or reported.
Sizes == [cpu : Nat, ram : Nat]

ASSUME PlacementAssumption ==
    /\ Vd \subseteq Nat /\ Host \subseteq Nat /\ MasterHost \in Host /\ NoHost \notin Host
    /\ IsFiniteSet(Vd) /\ IsFiniteSet(Host) /\ DOMAIN NodeSize \subseteq Vd
    /\ LaunchSize \in Sizes /\ DefaultSize \in Sizes
    /\ \A v \in DOMAIN NodeSize : NodeSize[v] \in Sizes
    /\ Capacities \subseteq [Host -> Sizes]

VARIABLES
    cache,     \* the image's entry of .image-cache.json, {} or a singleton
    history,   \* the placement history: history[v], a host or NoHost
    disk,      \* disk[v][h]: "none", "data", "old" (v ran elsewhere since) or "part"
    deployed,  \* the state file is there
    runtime,   \* its node_runtime: the host of each VD, NoHost for one that has none
    deploy,    \* the deploy under way, a record as NoDeploy
    mishaps    \* how many there were

placeVars == <<cache, history, disk, deployed, runtime, deploy, mishaps>>

Nowhere == [v \in Vd |-> NoHost]

\* What a deploy keeps: how far it is, what the hosts reported and the VDs ask for, the
\* VDs still to be placed, the host of each of the others, disks still to be moved, and
\* (a record for the properties only) the VDs whose history names an outdated disk.
NoDeploy == [stage |-> "idle", capacity |-> [h \in Host |-> DefaultSize],
             need |-> [v \in Vd |-> DefaultSize], todo |-> Vd,
             plan |-> Nowhere, moves |-> {}, astray |-> {}]
At(stage) == deploy.stage = stage
Fails == deploy' = NoDeploy
Mishap == mishaps < MaxMishaps /\ mishaps' = mishaps + 1
Smooth == UNCHANGED mishaps
plan == deploy.plan
need == deploy.need
moves == deploy.moves

-----------------------------------------------------------------------------
(* The plan.                                                               *)

\* _apply_resource_spec: what the data of the VD asks for comes before its image's size.
Asks(v, size) == IF v \in DOMAIN NodeSize THEN NodeSize[v] ELSE size

\* _extract_from_launch_py: what launch.py of the image asks for, or the default when docker
\* fails or the file cannot be read.
LaunchSizes == {LaunchSize, DefaultSize}

\* extract_resources: the size is kept by the name of the image, the default as well.
Extract ==
    /\ At("idle")
    /\ \/ cache # {} /\ UNCHANGED cache
       \/ \E size \in LaunchSizes : cache' = {size}
    /\ deploy' = [NoDeploy EXCEPT !.stage = "images", !.need = [v \in Vd |->
                    Asks(v, CHOOSE s \in cache' : TRUE)]]
    /\ UNCHANGED <<history, disk, deployed, runtime, mishaps>>

Total(sizes, field, S) == MapThenSumSet(LAMBDA x : sizes[x][field], S)

\* check_images_on_hosts: a host that does not answer or lacks the image ends the plan.
CheckImages ==
    /\ At("images")
    /\ Fails \/ deploy' = [deploy EXCEPT !.stage = "gather"]
    /\ UNCHANGED <<cache, history, disk, deployed, runtime, mishaps>>

\* The feasibility check of compute_schedule.
Feasible(c) == \A f \in {"cpu", "ram"} : Total(need, f, Vd) <= Total(c, f, Host)

\* gather_host_resources: a host that does not answer, or too few resources in all, ends
\* the plan.
Gather ==
    /\ At("gather")
    /\ \/ Fails
       \/ \E c \in Capacities :
            /\ Feasible(c)
            /\ deploy' = [deploy EXCEPT !.stage = "place", !.capacity = c]
    /\ UNCHANGED <<cache, history, disk, deployed, runtime, mishaps>>

Placed(h) == {v \in Vd : plan[v] = h}
Remaining(h, field) == deploy.capacity[h][field] - Total(need, field, Placed(h))
CanFit(v, h) == \A f \in {"cpu", "ram"} : need[v][f] <= Remaining(h, f)

\* The order of sorted_vds: heavier first, then as in the topology.
Weight(v) == need[v].cpu * need[v].ram
NextVd == CHOOSE v \in deploy.todo : \A w \in deploy.todo \ {v} :
            Weight(v) > Weight(w) \/ (Weight(v) = Weight(w) /\ v < w)

\* candidate_key: fewest VDs, most memory, most processors, last name.
Key(h) == <<0 - Cardinality(Placed(h)), Remaining(h, "ram"), Remaining(h, "cpu"), h>>
Beats(h, k) == \E i \in 1..4 : Key(h)[i] > Key(k)[i] /\ \A j \in 1..(i - 1) : Key(h)[j] = Key(k)[j]
Best(S) == {h \in S : \A k \in S \ {h} : Beats(h, k)}

\* Workers before the master.
Candidates(v) == LET fits == {h \in Host : CanFit(v, h)}
                 IN  IF fits \ {MasterHost} # {} THEN fits \ {MasterHost} ELSE fits

\* (mutant) a worker is taken before the host of the history is looked at
BestFirst(v) == Best(Candidates(v))

\* The one host that is taken, as a set
BestHost(v) ==
    IF history[v] \in Host /\ CanFit(v, history[v]) THEN {history[v]} ELSE Best(Candidates(v))

\* One turn of the loop over sorted_vds; ScheduleError when no host fits.
PlaceVd ==
    /\ At("place") /\ deploy.todo # {}
    /\ \/ Candidates(NextVd) = {} /\ Fails
       \/ \E h \in BestHost(NextVd) :
            deploy' = [deploy EXCEPT !.plan[NextVd] = h, !.todo = @ \ {NextVd}]
    /\ UNCHANGED <<cache, history, disk, deployed, runtime, mishaps>>

-----------------------------------------------------------------------------
(* The disks.                                                              *)

\* _overlay_has_content: any content counts.
HasContent(v, h) == disk[v][h] # "none"

\* (mutant) the disk is where the history says
FoundByHistory(v) == {h \in Host : h = history[v] /\ disk[v][h] # "none"}

\* _find_existing_overlay_hosts
Found(v) == {h \in Host : HasContent(v, h)}

\* The plan takes v away from where the history says its disk is.
Remapped(v) == history[v] # NoHost /\ history[v] # plan[v]
MovesFrom(v) == IF Remapped(v) THEN history[v] ELSE CHOOSE h \in Found(v) : h # plan[v]

Refused(v) == IF Remapped(v) THEN ~HasContent(v, history[v]) ELSE Cardinality(Found(v)) > 1
Migrates(v) == Remapped(v) \/ Found(v) \ {plan[v]} # {}

\* v was removed live, the history kept it, and it has been added on another host since.
Astray(v) == history[v] \in Host /\ disk[v][history[v]] = "old"

\* _assert_lab_offline.  The containers it looks for are named clab-<lab>-<vd>, those of
\* the VDs clab-dnlab-<lab>-<vd>-<vd>: only the state file tells.
Offline == ~deployed

\* _prepare_local_sticky up to the copies; the phases before it may fail as well.
Prepare ==
    /\ At("place") /\ deploy.todo = {}
    /\ \/ Fails
       \/ /\ \A v \in Vd : ~Refused(v)
          /\ Offline \/ \A v \in Vd : ~Migrates(v)
          /\ deploy' = [deploy EXCEPT !.stage = "move", !.moves = {v \in Vd : Migrates(v)},
                                      !.astray = {v \in Vd : Astray(v)}]
    /\ UNCHANGED <<cache, history, disk, deployed, runtime, mishaps>>

Moving == CHOOSE v \in moves : \A w \in moves : v <= w

\* tar on one host into tar on the other, over what lies there.
BeginMove ==
    /\ At("move") /\ moves # {}
    /\ deploy' = [deploy EXCEPT !.stage = "copy"]
    /\ disk' = [disk EXCEPT ![Moving][plan[Moving]] = "part"]
    /\ UNCHANGED <<cache, history, deployed, runtime, mishaps>>

EndMove ==
    /\ At("copy")
    /\ \/ /\ deploy' = [deploy EXCEPT !.stage = "drop"]
          /\ disk' = [disk EXCEPT ![Moving][plan[Moving]] = disk[Moving][MovesFrom(Moving)]]
          /\ Smooth
       \/ Fails /\ UNCHANGED disk /\ Mishap
    /\ UNCHANGED <<cache, history, deployed, runtime>>

\* The source goes after both ends reported success.
DropSource ==
    /\ At("drop")
    /\ \/ /\ deploy' = [deploy EXCEPT !.stage = "move", !.moves = @ \ {Moving}]
          /\ disk' = [disk EXCEPT ![Moving][MovesFrom(Moving)] = "none"]
          /\ Smooth
       \/ /\ Fails /\ Mishap
          /\ disk' \in {disk, [disk EXCEPT ![Moving][MovesFrom(Moving)] = "part"]}
    /\ UNCHANGED <<cache, history, deployed, runtime>>

-----------------------------------------------------------------------------
(* The lab.                                                                *)

\* v runs on h: its disk there is the latest, unless it is a torn copy.
Written(v, h) == [k \in Host |->
    IF k = h THEN IF disk[v][k] = "part" THEN "part" ELSE "data"
    ELSE IF disk[v][k] = "data" THEN "old" ELSE disk[v][k]]

\* _deploy_clab; when it fails some VDs have run already.
StartVds ==
    /\ At("move") /\ moves = {}
    /\ \/ /\ deploy' = [deploy EXCEPT !.stage = "save"]
          /\ disk' = [v \in Vd |-> Written(v, plan[v])]
          /\ Smooth
       \/ /\ Fails /\ Mishap
          /\ \E ran \in SUBSET Vd :
               disk' = [v \in Vd |-> IF v \in ran THEN Written(v, plan[v]) ELSE disk[v]]
    /\ UNCHANGED <<cache, history, deployed, runtime>>

\* save_placement_history writes the whole file anew, in place: it may keep its old
\* contents, or be cut short and count as malformed.
HistorySaved(places) ==
    \/ history' = places /\ Smooth
    \/ history' \in {history, Nowhere} /\ Mishap

\* save_state, then save_placement_history: the state file stays when the second fails
\* or the service is killed before it.
Save ==
    /\ At("save") /\ Fails
    /\ deployed' = TRUE /\ runtime' = plan
    /\ HistorySaved(plan)
    /\ UNCHANGED <<cache, disk>>

\* DestroyController: the state file goes, the history and the disks stay.
Destroy ==
    /\ At("idle") /\ deployed
    /\ deployed' = FALSE /\ runtime' = Nowhere
    /\ UNCHANGED <<cache, history, disk, deploy, mishaps>>

\* NodeController.remove: the history is written without the VD, its disk stays.
RemoveVd(v) ==
    /\ At("idle") /\ runtime[v] # NoHost
    /\ runtime' = [runtime EXCEPT ![v] = NoHost]
    /\ HistorySaved(runtime')
    /\ UNCHANGED <<cache, disk, deployed, deploy>>

\* NodeController.start of a VD that has a runtime: it runs where it is.
StartVd(v) ==
    /\ At("idle") /\ runtime[v] # NoHost
    /\ disk' = [disk EXCEPT ![v] = Written(v, runtime[v])]
    /\ UNCHANGED <<cache, history, deployed, runtime, deploy, mishaps>>

\* NodeController.add: _select_add_host picks one of the hosts that fit by now and asks
\* nobody where a disk is.  The state file has the VD before it runs; a failure takes it
\* out again, a cancellation or the death of the service does not.
HotAdd(v) ==
    /\ At("idle") /\ deployed /\ runtime[v] = NoHost
    /\ \E h \in Host :
         LET added == [runtime EXCEPT ![v] = h]
             run == [disk EXCEPT ![v] = Written(v, h)]
         IN  /\ \E c \in Capacities, s \in cache : \A f \in {"cpu", "ram"} : Asks(v, s)[f] <= c[h][f]
             /\ \/ disk' = run /\ runtime' = added /\ HistorySaved(added)
                \/ disk' = disk /\ runtime' = added /\ history' \in {added, history} /\ Mishap
                \/ disk' \in {disk, run} /\ UNCHANGED runtime /\ history' \in {history, Nowhere} /\ Mishap
    /\ UNCHANGED <<cache, deployed, deploy>>

Erased(S, lost) == [v \in Vd |-> [h \in Host |->
    IF v \in S /\ h \notin lost THEN "none" ELSE disk[v][h]]]

\* _clean_persist_dirs and _wipe_node_persist_dir: a host that does not answer keeps its
\* directories, and the history goes all the same, unless its file fails.
Wipe(S) ==
    /\ At("idle")
    /\ LET without == [v \in Vd |-> IF v \in S THEN NoHost ELSE history[v]]
       IN  \/ disk' = Erased(S, {}) /\ HistorySaved(without)
           \/ \E lost \in SUBSET Host \ {{}} : disk' = Erased(S, lost) /\ history' = without /\ Mishap
    /\ UNCHANGED <<cache, deployed, runtime, deploy>>

\* The service is killed in the middle of a deploy.
CutShort ==
    /\ ~At("idle") /\ Fails /\ Mishap
    /\ UNCHANGED <<cache, history, disk, deployed, runtime>>

PlacementInit ==
    /\ cache = {} /\ history = Nowhere
    /\ disk = [v \in Vd |-> [h \in Host |-> "none"]]
    /\ deployed = FALSE /\ runtime = Nowhere /\ deploy = NoDeploy
    /\ mishaps = 0

PlacementNext ==
    \/ Extract \/ CheckImages \/ Gather \/ PlaceVd
    \/ Prepare \/ BeginMove \/ EndMove \/ DropSource \/ StartVds \/ Save
    \/ Destroy \/ CutShort
    \/ \E v \in Vd : RemoveVd(v) \/ StartVd(v) \/ HotAdd(v) \/ Wipe({v})
    \/ Wipe(Vd)

PlacementSpec == PlacementInit /\ [][PlacementNext]_placeVars

-----------------------------------------------------------------------------
(* Properties.                                                             *)

\* A deploy starts no VD away from its disk: while disks are moved and when containerlab
\* is about to run, the latest disk of a VD is the one that is to be moved or lies on the
\* host the VD was planned on, however earlier deploys, removals and additions ended.
\* Two exceptions: to _overlay_has_content a torn copy is as good as a disk, and a history
\* that could not be written after a live removal sends an older disk over the latest.
StartsOnItsDisk ==
    At("move") =>
        \A v \in Vd \ deploy.astray :
            (\A h \in Host : disk[v][h] # "part") /\ (\E h \in Host : disk[v][h] = "data")
                => disk[v][IF v \in moves THEN MovesFrom(v) ELSE plan[v]] = "data"

\* The hosts can hold what the history gives them.
HistoryFits ==
    /\ \A v \in Vd : history[v] # NoHost
    /\ \A h \in Host, f \in {"cpu", "ram"} :
         Total(need, f, {v \in Vd : history[v] = h}) <= deploy.capacity[h][f]

\* A complete plan of compute_schedule asks no host for more than it reported, and moves
\* nothing while the hosts can hold what the history gives them: the order in which the
\* VDs are placed never costs one of them its host.
PlanKeepsHistory ==
    At("place") /\ deploy.todo = {} =>
        /\ \A h \in Host, f \in {"cpu", "ram"} : Remaining(h, f) >= 0
        /\ HistoryFits => plan = history
=============================================================================
