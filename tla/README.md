# dNLab: models, checks and proofs

dNLab runs network labs on several hosts. A lab is a topology of virtual devices
(VDs, containers started by containerlab) and links. A service, *multinode*,
deploys and destroys labs over SSH, starts and stops single VDs of a running lab,
connects them and records what it did in a state file per lab. A GUI, an image
build service and a cleanup daemon stand around it.

This directory holds TLA+ models of the multinode core, of the services beside it
and of the GUI, TLC configurations that check them on small instances, and TLAPS
proofs of every safety property that a passing run checks. `PROJECT.json` lists
components, runs, the source lines behind every definition, hazards, findings and
theorems. Source paths below are relative to
`src/src/multinode/dnlab_multinode/` unless they begin with `src/`.

## 1. Inventory

| Component | State | Operations | Hard part |
|---|---|---|---|
| Node lifecycle (`controllers/node.py`, `api.py`) | state file, table of active starts, lock queue | start, hot add, stop, restart, remove, reconcile, reconcile link | cancellation from outside the lock; every step can fail, and the service can die between a command and the save that reports it |
| Runtime links (`services/runtime_links.py`, `services/scheduler.py`) | list of links in the state file; bridges, tunnels and carriers on the hosts | rebuild, merge, create, delete | identifiers that stay stable and unique over any sequence of mutations; half-created links |
| Lab deploy, rollback, destroy (`controllers/deploy.py`, `controllers/destroy.py`) | state file (written last), completed phases, artifacts on every host | deploy, redeploy, destroy | partial failure, order of removal, what a crash leaves |
| Lab cleanup (`services/lab_cleanup.py`) | inventory and plan of a pass | scan, plan, remove | runs in another process without the lock; works on a stale plan |
| API and lock (`api.py`) | `_mutating_lock`, `_active_node_starts` | all mutating endpoints | one lock for all labs; a cancelling stop bypasses it |
| SSH client (`services/ssh.py`) | connections, running commands | run, deploy, destroy, cancel | commands that fail, hang, go on after a timeout, or fail silently |
| State file (`services/state.py`, `models/state.py`) | one JSON file per lab | load, save (write, fsync, rename), delete | atomic save; nothing else is atomic |
| Management network, relays, DNS, jump host, real networks | artifacts per host | set up, tear down | docker networks that containers hold |
| Planning, resources (`controllers/plan.py`, `services/scheduler.py`, `services/resources.py`) | cache of image sizes | size, check, place | an order of placement that never costs a VD its host |
| Persistence (`services/persistence.py`) | disks on the hosts, placement history | find, migrate, wipe, record | history, disks and plan disagree after failures and live changes |
| Addresses (`services/config.py`, `services/mgmt_ips.py`) | reservations in the state file | resolve the subnet, assign | worked out anew at every parse, against labs that come and go |
| Image sync (`services/image_sync.py`, `image_sync_cli.py`, `controllers/sync.py`) | trigger, passes | listen, reconcile, push, remove | events against the clear of the trigger; passes without a lock |
| Packet tracing (`services/follow_rabbit.py`, `services/flow_reconstruct.py`) | sessions, tasks and their ssh clients, packets seen | start, stop, finish, reconstruct | stops, deadline and probes that end or break off cross; gaps in what was seen |
| Console relay (`src/src/multinode/runtime-relay`) | brokers, subscribers, history | attach, fan out, close, replace | threads, bounded queues, a cleanup that can hit its successor |
| Image build (`src/src/image-build`) | jobs and their files, tasks, processes, uploads, images, build directories | upload, build, patch, clear, restart | jobs share directories and tags; writes of its own that fail; restart with jobs in flight |
| GUI accounts (`src/src/gui/app/auth`, `user_routes`, `auth_routes`) | users, sessions, lab rows | create, patch, delete, log in | check in one step, commit in another |
| GUI topologies (`topology_controller`, `containerlab_service`, `drawio_service`) | a file per lab, copies in browsers | edit, save, import | stale copies are saved |
| GUI labs (`multinode_service`, `lab_controller`, `lab_routes`) | deploy lock, table of starts | deploy, start, stop, wipe, delete | requests between their awaits |
| GUI live sessions (`events_bus`, `shutdown_registry`, console and log sockets) | histories, queues, registered sockets | publish, subscribe, shut down | worker threads against the event loop |
| GUI web UIs and captures (`webui_service`, `webui_routes`, `capture_service`) | tunnels, tokens, processes | open, proxy, close, sweep | a table and a process that end apart |
| Status, generator, command line, browser front end, administration, scripts | none of their own | read, render | see section 6 |

The components interact as follows. GUI and command line call the multinode API.
The API takes the lock, loads the state file, and runs one controller in a worker
thread; a start is also registered in a table that a stop request reads without
the lock. The controller issues SSH commands and saves the state file after some
of them. The cleanup daemon reads the same state files and lists the same hosts,
but shares no lock with the API. The GUI either forwards to the API or, in local
mode, runs the same controllers behind a lock of its own. Image sync, image build
and the relay are processes that share only docker with the rest.

What makes each part correct:

* *node lifecycle*: what the state file and the answers say of a VD is true of its
  container; every start ends; a cancelled one leaves nothing;
* *runtime links*: "up" means connected; identifiers never collide; VDs meet only
  over their own links;
* *deploy and destroy*: the state file names every container; a clean destroy
  leaves nothing; a rollback undoes every recorded phase;
* *cleanup*: never touches what lives or is young, in the end removes what does not;
* *placement and addresses*: a VD starts on its latest disk, a plan keeps what fits,
  addresses in use stay;
* *services*: no change, job, output or trace is lost, doubled or left hanging;
* *GUI*: its tables agree with the processes they stand for, and no request alone
  takes away what its check protects.

## 2. Modules

| Module | Models | Extended by |
|---|---|---|
| `VdPhases` | abstract: what the state file promises of each VD | instantiated by `NodeLifecycle` |
| `NodeLifecycle` | VDs of one lab, the lock, the start table, the worker | `NodeLifecycleProofs`, `MCNodeLifecycle` |
| `RuntimeLinks` | link identifiers, the merge loop, the network of the hosts | `RuntimeLinksProofs`, `MCRuntimeLinks` |
| `LabLifecycle` | deploy, rollback, destroy, unreachable hosts | `LabCleanup`, `MCLabLifecycle` |
| `LabCleanup` | composes the cleanup (daemon or API) with `LabLifecycle` | `LabLifecycleProofs`, `MCLabCleanup` |
| `BuildJobs` | abstract: what a client may rely on of a build job | instantiated by `ImageBuild` |
| `ImageBuild` | uploads, jobs, build directory, images, restart | `Services` |
| `ConsoleRelay` | brokers and clients of one console | `ConsoleRelayProofs`, `Services` |
| `ImageSync` | daemon, passes, master and worker images | `Services` |
| `FollowRabbit` | traces, probes, stops | `FlowPaths` |
| `FlowPaths` | path reconstruction from what the probes saw | `FlowPathsProofs`, `Gui` |
| `Placement` | sizes, plan, disks, history | `Services` |
| `Addresses` | subnet, reservations, wishes | `Services` |
| `Services` | the sum of the five services | `ServicesProofs`, `MCServices` |
| `Accounts`, `Topologies`, `GuiLabs`, `WebUi`, `Captures` | parts of the GUI | `Gui` |
| `LiveSessions` | the last part: events, sockets, shutdown | `LiveSessionsProofs`, `Gui` |
| `Gui` | their sum, with packet traces | `GuiProofs`, `MCGui` |

**Settings.** Every module of the multinode core has a constant `Settings`, a set of records that say
which requests clients make and which faults may occur, and a variable `setting`
chosen once in `Init`. One run thus covers several environments, and a property
that needs an assumption about the environment says so in its own text
(`PhasesSettle` for instance requires that `"loss"` is not among the faults).
The theorems hold for every set of settings.

**Abstract specifications.** `VdPhases` is what a reader of the state file may rely
on: a VD moves along its phases one step at a time, its container comes and goes only
while the file shows a passing phase, and it is wired and called running only while it
has one; a deploy command that was given up may still end later. It knows of no lock,
worker, request or crash. There is one exception, which it states itself: a hot add
saves its VD as running and may then fail to write the placement history, so that the
VD is undone while the file calls it running (the phase `"undone"`, entered by
`RunInVain`). `NodeLifecycle` implements `VdPhases` with `phase <- Shown`, `up <- cont`,
`stray <- bg` (`LivesByItsPhases`), so a crash, a copy in memory and a cancellation are
stutters. `Shown` is `disk.rt` but for the VDs in `undone`, an auxiliary variable that
follows the failed commits (`Follow`) and hinders no step. `BuildJobs` is the same for
the jobs of the image builder.

### NodeLifecycle

`disk` is the state file, `mem` the controller's copy, `cont`, `bg` and `dp` the
containers, abandoned deploys and connected links on the hosts, `op` is
`_active_node_starts`, `waiting` and `job` the lock, `pc` the position of the
worker thread. `RequestStart`, `RequestCancel` and `RequestMutation` are the
endpoints; `Acquire` to `Answer` bracket a mutation. `Load` is the constructor
with the early returns of the methods. `Connect`/`Prepare`, `Deploy`, `Wait`,
`Refresh`, `Links`, `Shared`, `Commit` are the steps of `start` and `add` between
two saves or cancellation checks; `Failed`, `Rollback` and `Forget`, and `Cancel*` are
their handlers; `Stop*`, `Remove`, `RecConnect` and `RecLinks` the other methods.
A start deletes the links that left the topology (`Dropped`), a hot add only drops
their records. `Rollback` is what the handler of `add` does on the hosts, `Forget` its
last line, which restores the links the add found (`prev`) and saves; between the two,
and for ever if the handler is cut short, the file is the one of the failed add.
Faults: a remote command fails, the transport is lost (then the cleanup commands
raise too), `containerlab destroy` fails silently (`check=False`), a timed-out
deploy goes on alone, the placement history cannot be written, the service dies.

### RuntimeLinks

`link` is the saved list by wire (wires are numbered by their position in the
topology), `built` the list being merged, `used`/`vnis` the sets `used_ids` and
`used_vxlans`; `master`, `tunnel` and `carrier` are what the hosts hold for each
port. A mutation rebuilds the list, merges it one link per step (`Merge`, with
`Kept` and `Renamed` the two branches of the loop), deletes what left the topology
(`Refreshed`; a hot add does not), creates its links one per step, and saves.
The bridge of a same-host link is its identifier (`Bridge`), as in
`_runtime_bridge_name`. Ports are warm (named by a digest of lab, VD and
interface); deletes do what they say, creations may fail at any link.

### LabLifecycle and LabCleanup

An artifact is `<<kind, host>>` or `<<"vd", host, name>>`. `Make` creates one
artifact of the current phase (parallel phases in any order), `PhaseDone`,
`PhaseFails`, `SaveState`, `SaveHistory` are the frame of `DeployController.run`,
`RollbackPhase` undoes recorded phases from the last, `DestroyStep` follows the
order of `DestroyController.run`. `Strip` is what docker and the kernel allow: a
network in use stays, and so does the bridge under it. `StopVd`/`StartVd` are the
node lifecycle seen from here. `LabCleanup` adds a pass: `StartPass` reads the
state files, `Inventory` lists one host at a time, `BuildPlan`, `Execute` one
removal at a time. With `cleaner = "api"` a pass holds the lock, with `"daemon"`
it does not. Passes are modelled in executing mode.

### Services

The five parts share no variable and send each other nothing, so any behaviour of
all of them is a behaviour of each one beside steps that leave it alone. `Services`
states this directly: `part`, chosen in `Init`, says which one moves, the others
rest in one initial state. The state space is the sum of the parts instead of
their product, and every property is checked in all behaviours of the part it is
about.

* `ImageBuild`. `UploadImage`, `CreateJob`, `ClearJobs` are the endpoints. A job is its
  entry in the table (`job`), its file (`saved`), its task (`task`) and the process of
  the build script (`proc`), which part when a write fails: `RunJob`, `StartProcess`,
  `JobEnds` and `JobFails` are the task, `CheckSource` to `DropTag` the process up to the
  next step that another job can see (copy into the vrnetlab directory, make, patch, tag
  removal). A task that fails leaves its process to go on. `broken` (auxiliary) names
  the jobs that a failed write touched; `Restart` kills tasks and processes anywhere and
  reloads the state files. Jobs meet through `copied` (files in the build directories)
  and `image` (tags). The refinement maps the state files (`Recorded`) to `BuildJobs`,
  where an outcome on record stands and a cleared job never returns.
* `ConsoleRelay`. A step is what a thread does between two releases of a lock:
  handlers (`Request`, `GetBroker`, `Attach`, `Detach`), senders (`Send`), the
  broker's threads (`WaitUpstream`, `StartUpstream`, `FanOut`, `ReadEnds`), the grace
  timer (`TimerFires` and `TimerCloses` are apart: a timer that fired cannot be
  cancelled) and the two halves of a close (`CloseKills`, `CloseEnds`).
* `ImageSync`. `Listen`/`EventArrives` are the docker events thread, `Wake`, `Clear`,
  `ReadMaster` the loop of the daemon, `ListWorker`, `Push`, `RemoveExtra`, `EndPass`
  a pass of the daemon, of the command line or of a topology.
* `Placement`. `Extract` (sizes with their cache), `CheckImages`, `Gather`, `PlaceVd`
  (one VD at a time) make the plan; `Prepare`, `BeginMove`, `EndMove`, `DropSource`
  migrate disks; `StartVds` and `Save` end a deploy; `Destroy`, `RemoveVd`, `StartVd`,
  `HotAdd`, `Wipe` are what happens to the lab between deploys; `CutShort` kills the
  service. A disk is `"none"`, `"part"` (torn copy), `"old"` or `"data"` (what the VD
  wrote last).
* `Addresses`. An assignment (`Assign`, by a deploy or a hot add) recomputes the
  subnet from the labs there are, keeps the sticky reservations, lets wishes take
  their address and gives the rest out in order. `EditVd`, `SetNodeMgmtIpv4`,
  `SetMgmtConfig` edit the topology, `OtherLab` deploys and destroys other labs.

### Gui

The same construction over the six parts of the GUI, which are objects of one
process without common state, and over the packet traces that its pages start in the
backend (`follow_rabbit_routes.py`).

* `Accounts`. A request decides in one step (`CreateUser`, `PatchUser`, `DeleteUser`,
  `Login`, `CreateLab`, ...) and writes in another (`Commit`), since PostgreSQL runs
  at READ COMMITTED; `SingleAssistant`, `CascadedSessions`, `OrphanedLabs` and
  `InsertLab` are the constraints of the schema. A change of a user keeps, in an
  auxiliary field, who the active admins were when it was decided.
* `Topologies`. An edit loads, changes and saves in one step of the event loop; the
  answer becomes the client's copy, which `SaveTopology` writes back whenever it
  likes. `NormalLans` is the overlap check, `Renamed` carries the identity of a disk
  along. `Materialize`, the load and save before a plan or a deploy, is one step as well:
  `plan` and `deploy` call it on the event loop without an await
  (`multinode_service.py:290` and `498`). The calls in a worker thread (221, 270) are in
  `resolve_node_host`, which no code of the repository calls.
* `GuiLabs`. Requests on one lab as steps between awaits; `starts` is
  `_local_node_starts`, `lock` `_deploy_lock`. What a controller does to the hosts is
  one step when it ends (`Effect`, `Damage`); its inside is `NodeLifecycle` and
  `LabLifecycle`.
* `LiveSessions`. `Publish` and `Schedule` are the two halves of `publish` in a worker
  thread, `RunCallback` runs what was scheduled on the loop, `Subscription` the two
  halves of `subscribe`; `RequestShutdown`, `Drain`, `CancelActive` the registry.
* `WebUi`. Every method of the service is a step of the loop; `OpenTunnel`, `Cleanup`,
  `CloseLab` work on the two tables, `ProxyHttp`, `ProxyWebsocket` and
  `DeviceAnswers` on the credentials of a tunnel. Of the reverse proxy only these
  handlers are modelled; what it rewrites in pages and headers is text (section 6).
* `Captures`. Token, reservation, command, process, release; `Swept` is what every
  request does to stale entries first.
* `FollowRabbit` and `FlowPaths`. A trace starts a probe per link and direction, a task
  that reads a tcpdump through an ssh client; `Packet`, `ProbeEnds`, `ProbeBreaksOff`,
  `FinisherWaits`, `FinisherEnds`, `Stop`, `StopEnds` are the coroutines between their
  awaits. A cancelled task waits for its ssh client, and a second cancellation cuts that
  wait off; an exception ends the task and leaves ssh. The tcpdump on the other host is
  not modelled: it runs under a timeout of its own and ends with that or with a write
  into the closed connection. `FlowPaths` is the reconstruction of the path from
  what they saw: the code iterates over Python sets, whose order varies, so
  `Orientations` is a set of results and the property speaks of each of them. Its
  loops are recursive functions: `Turns` the queue of `_orient` that spreads from the
  terminal VD, `Descent` the walk along falling TTLs. It stands above `FollowRabbit`,
  whose steps never use it.

## 3. Runs

| Run | Expect | Shows |
|---|---|---|
| `node_lifecycle` | pass | what the state file says of a VD is true of its container, whatever fails and wherever the service dies, but for a hot add that is being undone: `NodeLifecycle` implements `VdPhases`; stopped ones have none; every start in flight is registered; "completed" is true; a saved "up" between running VDs is connected; no error path leaves a passing phase behind while the transport holds |
| `node_liveness` | pass | every registered start ends |
| `node_late_cancel` | violation | a stop after the last cancellation check is answered "cancelled", and the VD runs |
| `node_empty_running` | violation | with no VD running, a link is saved as up over VDs that do not run |
| `runtime_links` | pass | identifiers and VNIs stay unique and stable; "up" is connected under the recorded identifiers; wires never join |
| `runtime_neighbours` | violation | stopping a VD of one lab disconnects a link of another lab on the same host that is saved as up |
| `lab_lifecycle` | pass | the state file names every container; a clean destroy leaves nothing; a rollback leaves only what the failing phase made |
| `lab_cleanup` | pass | a pass under the lock spares live labs and young containers; the daemon removes leftovers in the end |
| `lab_docker_fails` | violation | a failing `docker ps` counts as an empty host, and a live lab is cleaned |
| `lab_stale_plan` | violation | the daemon removes a VD that was started after its inventory |
| `services` | pass | image builds, the console relay, image sync, placement and addresses; see below |
| `gui` | pass | the six parts of the GUI and packet traces; see below |

`node_lifecycle` goes through eight settings: starts and stops under failing and
orphaned commands and crashes, and under failing, silent and orphaned commands and a
history that cannot be written; starts and restarts under failing commands and crashes;
starts and stops with link reconciliation, and starts and removals, under failing
commands, a lost transport, crashes and that history; all requests but topology edits
under failing and silent commands; edits between starts and stops under failing commands
and that history; all requests under failing commands.

`services` checks, part by part:

* `ActiveIsWorkedOn`, `BuildsImplementJobs`: a build job that nobody works on is one
  that a failed write of the service has touched, a restart leaves none, and the
  service implements `BuildJobs`;
* `SuccessHasImage`, `DirectoryIsClean`: a successful job has its patched image
  although jobs share tags, and copies in a build directory belong to a build;
* `OutputIsUnbroken`, `OneUpstream`: what a console client gets has no hole and no
  repetition, and the cleanup of a broker never hits its successor;
* `ChangeIsNoticed`: no change of an image falls between two passes of the daemon;
* `StartsOnItsDisk`, `PlanKeepsHistory`: a deploy starts no VD away from its latest
  disk, and no plan overcommits a host or moves a VD that could stay;
* `AddressesStay`: no assignment recycles an address while the state file exists.

`gui` checks:

* `LastAdminGoesByRace` (accounts: no request, judged by what it found, takes the last
  active admin away), `OverlapOnlyByImport` and `DisksAreDistinct` (topologies),
  `StopReachesStart` (labs), `NothingIsMissed` and `ShutdownReachesAll` (live
  sessions), `OneTunnelPerKey` (web UIs), `RunningIsListed` (captures);
* `EndIsQuiet`: a trace that is done, or whose stop was answered by the request that
  cancelled it, has no task left that adds to its result or waits for an ssh client;
* `ForwardIsExact`: a forward path is called certain exactly when it is a beginning of
  the real one.

**Bounds.** `NodeLifecycle`: two VDs and the link between them, one waiting
request beside the one that holds the lock (`MaxQueue`), one crash (`MaxCrash`).
The lock serialises everything except cancellation and registration, so two VDs
and a second waiter bring every pair of requests together; the proofs remove the
bounds. `RuntimeLinks`: three VDs in a row on two hosts, the
last with a real network: same-host, cross-host, real and pending links occur side
by side, and identifiers are freed and handed out again. No bound on the number of
mutations is needed, since freed numbers are reused. `MaxIndex` bounds the search
for an unused number by twice the number of wires, which the loop can never
exceed. `LabLifecycle`: two hosts with a VD each, two or three jobs and one lost
host (a failed deploy, a repeated one and a destroy are three jobs). `LabCleanup`:
one VD away from the master, two jobs, one lost host, one pass under the lock
(`MaxPasses`), any number of the daemon's. Hosts (RuntimeLinks) and VDs
(NodeLifecycle) are symmetric in the runs without liveness.

`services`: two build jobs and two uploads under one file name, over a kind of each
class, one of which is patched, any number of failing writes, and one restart (`MaxRestarts`): two jobs meet on
one directory and one tag, and a restart finds one of them in any step. Two console clients and two brokers
(one closing, one replacing it), history and queue of one chunk and two chunks
printed (`HistoryMax`, `QueueMax`, `MaxChunks`), so both overflow. One image that is
selected and one that is not, one change (`MaxChanges`), one pass beside the
daemon's. Two VDs on a master and two workers with two reports of capacity that force
moves, at most two mishaps (`MaxMishaps`: failures of single steps of a deploy, of a
copy or of a history write; with two, a second failure meets what the first left).
Three VDs in subnets of eight addresses, of which two are asked for; other labs take
the default subnet and give it back.

`gui`: two users, one cookie, one lab and two concurrent requests; two topologies of
two names with three identities; three requests on one VD; two sockets, two
publishers, a buffer of one and two events; two devices, two users and three tokens
for two tunnels (`MaxTunnels`), one redeploy; two captures with one per user. One
trace on a chain of three links around a switch or a router, in both directions, with
every set of packets seen and two stops: a stop meets the deadline, a probe that ends
or breaks off, and another stop. Only the shortest of its three flows is answered: the
packets of the way back bear on no property, and the others would double the states.

**Deadlock** is checked in the node and link runs. In the lab, service and GUI runs
it is not: when the jobs, requests or events of an instance are used up the model
really stops.

**Fairness.** `StartsEnd` assumes that the lock is granted to its first waiter
(asyncio's lock is FIFO) and that a worker goes on, i.e. that remote commands end
by themselves or by a timeout. One place does not keep this: `recv_exit_status`
without a timeout (`services/ssh.py:97`, listed as a hazard). `LeftoversGo`
assumes that the lock holder and the pass go on, the daemon's timer fires, time
passes, and a lost host comes back; hosts come back while no job runs. Requests,
crashes and failures are never fair. The service and GUI runs check safety only and
state no fairness.

## 4. Findings

Five disagreements between code and documentation, each shown by a violation run
and quoted in `PROJECT.json`: the late cancellation, the empty set of running VDs,
the bridge shared by two labs, the failing `docker ps` and the daemon's stale plan.

Known limits, where a property holds only under a condition stated in its text.
Without that condition, and with wider settings in the MC module, TLC shows them:

* `reconcile` tears a failing link down and saves nothing, so "up" stays in the
  file, and when the topology was edited the network it has created goes unrecorded,
  under identifiers that are given out again (`UpIsConnected` under `LinksTracked`;
  `UpIsActive` and `LinksPrivate` unless `Untracked`; add `"reconcile"`, or failures to
  a setting with `"node"` or `"all"`); so does reconciling a link that left the
  topology;
* the VNIs of a lab start at a hash of its name modulo 1000 (`utils/ids.py:20`): labs
  with close hashes use the same VNIs (`LinksPrivate`; two labs and closer `Bases`);
* a link that was edited away is deleted before the list without it is saved: a crash
  or a lost transport in between leaves it saved as up (`LinksTracked`; a setting with
  `"edit"` and the fault `"crash"` or `"loss"`);
* the rollback of a hot add raises when the transport is lost, and a passing phase
  stays (`PhasesSettle`; the fault `"loss"`);
* a hot add whose placement history cannot be written is undone while the file says
  running (`node.py:346`); if a crash or a lost transport cuts the rollback short, the
  file goes on saying so without a container, and the next start of the VD is answered
  "completed" (`CompletedMeansRunning` under `CutShort`; `VdPhases` calls it "undone");
* a hot add never deletes the networks of links that left the topology, it only forgets
  their records (the start of a VD deletes them);
* a hot add after a wire left the topology drops the record and leaves the bridge
  (`Untracked`; a setting with `"edit"` and `"add"`);
* `containerlab destroy` that fails silently makes an incomplete destroy "clean", and
  so does the removal of a relay that is lost while its host is there, since errors of
  the relays are dropped (`CleanDestroyIsComplete`; the faults `"silent"` and `"loss"`);
* a placement that moved after a failed deploy leaves containers that the next state
  file does not name, and a destroy that calls itself clean (`StateNamesContainers`,
  `CleanDestroyIsComplete` under `OnePlacement`; two members in `Placements`);
* a VD that an earlier deploy left on a host which the state file does not name, and
  which does not answer, protects nothing from a cleanup pass: `SparesLive` speaks of
  the containers where the file has them (two placements and a lost host);
* a deploy that outlasts the grace period looks like leftovers to the daemon
  (`CleanupSparesYoung` speaks of the API and of young containers; the fault `"slow"`);
* a listing of disks that fails counts as no disk (`persistence.py:232`) and is not
  modelled; a copy of a disk that broke off counts as a disk, and a placement history that
  could not be written after a live removal lets the next migration copy an older
  disk over the latest (`StartsOnItsDisk` names both); a deploy that fails after a
  migration leaves a history that names the old host, and the retry is refused with
  "no overlay data was found there";
* a hot add looks for no disk: removed live and added again, a VD may start on an
  empty disk on another host;
* the management subnet is worked out anew at every parse; after another lab is gone
  a hot add assigns in another subnet (`AddressesStay` requires that the topology
  still resolves to the subnet of the lab);
* two concurrent requests that each demote, deactivate or delete one of two active
  admins count the other and leave none, although `user_routes.py:10` says that "the
  last active admin cannot be deleted, demoted, or deactivated": the count
  (`user_routes.py:72`) and the commit are separate (`LastAdminGoesByRace` allows this
  race and nothing else);
* an import of a drawing is not checked for overlapping real networks
  (`OverlapOnlyByImport`);
* a job of the image builder that a failing write of the service has touched stays
  active with nobody working on it, cannot be cleared, and a success that could not be
  recorded comes back as failed after a restart (`ActiveIsWorkedOn`, `broken`);
* the cancellation of a trace ends the ssh client, not the tcpdump on the other host,
  and an exception in a probe ends neither (`EndIsQuiet` speaks of tasks and clients);
* a copy into a build directory that failed, could not be removed or was interrupted
  by a restart stays (`DirectoryIsClean`, `leftover`);
* a stop of a capture before its tcpdump is attached leaves a process that is not
  listed (`RunningIsListed` speaks of attached ones);
* `image-sync sync --image X` puts X in the place of the filter and removes every
  other image of the workers unless `--no-remove-extra` is given;
* an edited topology that the end of the process leaves half written is skipped by the
  check of overlapping real networks (`realnet_bgp.py:513`) and loads without the
  identities of its disks: the GUI models have no restart.

## 5. Proofs

All proofs are checked by TLAPS and hold for every value of the constants: any
number of VDs, hosts, clients, jobs and requests, any settings and any bounds, within
the assumptions below. A theorem about a component is about its whole specification;
where a property needs an assumption on the environment, the property says so itself,
or the theorem has it as a hypothesis named here.

### Node lifecycle (`NodeLifecycleProofs`)

| Theorem | Property | Invariant, and why the property alone is not inductive |
|---|---|---|
| `TypeCorrect` | `TypeOK` | inductive |
| `RunningIsBacked` | `RunningHasContainer` | `RunningInv`: a worker that commits writes "running" from its own copy, and a crash reads back the file. The copy is as truthful as the file (`CopiesTruthful`), the VD a worker creates or destroys is called running by neither (`BusyNotRunning`: "stopping" is saved before the container goes) unless its add failed late and is being undone, a worker past the wait has its container (`BusyIsUp`) |
| `StartsStayRegistered` | `StartsRegistered` | `QueuedOnce`: a VD has one start in the queue or at work, so the end of one never frees the entry of another |
| `CompletedIsRunning` | `CompletedMeansRunning` | `PlaceInv`: the phases in memory are those of the file, and an answer "ok" is given at the end of a commit, or on the word of the file at a load. With `SettleInv` the file can be wrong at a load only after a crash or a lost transport |
| `StoppedIsGone` | `StoppedHasNoContainer` | `StoppedInv`: a container is created only after "starting" was saved, and at each place from which "stopped" is saved the container is gone |
| `PhasesAreSettled` | `PhasesSettle` | `SettleInv`: only the VD the worker is busy with is in a passing phase, and at no place (`SettledPc`) where the worker owes the file nothing |
| `UpStaysConnected` | `UpIsConnected` | `LinkInv`: what the file and the copy call up is connected (`LinksBacked`), but for a link that an edit took away and that the next save forgets (`EditedAway`), and so is what the rollback of an add will restore (`PrevBacked`) |
| `VdsLiveByTheirPhases` | `LivesByItsPhases` | `PhaseInv`: at each place of the worker, what the file says of the VD it works on. Each save then moves that VD along its phases, each command meets a passing phase, and all else (requests, the lock, crashes, answers, links) is a stutter |
| `ShownRunningIsUp` | none | of `VdPhases` alone: a VD shown as running has its container, an inductive fact, so that a reader needs the abstract specification only. "Shown" excludes one that is being undone |

`RunningIsBacked` proves the same promise directly; the runs check it through
`LivesByItsPhases`, which is stronger. `NodeInv`, the conjunction of the first four invariants, carries the other proofs. A
step is one of some thirty actions; the proofs go by action, and most actions leave an
invariant alone because of the place the worker is at.

### Runtime links (`RuntimeLinksProofs`)

* `LinksTypeCorrect`: `Spec => []LinksTypeOK`, inductive as it stands.
* `LinkIdsUnique` and `LinkIdsStable`: no two links of a lab share an identifier or
  VNI; a link keeps both as long as its type. `IdsInv` describes the merge loop half
  way: everything saved and everything built is in `used` (`MergeTaken`), what was
  built is pairwise apart (`BuiltApart`), a kept link has its old identity
  (`BuiltStable`) and a renamed one is apart from the whole saved list (`MergeApart`).
  A kept link is then apart from earlier kept ones because the saved list was unique,
  and from renamed ones by `MergeApart`; a renamed one because it was chosen outside
  `used`. The base case needs that `enumerate` numbers links of one type differently
  (`IndexDistinct`, by cardinality of initial segments).
* `UpLinksAreActive` and `LinksStayPrivate`, for any number of labs as long as no host
  has VDs of two of them (`LabsApart`, a hypothesis about every state of the behaviour:
  else the bridge of a same-host link is shared, which `runtime_neighbours` shows), and
  for the second as long as the ranges from which the labs take VNIs are apart
  (`BasesApart`; how large they are is `VniInv`). `LinksOfOneLab`: with one deployed
  lab both hold without further conditions.
  `NodesInv` relates the state of a VD to its place and
  container, `RecordsInv` the saved and the rebuilt record of a wire to its type.
  `NetInv` says that every port is plugged into the bridge or tunnel its record names
  or into nothing, and that an up link between running VDs is plugged in at both ends;
  between mutations the record is the saved one, while the links of a lab are created
  its rebuilt one (`Now`). Two ports that meet have records of one identifier: `IdsInv`
  excludes that within a lab, and `LabsApart` that they are of two (`BridgeIsOwn`). A
  delete therefore disturbs no other link (`DeleteKeeps`).

### Lab lifecycle and cleanup (`LabLifecycleProofs`)

* `NamesAreComplete` (`StateNamesContainers`): `NamesInv`, everything on the hosts is
  of the one placement, and the record of a deploy is complete phase by phase, so the
  file it saves names all of it. The property alone says nothing of a lab without a
  state file, from which the next deploy starts.
* `CleanLeavesNothing` (`CleanDestroyIsComplete`): `DestroyInv`, a destroy without an
  error so far has left nothing of the kinds it has passed, but for the relays and
  docker networks of hosts that are down; the last step has to reach those hosts and
  records the error. That the order of the steps respects what docker holds is in
  `TargetsCover` and the lemmas about `Strip`.
* `RollbackUndoesPhases` (`RollbackLeavesFailedPhase`): `FirstInv`, the phases on
  record are a prefix, what lies on the hosts is on record, and what the rollback has
  left belongs to a phase still on record, to the failing one, or is a network held by
  containers of the failing one.
* `PassSparesLive` (`CleanupSparesLive`, hypothesis: no setting has the fault
  `"docker"`, see `lab_docker_fails`) and `PassSparesYoung` (`CleanupSparesYoung`, the
  same hypothesis): `PassInv`, under the lock the state file is as the pass read it, the
  inventories show every VD of the hosts that answered, and a plan is made only for a
  lab without a running VD; and for the second `GraceInv`, a listing with a young
  container is fresh and a plan names none: one on a host that did not answer is either
  unknown to the plan or named by the state file, which then blocks it
  (`PlanOutOfGrace`).

### Services (`ConsoleRelayProofs`, `ServicesProofs`)

* `ActiveJobsAreWorkedOn`, `SuccessesHaveImages`, `DirectoryStaysClean`: `BuildInv`,
  the table, the state file and the tasks tell the same story of a job but for the
  writes that failed (`JobsAgree`), the patched image is there before the source tag may
  go (`ImagesKept`), and every copy has a process that will remove it or is a leftover
  (`CopiesOwned`).
* `ServiceImplementsJobs`: `ImageBuild` implements `BuildJobs` under the mapping
  `status <- Recorded`: initial states map to the initial state, an upload, a step of a
  running task and a restart without active jobs are stutters, and acceptance,
  begin, outcome, interruption by a restart and clearing map to `Accept`, `Begin`,
  `Succeed` or `Fail`, `Fail` and `Forget`; a first record or an outcome that cannot be
  written to `Refuse` and `Lose`.
* `ConsoleIsSingle`, `OutputStaysUnbroken`: `RelayInv`, a broker that has not finished
  its cleanup is the one of the table (`BrokerRegistered`), the history of an open one
  is a gapless run up to the last chunk (`HistoryCurrent`), and so is what a subscriber
  got and has queued (`ClientServed`). It rests on `HistoryMax <= QueueMax`, which the
  constants of the relay satisfy: else the replay would not fit.
* `ChangesAreNoticed` (`ChangeIsNoticed`, inductive together with the types).
* `AddressesAreSticky` (`AddressesStay`): `AddrInv`, reservations are pairwise distinct
  and none is an address of the infrastructure. Free addresses are given out by rank;
  that ranks of a finite set are distinct and all reached (`RankDistinct`,
  `RankReached`) comes from cardinality.
* `DisksArriveFirst` (`StartsOnItsDisk`): `PlaceInv`. A placed VD has a host
  (`PlanInv`); from `_prepare_local_sticky` on, a VD that is not to be moved has its
  disk where the plan has it, one that is to be moved has a single source and nothing
  at its target, and the source goes when target and source are the same (`MoveInv`).
* `PlansKeepHistory` (`PlanKeepsHistory`): `SizeInv` (needs, capacities and cached sizes
  are sizes) and `RoomInv`: while VDs are placed no host is asked for more than it
  reported, and as long as what the history gives the hosts fits, the plan follows it.
  The step that places a VD on its old host has to know that there is room left: what
  is placed so far is part of what the history puts there. So the proof needs that a
  sum over a set of VDs grows by the need of a VD that joins, and never shrinks with
  the set. Both are proved by induction over finite sets, as well-founded induction on
  strict inclusion.
* `ServicesImplementTheirParts`, `ServicesAreSafe`: a behaviour of `Services` is one of
  each part, and has the properties above.

### GUI and packet traces (`LiveSessionsProofs`, `FlowPathsProofs`, `GuiProofs`)

* `NothingIsEverMissed`, `ShutdownAlwaysReachesAll`: `LiveInv` adds that a handler that
  streams is subscribed. The lemmas are about a queue or a ring that takes one event.
* `LastAdminLostToARace`, an action property: `JudgedInv`, a request that changes or
  deletes a user was not judged when that user was the only active admin. One commit
  takes at most one admin away (`OneAdminAtATime`), so the admins have changed since.
* `DisksStayDistinct` and the action property `OnlyImportsOverlap`: `TopoInv`, an
  identity belongs to one lab, in its file and in every copy a client may send back
  (`Holds`). The file alone is not enough: a stale copy would bring an identity back.
* `StopAlwaysReachesStart` (`LabsInv`: starts never probe and name a node),
  `TunnelsAreKeyed` (`WebInv`: a handler that waits for the status of a device knows
  which one), `RunningStaysListed` (`CaptureInv`: where in its life a session has a process).
* `EndsStayQuiet` (`EndIsQuiet`): `RabbitInv`, the tasks of a trace are in `_tasks`
  exactly while it runs, and while it does only its finisher cancels a probe, once, so
  that a wait for ssh is cut off by a stop only (`TasksInv`); a stop that answered waited
  for the probes it cancelled (`StopInv`).
* `ForwardLegsAreExact` (`ForwardIsExact`), the correctness of a pure algorithm: for
  every topology, loop-free path, TTLs and set of links seen, and for every order in
  which the sets are iterated. Two loops need an invariant each. In the queue of
  `_orient` a turn either takes the next link of the path, and directs it the way the
  packets go, or finds nothing to do (`Along`, `AlongTurn`); `SpreadFollows` is what it
  leaves of one layer, a block of the path. Down the layers, what has been directed so
  far leads from the source to the nodes the next layer starts from (`Directed`,
  `DescentFollows`). Both inductions run over the numbers of turns, as least
  counterexamples in sets of naturals. What the gates say of the result is in
  `FirstLinksAreCertain`, when the first links of the path were seen, and
  `GapIsNotCertain`, when a link was seen beyond a gap.
* `GuiImplementsItsParts`, `GuiIsSafe`: as for the services.

### Assumptions

Each is an `ASSUME` of the module that declares the constants, evaluated by TLC in the
runs. `Ends` maps links to non-empty sets of VDs; a wire's VDs belong to its lab, wires
are finitely many naturals, base VNIs are positive; an image kind has one of three
classes; the master is a host and placements map VDs to hosts. Placement has finitely
many VDs and hosts (it sums their needs), and sizes and reports of capacity are naturals.
A traced flow has one path without a loop, on which a hop lowers the TTL by at most one
(`OnePathAssumption`): `ForwardIsExact` is about these flows. Sets of sockets and node
names are finite, `Version` is not empty, bounds are naturals.
Names of absent things (`"none"`, `NoHost`, `NoUser`, `NoFile`, `"free"`, `"all"`, and
`"daemon"` among the passes) are no members of the sets they stand beside.

`RunningInv`, `PhaseInv`, `IdsInv`, `PlaceInv`, `SizeInv` and `RoomInv`, the least obvious
of the invariants, were checked by TLC before they were proved. The proofs also made
the conditions of several properties exact: `LinksTracked`, `Untracked`, `OnePlacement` and the faults in
`CleanDestroyIsComplete` are what was missing where a step could not be proved. TLC
then found a behaviour that violates the property without the condition (section 4).

### Only model-checked

* `StartsEnd` and `LeftoversGo`: liveness, out of the prover's reach.
* The five violations: counterexamples, which a run shows.

## 6. Not modelled

* Text in, text out: topology generator, parsing of topologies and hosts files apart
  from the management subnet, rendering of BGP configurations, the device catalogue,
  the browser front end, release scripts. They keep no state.
* Administration (`admin_routes.py`): forms over configuration files, one writer.
* Status (`controllers/status.py`): reads only. Of note for its user: a VD that a
  crash left as "stopping" is in neither `can_start` nor `can_stop`.
* The command line runs controllers without the lock (hazard at `cli.py:81`): with a
  second unlocked writer no property of the state file holds, and the models have
  one lock holder.
* The rewriting of addresses and cookies of a device by the reverse proxy of the GUI
  (`webui_routes.py`): text in pages and headers, without a state, for unit tests to
  check form by form. Forms it misses: ':' in the first twenty characters of a rooted
  URL (681), a name of the device instead of its address (730), a device URL with a
  query and no path (755), a redirect to '//host' in path mode (773).
* The tcpdump of a trace on the other host, once its ssh client has ended.
* Names and numbers cut or hashed from the name of a lab (VRF tables, VNIs, relay
  ports, bridges of real networks, cold ports), web UI ports, IPv6 addresses.
* Cold ports, deferred carriers, the wait for `dnlab-linkctl`; contents of DNS zones
  and keys; the decoding of packets, weights of a path and the comparison of its two
  legs; logs of build jobs; input to consoles; audit log and federated logins; the
  cephfs backend, which has one disk for all hosts.

## 7. Plan

Done, in this order: the node lifecycle with its first proofs, the lab lifecycle
and the cleanup beside it, the runtime links with the proof of their identifiers,
the services beside the runtime with the refinement of build jobs, placement and
addresses, the GUI; then the proofs of all safety properties, component by component,
of the two compositions, of the abstract specification of a VD, and of the links of
several labs.

Next, most important first:

1. *liveness of the services*: a triggered pass happens, a shutdown ends, under the
   fairness of threads and of the event loop;
2. *names and numbers* derived from a lab name, as operators against a reference.
