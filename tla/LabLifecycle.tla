---------------------------- MODULE LabLifecycle ----------------------------
(***************************************************************************)
(* Deploying and destroying a lab.                                         *)
(*                                                                         *)
(* A deploy runs its phases in order; each leaves artifacts on the hosts.  *)
(* The state file is written only after the last phase.  A phase that      *)
(* fails starts the rollback of the phases on record, the latest first.  A *)
(* destroy removes what the state file names, goes on whatever fails, and  *)
(* deletes the state file.  Both hold the API's lock; the service may die  *)
(* at any moment and a host may become unreachable.                        *)
(*                                                                         *)
(* An artifact is <<kind, host>>, or <<"vd", host, name>> for the          *)
(* container of a virtual device (VD).                                     *)
(***************************************************************************)
EXTENDS Naturals, Sequences, FiniteSets

CONSTANTS
    Host,        \* the hosts of hosts.yml
    Master,      \* the one that runs the shared services
    Vd,          \* the VDs of the topology
    Placements,  \* the placements [Vd -> Host] the scheduler may come to
    Settings     \* the settings considered, a subset of Setting

ClientKinds == {"deploy", "redeploy", "destroy", "stop", "start"}

FaultKinds == {"remote",   \* a remote command of a deploy fails
               "loss",     \* the SSH transport breaks during a removal
               "silent",   \* containerlab destroy fails and nobody notices
               "history",  \* the placement history cannot be written
               "crash",    \* the service dies
               "slow",     \* a deploy outlasts the grace period
               "docker"}   \* docker ps fails on a host that answers

Setting == [clients : SUBSET ClientKinds,        \* what clients ask for
            faults  : SUBSET FaultKinds,         \* what may go wrong
            real    : SUBSET Host,               \* hosts with a real network bridge
            cleaner : {"none", "daemon", "api"}, \* who runs cleanup passes
            jobs    : Nat,       \* bound on the deploys and destroys
            downs   : Nat]       \* bound on the hosts that become unreachable

ASSUME HostAssumption == Master \in Host
ASSUME PlaceAssumption == Placements \subseteq [Vd -> Host]
ASSUME LabSettingsAssumption == \A s \in Settings : s \in Setting

VARIABLES
    art,      \* the artifacts on the hosts
    young,    \* the containers younger than the grace period
    st,       \* the state file
    down,     \* the unreachable hosts
    job,      \* what the lock holder does
    place,    \* the placement of the deploy
    step,     \* index into Phases or DestroyOrder
    reg,      \* the artifacts on record in the controller's state
    done,     \* phases_completed, as indices into Phases
    errs,     \* the destroy met an error
    outcome,  \* how the last job ended
    jobs,     \* deploys and destroys so far
    downs,    \* hosts lost so far
    setting   \* the setting of this behaviour, chosen once

labVars == <<art, young, st, down, job, place, step, reg, done, errs, outcome,
             jobs, downs, setting>>

Clients   == setting.clients
Faults    == setting.faults
RealHosts == setting.real
MaxJobs   == setting.jobs
MaxDown   == setting.downs

-----------------------------------------------------------------------------
(* Artifacts *)

\* An artifact is <<kind, host>>, a VD <<"vd", host, vd>>.  The kinds:
\* "net": VRF, bridge and VxLAN of the management network; "dnet": the docker
\* network containerlab puts on that bridge; "real": bridge of a real network;
\* "link": the dataplane of a host; the others are containers
Kind(a)   == a[1]
HostOf(a) == a[2]

Container == {"anchor", "vd", "relay", "dns", "jump", "router"}

Of(kinds, A)   == {a \in A : Kind(a) \in kinds}
Reachable(A)   == {a \in A : HostOf(a) \notin down}
On(kind, hs)   == {kind} \X hs
Busy(f)        == {f[v] : v \in Vd}

\* The containers that containerlab attaches to the docker network of h
Attached(A, h) == {a \in Of({"anchor", "vd"}, A) : HostOf(a) = h}

\* containerlab deploy creates the docker network if it is missing.
CreateSet(a) == IF Kind(a) \in {"anchor", "vd"} THEN {a, <<"dnet", HostOf(a)>>} ELSE {a}
CreateAll(A) == UNION {CreateSet(a) : a \in A}

\* Removing T: docker keeps a network that containers use, and its bridge
\* cannot be deleted as long as the network is there; both fail silently.
Strip(A, T) ==
    LET nets == {a \in Of({"dnet"}, A \cap T) : Attached(A, HostOf(a)) = {}}
        brs  == {a \in Of({"net"}, A \cap T) : <<"dnet", HostOf(a)>> \notin A}
    IN A \ (nets \cup brs \cup (T \ Of({"dnet", "net"}, T)))

NoState == [on |-> FALSE, names |-> {}]

-----------------------------------------------------------------------------
(* Deploy *)

\* DeployController.run; the phases that leave nothing on a host (web UI
\* ports, overlays, default routes) stand with the one they precede.
Phases == <<"connect", "mgmt", "realnet", "anchor", "vd", "health", "links",
            "relay", "dns", "jump", "verify">>

\* What the phases make: a VRF with bridge and VxLAN on every host, the real
\* network with its router on the master, one anchor, relay and dataplane per
\* host with VDs, the VDs, and the services of the master
SetupMgmt      == On("net", Host)
SetupRealnets  == On("real", RealHosts) \cup {a \in {<<"router", Master>>} : RealHosts # {}}
DeployAnchors  == On("anchor", Busy(place))
DeployClab     == {<<"vd", place[v], v>> : v \in Vd}
DeployLinks    == On("link", Busy(place))
DeployRelays   == On("relay", Busy(place))
DeployDns      == {<<"dns", Master>>}
DeployJumphost == {<<"jump", Master>>}

Makes(p) ==
    CASE p = "mgmt"    -> SetupMgmt
      [] p = "realnet" -> SetupRealnets
      [] p = "anchor"  -> DeployAnchors
      [] p = "vd"      -> DeployClab
      [] p = "links"   -> DeployLinks
      [] p = "relay"   -> DeployRelays
      [] p = "dns"     -> DeployDns
      [] p = "jump"    -> DeployJumphost
      [] OTHER         -> {}

\* The health check polls every host with VDs.
HealthCheck == Busy(place)

\* The hosts a phase has to reach beyond those it makes something on
Reaches(p) ==
    CASE p = "connect"              -> Host
      [] p \in {"health", "verify"} -> HealthCheck
      [] p = "relay"                -> Host \ Busy(place)
      [] OTHER                      -> {}

\* The relay phase also removes the relays of hosts without VDs.
Sweeps(p) == IF p = "relay" THEN On("relay", Host \ Busy(place)) ELSE {}

\* One thread per host: the others run to their end when one of them fails.
Parallel == {"mgmt", "vd", "relay"}

\* Phases that enter phases_completed before they begin
RegisteredFirst == {"anchor", "jump"}

Idle == job = "idle"

Begin(kind) ==
    /\ Idle /\ jobs < MaxJobs
    /\ job' = kind /\ jobs' = jobs + 1
    /\ step' = 1 /\ reg' = {} /\ done' = {} /\ outcome' = "none"
    /\ UNCHANGED <<art, young, st, down, downs>>

\* POST /labs/deploy: nothing asks whether the lab is already deployed.
RequestDeploy ==
    /\ IF st.on THEN "redeploy" \in Clients ELSE "deploy" \in Clients
    /\ Begin("deploy")
    /\ place' \in Placements /\ errs' = FALSE

phase == IF step <= Len(Phases) THEN Phases[step] ELSE "save"
Missing == Makes(phase) \ reg

\* One artifact of the phase.  containerlab refuses a VD that exists; the
\* others are replaced.
Make(a) ==
    /\ job = "deploy" /\ step <= Len(Phases)
    /\ a \in Missing /\ HostOf(a) \notin down
    /\ Kind(a) = "vd" => a \notin art
    /\ art' = art \cup CreateSet(a)
    /\ young' = young \cup (Of(Container, {a}))
    /\ reg' = reg \cup {a}
    /\ UNCHANGED <<st, down, job, place, step, done, errs, outcome, jobs, downs>>

\* The phase is complete and goes on record.
PhaseDone ==
    /\ job = "deploy" /\ step <= Len(Phases)
    /\ Missing = {} /\ Reaches(phase) \cap down = {}
    /\ art' = art \ Sweeps(phase)
    /\ young' = young \cap art'
    /\ done' = done \cup {step}
    /\ step' = step + 1
    /\ UNCHANGED <<st, down, job, place, reg, errs, outcome, jobs, downs>>

\* What a failing phase may have made beyond its record
Partial ==
    LET begun == IF phase \in Parallel THEN {Reachable(Missing)}
                 ELSE {{}} \cup {{a} : a \in Reachable(Missing)}
    IN {part \in UNION {SUBSET CreateAll(b) : b \in begun} : CreateAll(part) = part}

\* (mutant) the jump host and the anchors go on record at the end only
RecordNever(d) == d

\* The phase is on record already when it fails, or never will be.
RecordFailed(d) == IF phase \in RegisteredFirst THEN d \cup {step} ELSE d

PhaseFails ==
    /\ job = "deploy" /\ step <= Len(Phases)
    /\ \/ "remote" \in Faults
       \/ Reaches(phase) \cap down # {}
       \/ \E a \in Missing : HostOf(a) \in down \/ (Kind(a) = "vd" /\ a \in art)
    /\ \E part \in Partial, swept \in SUBSET Reachable(Sweeps(phase)) :
        /\ art' = (art \ swept) \cup part
        /\ young' = (young \cap art') \cup Of(Container, part \ art)
    /\ done' = RecordFailed(done)
    /\ job' = "rollback"
    /\ UNCHANGED <<st, down, place, step, reg, errs, outcome, jobs, downs>>

\* (mutant) the state is saved as it was before the last services came up
SaveStateEarly ==
    /\ job = "deploy" /\ step = Len(Phases) + 1
    /\ st' = [on |-> TRUE, names |-> reg \ Of({"dns", "jump"}, reg)]
    /\ step' = step + 1
    /\ UNCHANGED <<art, young, down, job, place, reg, done, errs, outcome, jobs, downs>>

\* save_state, after the last phase
SaveState ==
    /\ job = "deploy" /\ step = Len(Phases) + 1
    /\ st' = [on |-> TRUE, names |-> reg]
    /\ step' = step + 1
    /\ UNCHANGED <<art, young, down, job, place, reg, done, errs, outcome, jobs, downs>>

\* save_placement_history; if it fails the whole lab is rolled back, but the
\* state file stays.
SaveHistory ==
    /\ job = "deploy" /\ step = Len(Phases) + 2
    /\ \/ job' = "idle" /\ outcome' = "deployed"
       \/ "history" \in Faults /\ job' = "rollback" /\ UNCHANGED outcome
    /\ UNCHANGED <<art, young, st, down, place, step, reg, done, errs, jobs, downs>>

\* The removals that go by the name of the lab, those of the relays and of the
\* management network on every host
DestroyRelays   == On("relay", Host)
DestroyDns      == {<<"dns", Master>>}
DestroyJumphost == {<<"jump", Master>>}
DestroyNetwork  == On("dnet", Host)
TeardownMgmt    == On("net", Host)

\* What the rollback of a phase removes: by name, or what is on record
Undo(p) ==
    CASE p = "mgmt"  -> DestroyNetwork
      [] p = "relay" -> DestroyRelays
      [] p = "dns"   -> DestroyDns
      [] p = "jump"  -> DestroyJumphost
      [] OTHER       -> reg \cap Makes(p)

\* The removals that get through: those on the hosts that answer, or fewer if
\* the transport breaks, or if the first error stops the others.
Removed(T, stops) ==
    {gone \in SUBSET Reachable(T) :
        gone = Reachable(T) \/ "loss" \in Faults \/ (stops /\ Reachable(T) # T)}

\* What is left of T if containerlab destroy fails: its exit status is not
\* looked at.
Silently(T) ==
    IF "silent" \in Faults /\ Of({"vd", "anchor"}, T) = T THEN SUBSET Reachable(T) ELSE {}

\* (mutant) the phases are rolled back in the order in which they were done
Earliest == CHOOSE i \in done : \A j \in done : i <= j

\* The next phase of phases_completed to roll back, the latest first
Latest == CHOOSE i \in done : \A j \in done : j <= i

\* Every phase but the relays stops at its first error.
RollbackPhase ==
    /\ job = "rollback" /\ done # {}
    /\ LET i == Latest
           p == Phases[i]
       IN
        /\ \E gone \in Removed(Undo(p), p # "relay") \cup Silently(Undo(p)) :
            IF p = "mgmt" /\ gone = Undo(p)
            THEN \E brs \in Removed(TeardownMgmt, TRUE) :
                    art' = Strip(Strip(art, gone), brs)
            ELSE art' = Strip(art, gone)
        /\ done' = done \ {i}
    /\ young' = young \cap art'
    /\ UNCHANGED <<st, down, job, place, step, reg, errs, outcome, jobs, downs>>

RollbackEnds ==
    /\ job = "rollback" /\ done = {}
    /\ job' = "idle" /\ outcome' = "failed"
    /\ UNCHANGED <<art, young, st, down, place, step, reg, done, errs, jobs, downs>>

-----------------------------------------------------------------------------
(* Destroy *)

\* (mutant) the docker network goes after the bridge
NetworkLast == <<"jump", "dns", "relay", "link", "vd", "anchor", "realnet",
                 "net", "dnet">>

\* The order of DestroyController.run
DestroyOrder == <<"jump", "dns", "relay", "link", "vd", "anchor", "realnet",
                  "dnet", "net">>

\* POST /labs/destroy: without a state file there is nothing to destroy.
RequestDestroy ==
    /\ "destroy" \in Clients
    /\ st.on
    /\ Begin("destroy")
    /\ errs' = (down # {})                 \* SSH connect failed
    /\ UNCHANGED place

DestroyRealnets == Of({"router", "real"}, st.names)

\* The targets of one step
Targets(k) ==
    CASE k = "relay"   -> DestroyRelays
      [] k = "dnet"    -> DestroyNetwork
      [] k = "net"     -> TeardownMgmt
      [] k = "realnet" -> DestroyRealnets
      [] OTHER         -> Of({k}, st.names)

\* Errors are collected and never stop the destroy.  Those of the relays and
\* of the docker network are dropped, and so is containerlab's exit status.
DestroyStep ==
    /\ job = "destroy" /\ step <= Len(DestroyOrder)
    /\ LET k == DestroyOrder[step] IN
       \/ \E gone \in Removed(Targets(k), k = "realnet") :
            /\ art' = Strip(art, gone)
            /\ errs' = (errs \/ (gone # Targets(k) /\ k \notin {"relay", "dnet"}))
       \/ \E gone \in Silently(Targets(k)) :
            /\ art' = Strip(art, gone)
            /\ errs' = (errs \/ Reachable(Targets(k)) # Targets(k))
    /\ young' = young \cap art'
    /\ step' = step + 1
    /\ UNCHANGED <<st, down, job, place, reg, done, outcome, jobs, downs>>

\* delete_state, with errors or without
DestroyEnds ==
    /\ job = "destroy" /\ step > Len(DestroyOrder)
    /\ st' = NoState
    /\ job' = "idle"
    /\ outcome' = IF errs THEN "errors" ELSE "clean"
    /\ UNCHANGED <<art, young, down, place, step, reg, done, errs, jobs, downs>>

-----------------------------------------------------------------------------
(* Stop and start of a VD of the deployed lab (NodeLifecycle in one step),   *)
(* and the environment                                                       *)

StopVd(a) ==
    /\ "stop" \in Clients /\ Idle /\ st.on
    /\ a \in Of({"vd"}, st.names) \cap art /\ HostOf(a) \notin down
    /\ art' = art \ {a} /\ young' = young \ {a}
    /\ UNCHANGED <<st, down, job, place, step, reg, done, errs, outcome, jobs, downs>>

StartVd(a) ==
    /\ "start" \in Clients /\ Idle /\ st.on
    /\ a \in Of({"vd"}, st.names) \ art /\ HostOf(a) \notin down
    /\ art' = art \cup CreateSet(a) /\ young' = young \cup {a}
    /\ UNCHANGED <<st, down, job, place, step, reg, done, errs, outcome, jobs, downs>>

Crash ==
    /\ "crash" \in Faults /\ ~ Idle
    /\ job' = "idle" /\ outcome' = "died"
    /\ UNCHANGED <<art, young, st, down, place, step, reg, done, errs, jobs, downs>>

HostLost(h) ==
    /\ downs < MaxDown /\ h \notin down
    /\ down' = down \cup {h} /\ downs' = downs + 1
    /\ UNCHANGED <<art, young, st, job, place, step, reg, done, errs, outcome, jobs>>

\* A job does not reopen an SSH transport it has lost.
HostBack(h) ==
    /\ Idle
    /\ h \in down /\ down' = down \ {h}
    /\ UNCHANGED <<art, young, st, job, place, step, reg, done, errs, outcome, jobs, downs>>

\* The grace period passes.
Age ==
    /\ young # {} /\ (Idle \/ "slow" \in Faults)
    /\ young' = {}
    /\ UNCHANGED <<art, st, down, job, place, step, reg, done, errs, outcome, jobs, downs>>

-----------------------------------------------------------------------------
(* The specification *)

LabInit ==
    /\ art = {} /\ young = {} /\ st = NoState /\ down = {}
    /\ job = "idle" /\ step = 1 /\ reg = {} /\ done = {} /\ errs = FALSE
    /\ place \in Placements
    /\ outcome = "none" /\ jobs = 0 /\ downs = 0
    /\ setting \in Settings

\* The steps of the lock holder
Work ==
    \/ \E a \in Missing : Make(a)
    \/ PhaseDone \/ PhaseFails \/ SaveState \/ SaveHistory
    \/ RollbackPhase \/ RollbackEnds
    \/ DestroyStep \/ DestroyEnds

\* What asks for the lock, or works under it
Request ==
    \/ RequestDeploy \/ RequestDestroy
    \/ \E a \in Of({"vd"}, st.names) : StopVd(a) \/ StartVd(a)

Environment == Crash \/ Age \/ \E h \in Host : HostLost(h) \/ HostBack(h)

LabNext == (Work \/ Request \/ Environment) /\ UNCHANGED setting

LabSpec == LabInit /\ [][LabNext]_labVars

-----------------------------------------------------------------------------
(* Properties *)

\* A deploy that failed and was rolled back over hosts that answer leaves
\* only what the failing phase had made itself, with the networks its
\* containers hold: the rollback undoes every earlier phase, in an order in
\* which docker lets it (DeployController._rollback).
RollbackLeavesFailedPhase ==
    job = "rollback" /\ done = {} /\ jobs = 1 /\ downs = 0
        /\ Faults \cap {"loss", "silent"} = {}
        => \A a \in art \ Makes(phase) :
               /\ Kind(a) \in {"dnet", "net"}
               /\ Attached(art, HostOf(a)) \cap Makes(phase) # {}

\* The scheduler comes to the same placement at every deploy.
OnePlacement == \A f, g \in Placements : f = g

\* As long as the placement is the same, the state file names every container
\* of the lab, also those that failed, interrupted and repeated deploys left:
\* what it does not name a destroy cannot remove (DeployController.run saves
\* the state after the last phase, DestroyController.run goes by it).
StateNamesContainers == OnePlacement /\ st.on => Of(Container, art) \subseteq st.names

\* A destroy that reports no error leaves nothing of the lab behind: "Lab
\* destroyed cleanly" (DestroyController.run), as long as the placement is the
\* same, containerlab destroy does not fail without anybody noticing and no
\* single removal is lost (the errors of the relays are dropped, which only the
\* steps after them make up for when the host is gone).
CleanDestroyIsComplete ==
    OnePlacement /\ Faults \cap {"loss", "silent"} = {} /\ Idle /\ outcome = "clean" => art = {}
=============================================================================
