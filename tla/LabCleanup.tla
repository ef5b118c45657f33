----------------------------- MODULE LabCleanup -----------------------------
(***************************************************************************)
(* The lab cleanup beside the lab lifecycle.                               *)
(*                                                                         *)
(* A pass reads the state files, takes an inventory of every host, plans   *)
(* what is stale and removes it.  The daemon does this on a timer and      *)
(* holds no lock: deploys, destroys, starts and stops go on between its    *)
(* steps.  The API runs the same pass under the lock of the lab.           *)
(***************************************************************************)
EXTENDS LabLifecycle

CONSTANTS MaxPasses  \* bound on the passes the API is asked for

ASSUME PassesAssumption == MaxPasses \in Nat

VARIABLES
    pass,    \* where the pass is
    snap,    \* the state file as the pass has read it
    inv,     \* the inventory: host -> [ok, seen, fresh]
    plan,    \* the artifacts still to remove
    passes   \* passes the API was asked for so far

cleanVars == <<pass, snap, inv, plan, passes>>
allVars   == <<labVars, cleanVars>>

mode == setting.cleaner

-----------------------------------------------------------------------------
(* One pass: reconcile_once *)

\* The inventory of a host: known once taken, ok if the host answered
NotYet == [ok |-> FALSE, known |-> FALSE, seen |-> {}, nets |-> {}, fresh |-> FALSE]

\* The lock of the API is free.
LockFree == Idle /\ ~ (mode = "api" /\ pass # "idle")

StartPass ==
    /\ pass = "idle" /\ mode # "none"
    /\ mode = "api" => Idle /\ passes < MaxPasses
    /\ pass' = "scan"
    /\ snap' = st                           \* discover_state_files
    /\ inv' = [h \in Host |-> NotYet]
    /\ plan' = {}
    /\ passes' = IF mode = "api" THEN passes + 1 ELSE passes
    /\ UNCHANGED labVars

OnHost(A, h) == {a \in A : HostOf(a) = h}

\* What the listings of a host show of the lab.  Containers carry the lab in
\* their name.  The management network is recognised, and removed, only for a
\* lab with a state file: the interfaces always, the docker network if nothing
\* uses it.  docker ps and docker network ls that fail count as empty.
Listing(h, docker) ==
    LET here == {a \in OnHost(art, h) : docker /\ Kind(a) \in Container}
        used == ~ docker \/ Attached(art, h) # {}
    IN [ok    |-> TRUE, known |-> TRUE, seen |-> here,
        nets  |-> {a \in Of({"net", "dnet"}, OnHost(art, h)) :
                       snap.on /\ (Kind(a) = "dnet" => ~ used)},
        fresh |-> young \cap here # {}]

Inventory(h) ==
    /\ pass = "scan" /\ ~ inv[h].known
    /\ \/ /\ h \notin down
          /\ \E docker \in {TRUE} \cup (IF "docker" \in Faults THEN {FALSE} ELSE {}) :
                inv' = [inv EXCEPT ![h] = Listing(h, docker)]
       \/ /\ h \in down
          /\ inv' = [inv EXCEPT ![h] = [NotYet EXCEPT !.known = TRUE]]
    /\ UNCHANGED <<labVars, pass, snap, plan, passes>>

Seen == UNION {inv[h].seen : h \in Host}

\* A VD container of any host counts, by its name; without a state file none.
Names(A) == {a[3] : a \in Of({"vd"}, A)}

\* (mutant) a live VD protects the lab without a state file too
LiveProtects == Names(Seen) # {}

\* _lab_has_running_vd
HasRunningVd == snap.on /\ Names(Seen) \cap Names(snap.names) # {}

\* expected_artifacts_from_state: all the state names, but the management
\* interfaces of the hosts with VDs only, and of the links those across hosts
Expected(s) ==
    LET vdHosts == {HostOf(b) : b \in Of({"vd"}, s.names)} IN
    {a \in s.names : /\ Kind(a) = "net" => HostOf(a) \in vdHosts
                     /\ Kind(a) = "link" => vdHosts # {HostOf(a)}}

\* (mutant) a host that does not answer blocks nothing
MissingIgnored == FALSE

HostMissing == \E a \in Expected(snap) : ~ inv[HostOf(a)].ok

\* (mutant) all the hosts of the lab have to be young, not any
GraceEverywhere == \A h \in Host : inv[h].seen # {} => inv[h].fresh

InGrace == \E h \in Host : inv[h].fresh

Protected == HasRunningVd \/ HostMissing \/ InGrace

\* Containers go whatever their state, docker networks if nobody used them;
\* to these come the artifacts the state file names, seen or not.
Stale == Of(Container, Seen) \cup (UNION {inv[h].nets : h \in Host}) \cup Expected(snap)

BuildPlan ==
    /\ pass = "scan" /\ \A h \in Host : inv[h].known
    /\ plan' = IF Protected THEN {} ELSE Stale
    /\ pass' = "execute"
    /\ inv' = [h \in Host |-> NotYet] /\ snap' = NoState
    /\ UNCHANGED <<labVars, passes>>

\* One command of the plan.  A host that did not answer is skipped; one that
\* is lost after that ends the pass.  The interface of a link is deleted under
\* a name cut to 15 characters and may be missed.
Execute(a) ==
    /\ pass = "execute" /\ a \in plan
    /\ IF HostOf(a) \in down
       THEN plan' \in {plan \ {a}, {}} /\ art' = art
       ELSE plan' = plan \ {a} /\ art' \in {Strip(art, {a})} \cup {A \in {art} : Kind(a) = "link"}
    /\ young' = young \cap art'
    /\ UNCHANGED <<st, down, job, place, step, reg, done, errs, outcome, jobs, downs, setting,
                   pass, snap, inv, passes>>

EndPass ==
    /\ pass = "execute" /\ plan = {}
    /\ pass' = "idle"
    /\ UNCHANGED <<labVars, snap, inv, plan, passes>>

\* The pass of the API dies with the service.
PassDies ==
    /\ "crash" \in Faults /\ mode = "api" /\ pass # "idle"
    /\ pass' = "idle" /\ plan' = {} /\ snap' = NoState /\ inv' = [h \in Host |-> NotYet]
    /\ UNCHANGED <<labVars, passes>>

-----------------------------------------------------------------------------
(* The composition *)

Init ==
    /\ LabInit
    /\ pass = "idle" /\ snap = NoState
    /\ inv = [h \in Host |-> NotYet] /\ plan = {} /\ passes = 0

PassStep ==
    \/ \E h \in Host : Inventory(h)
    \/ BuildPlan
    \/ \E a \in plan : Execute(a)
    \/ EndPass

Lab == /\ \/ Work
          \/ LockFree /\ Request
          \/ Environment
       /\ UNCHANGED <<cleanVars, setting>>

Next == Lab \/ StartPass \/ PassStep \/ PassDies

\* The worker goes on, the daemon wakes up on its timer, time passes, and a
\* host that was lost comes back.
Fairness ==
    /\ WF_allVars(Work /\ UNCHANGED <<cleanVars, setting>>)
    /\ WF_allVars(PassStep) /\ WF_allVars(mode = "daemon" /\ StartPass)
    /\ WF_allVars(Age /\ UNCHANGED <<cleanVars, setting>>)
    /\ \A h \in Host : WF_allVars(HostBack(h) /\ UNCHANGED <<cleanVars, setting>>)

Spec == Init /\ [][Next]_allVars /\ Fairness

-----------------------------------------------------------------------------
(* Properties *)

\* A step of a pass that goes on while the lab is deployed and one of its VDs
\* runs where the state file has it
SparesLive ==
    plan' # plan /\ pass = "execute" /\ st.on /\ Of({"vd"}, art \cap st.names) # {}
        => art' = art

\* A pass that the API runs under the lock never removes anything of a lab that
\* is deployed and has a running VD (build_cleanup_plan), although hosts come
\* and go between its steps.
CleanupSparesLive == [][mode = "api" => SparesLive]_allVars

\* "running VD from state protects lab" (the tests of build_cleanup_plan),
\* also for the daemon, which works without the lock.
DaemonSparesLive == [][mode = "daemon" => SparesLive]_allVars

\* grace_seconds: a pass under the lock never removes a container of the lab
\* that is younger than the grace period, with a state file or without one,
\* running or not.  Neither the inventory nor the grace alone decides it: a
\* young container may be on a host that does not answer the inventory and is
\* back when the plan is carried out (build_cleanup_plan).
CleanupSparesYoung ==
    [][mode = "api" /\ pass = "execute" /\ plan' # plan => (art \ art') \cap young = {}]_allVars

\* The containers that a failed or interrupted deploy, or a destroy with
\* errors, leaves without a state file are removed in the end, also from a
\* host that was lost for a while (reconcile_once, LabCleanupDaemon.run).
LeftoversGo ==
    mode = "daemon" /\ ~ st.on /\ Idle ~> st.on \/ ~ Idle \/ Of(Container, art) = {}
=============================================================================
