------------------------------ MODULE VdPhases ------------------------------
(***************************************************************************)
(* What the state file promises about the virtual devices (VDs) of a lab   *)
(* to those who read it without the lock, whoever fails or dies: a VD goes *)
(* through its phases in order, one VD at a time, and its container is     *)
(* touched only while the file shows a passing phase.  There are two       *)
(* exceptions: a deploy command that was given up and goes on at its host, *)
(* and a VD whose start fails after all, which is undone while the file    *)
(* still calls it running.                                                 *)
(***************************************************************************)
CONSTANT Vd

VARIABLES
    phase,      \* the saved phase of each VD, "undone" for one that is undone
    up,         \* VDs whose container runs
    stray       \* VDs with a deploy command that was given up

phaseVars == <<phase, up, stray>>

Passing == {"starting", "reconciling", "stopping", "cancelling", "undone"}

\* A lab after its deploy: VDs that were saved to the topology later are absent.
PhasesInit ==
    /\ up \in [Vd -> BOOLEAN]
    /\ phase = [v \in Vd |-> IF up[v] THEN "running" ELSE "absent"]
    /\ stray = [v \in Vd |-> FALSE]

\* The file shows another phase; nothing happens on the hosts.
Enter(v, p) == phase' = [phase EXCEPT ![v] = p] /\ UNCHANGED <<up, stray>>

BeginStart(v)  == phase[v] \notin {"running", "undone"} /\ Enter(v, "starting")
BeginStop(v)   == phase[v] \notin {"absent", "stopped"} /\ Enter(v, "stopping")
BeginCancel(v) == phase[v] \notin {"absent", "running"} /\ Enter(v, "cancelling")

\* A deploy command brings the container up, or not, or is given up.
Create(v) ==
    /\ phase[v] = "starting"
    /\ \E u \in {TRUE, up[v]}, s \in {TRUE, stray[v]} :
        up' = [up EXCEPT ![v] = u] /\ stray' = [stray EXCEPT ![v] = s]
    /\ UNCHANGED phase

\* The container is destroyed, or exits while its start waits for it.
Lose(v) ==
    /\ phase[v] \in Passing
    /\ up' = [up EXCEPT ![v] = FALSE]
    /\ UNCHANGED <<phase, stray>>

\* A VD is wired and called running while it has its container.
BeginWiring(v) == phase[v] = "starting" /\ up[v] /\ Enter(v, "reconciling")
Run(v)         == phase[v] = "reconciling" /\ up[v] /\ Enter(v, "running")

\* It is saved as running, and then its start fails.
RunInVain(v) == phase[v] = "reconciling" /\ up[v] /\ Enter(v, "undone")

Settle(v) == phase[v] \in {"stopping", "cancelling"} /\ Enter(v, "stopped")
GiveUp(v) == phase[v] # "absent" /\ Enter(v, "error")
Forget(v) == phase[v] = "stopped" /\ Enter(v, "absent")

\* A VD that could not be added is forgotten.
Revert(v) == phase[v] \in {"starting", "reconciling", "undone"} /\ Enter(v, "absent")

\* A deploy that was given up ends, with or without a container.
StrayEnds(v) ==
    /\ stray[v]
    /\ stray' = [stray EXCEPT ![v] = FALSE]
    /\ \E u \in {TRUE, up[v]} : up' = [up EXCEPT ![v] = u]
    /\ UNCHANGED phase

PhasesNext ==
    \E v \in Vd :
        \/ BeginStart(v) \/ BeginStop(v) \/ BeginCancel(v)
        \/ Create(v) \/ Lose(v) \/ BeginWiring(v) \/ Run(v) \/ RunInVain(v)
        \/ Settle(v) \/ GiveUp(v) \/ Forget(v) \/ Revert(v) \/ StrayEnds(v)

PhasesSpec == PhasesInit /\ [][PhasesNext]_phaseVars
=============================================================================
