-------------------------- MODULE MCNodeLifecycle --------------------------
(* Two VDs and the link between them, in the settings of the runs. *)
EXTENDS NodeLifecycle, TLC

CONSTANTS r1, r2, wire

Wire == wire :> {r1, r2}

\* The two VDs play the same part; used for safety only.
Alike == Permutations({r1, r2})

\* The life of the containers, over starts, stops and restarts of both.
LifeSettings ==
    {[clients |-> {"start", "stop"}, faults |-> {"remote", "orphan", "crash"}],
     [clients |-> {"start", "stop"}, faults |-> {"remote", "orphan", "silent", "history"}],
     [clients |-> {"start", "restart"}, faults |-> {"remote", "crash"}]}

\* The links and the phases: with a lost transport and a crash, and with every request
\* but edits.
LinkSettings ==
    {[clients |-> {"start", "stop", "link"}, faults |-> {"remote", "loss", "crash", "history"}],
     [clients |-> {"start", "remove"}, faults |-> {"remote", "loss", "crash", "history"}],
     [clients |-> ClientKinds \ {"edit"}, faults |-> {"remote", "silent"}]}

\* Links come and go in the saved topology between the requests.
EditSettings ==
    {[clients |-> {"start", "stop", "edit"}, faults |-> {"remote", "history"}],
     [clients |-> ClientKinds, faults |-> {"remote"}]}

AllSettings == LifeSettings \cup LinkSettings \cup EditSettings

\* Progress, when commands fail and the service dies.
ProgressSettings ==
    {[clients |-> {"start", "stop", "remove"}, faults |-> {"remote", "crash"}]}

\* Nothing fails; one client starts a VD and another stops it.
CalmSettings == {[clients |-> {"start", "stop"}, faults |-> {}]}

\* A start fails and a link is reconciled.
ReconcileSettings == {[clients |-> {"start", "stop", "link"}, faults |-> {"remote"}]}
=============================================================================
