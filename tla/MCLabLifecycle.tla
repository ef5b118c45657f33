--------------------------- MODULE MCLabLifecycle ---------------------------
(* A master and a worker with one VD each. *)
EXTENDS LabLifecycle, TLC

CONSTANTS master, worker, r1, r2

Spread == {r1 :> master @@ r2 :> worker}

\* Three jobs and a host that may be lost; and two jobs in which everything
\* else may go wrong.
LifeSettings ==
    {[clients |-> {"deploy", "redeploy", "destroy", "stop"}, faults |-> {"remote", "crash"},
      real |-> {worker}, cleaner |-> "none", jobs |-> 3, downs |-> 1],
     [clients |-> {"deploy", "redeploy", "destroy"},
      faults  |-> {"remote", "loss", "silent", "history"},
      real |-> {}, cleaner |-> "none", jobs |-> 2, downs |-> 0]}
=============================================================================
