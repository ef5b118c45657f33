---------------------------- MODULE MCLabCleanup ----------------------------
(* A lab with one VD, on the worker, and the cleanup beside it. *)
EXTENDS LabCleanup, TLC

CONSTANTS master, worker, r1, r2

Spread == {r1 :> master @@ r2 :> worker}
Single == {r2 :> worker}

Case(clients, faults, cleaner, j, d) ==
    [clients |-> clients, faults |-> faults, real |-> {}, cleaner |-> cleaner,
     jobs |-> j, downs |-> d]

\* A pass under the lock, and the daemon in a service that dies; a host is
\* lost for a while.
PassSettings ==
    {Case({"deploy", "stop", "start"}, {"crash"}, "api", 2, 1),
     Case({"deploy", "destroy"}, {"crash"}, "daemon", 2, 1)}

\* Nothing fails but docker ps, under the lock.
DockerSettings == {Case({"deploy", "stop", "start"}, {"docker"}, "api", 1, 0)}

\* Nothing fails; a VD is stopped and started while the daemon works.
RaceSettings == {Case({"deploy", "stop", "start"}, {}, "daemon", 1, 0)}
=============================================================================
