----------------------------- MODULE BuildJobs -----------------------------
(***************************************************************************)
(* What the image build service promises about its jobs, whatever happens  *)
(* to its processes: a job is accepted once, an outcome that is on record  *)
(* stands until the job is cleared, and the job never comes back.          *)
(***************************************************************************)
CONSTANT Job

VARIABLE status

Active == {"queued", "running"}
Final == {"success", "failed"}

JobsInit == status = [j \in Job |-> "none"]

Accept(j) == status[j] = "none" /\ status' = [status EXCEPT ![j] = "queued"]

\* The job cannot be recorded: it is not accepted.
Refuse(j) == status[j] = "none" /\ status' = [status EXCEPT ![j] = "forgotten"]

Begin(j) == status[j] = "queued" /\ status' = [status EXCEPT ![j] = "running"]

Succeed(j) == status[j] = "running" /\ status' = [status EXCEPT ![j] = "success"]

\* The outcome is known but cannot be recorded.
Lose(j) == status[j] = "running" /\ status' = [status EXCEPT ![j] = "unwritten"]

\* A build fails, or a restart interrupts all that are queued or running and
\* those it knows no outcome of.
Fail(J) ==
    /\ \A j \in J : status[j] \in Active \cup {"unwritten"}
    /\ status' = [j \in Job |-> IF j \in J THEN "failed" ELSE status[j]]

\* Only finished jobs are cleared.
Forget(J) ==
    /\ \A j \in J : status[j] \in Final \cup {"unwritten"}
    /\ status' = [j \in Job |-> IF j \in J THEN "forgotten" ELSE status[j]]

JobsNext ==
    \/ \E J \in SUBSET Job : Fail(J) \/ Forget(J)
    \/ \E j \in Job : Accept(j) \/ Refuse(j) \/ Begin(j) \/ Succeed(j) \/ Lose(j)

JobsSpec == JobsInit /\ [][JobsNext]_status
=============================================================================
