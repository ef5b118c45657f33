--------------------------- MODULE ServicesProofs ---------------------------
(***************************************************************************)
(* What holds of image builds, image synchronisation, the placement of VDs *)
(* and disks and the management addresses, for every set of images,        *)
(* passes, jobs, restarts, VDs, hosts and subnets.  The console relay has  *)
(* a module of its own; the last section carries the theorems over to the  *)
(* behaviours of all the services.                                         *)
(***************************************************************************)
EXTENDS Services, ConsoleRelayProofs, FiniteSetTheorems, WellFoundedInduction

-----------------------------------------------------------------------------
(* Image builds *)

Status == Active \cup Ended \cup {"none"}
ProcStep == {"none", "check", "copy", "copying", "make", "patch", "drop"} \cup Ended
JobRequest == [kind : Kind \cup {"none"}, source : Source]

BuildTypeOK ==
    /\ upload \in [Upload -> {"none", "torn", "stored", "gone"}]
    /\ req \in [BuildJob -> JobRequest]
    /\ job \in [BuildJob -> Status]
    /\ saved \in [BuildJob -> Status]
    /\ task \in [BuildJob -> {"none", "new", "awaits"}]
    /\ proc \in [BuildJob -> ProcStep]
    /\ broken \in SUBSET BuildJob /\ used \in SUBSET BuildJob

\* The table, the state file and the task of job j tell the same story, but for
\* the writes that failed: an active job without a task is broken, and the end
\* of a job may be missing in its file.
JobAgrees(j) ==
    /\ j \notin used => job[j] = "none" /\ saved[j] = "none" /\ task[j] = "none" /\ proc[j] = "none"
    /\ j \in used => /\ req[j].kind \in Kind
                     /\ KindClass[req[j].kind] = "vrnetlab" => req[j].source \in Upload
    /\ task[j] = "new" => job[j] = "queued" /\ saved[j] = "queued" /\ proc[j] = "none"
    /\ task[j] = "awaits" => job[j] = "running" /\ saved[j] = "running"
    /\ task[j] = "none" /\ job[j] \in Active => j \in broken
    /\ job[j] \in Ended => saved[j] \in {job[j], "running"}
    /\ job[j] = "none" => saved[j] # "queued"

JobsAgree == \A j \in BuildJob : JobAgrees(j)

\* The patched image of job j is there as soon as the source tag may be dropped.
ImageKept(j) ==
    \/ proc[j] = "drop"
    \/ "success" \in {proc[j], job[j], saved[j]} /\ HasPatch(j)
    => Patched(Tag(j)) \in image

ImagesKept == \A j \in BuildJob : ImageKept(j)

\* Process j is the one that will remove file f.
Removes(j, f) ==
    /\ proc[j] \in {"copying", "make"} /\ KindClass[req[j].kind] = "vrnetlab"
    /\ req[j].source \in Upload /\ Dest(j) = f

CopiesOwned ==
    /\ \A j \in BuildJob : proc[j] \in {"copy", "copying"} => KindClass[req[j].kind] = "vrnetlab"
    /\ \A f \in copied \ leftover : \E j \in BuildJob : Removes(j, f)

BuildInv == BuildTypeOK /\ JobsAgree /\ ImagesKept /\ CopiesOwned

-----------------------------------------------------------------------------
(* The steps of one job.                                                   *)

\* The jobs other than j stand still.
OthersRest(j) ==
    \A k \in BuildJob \ {j} : /\ req'[k] = req[k] /\ job'[k] = job[k] /\ saved'[k] = saved[k]
                              /\ task'[k] = task[k] /\ proc'[k] = proc[k]
                              /\ (k \in broken' <=> k \in broken) /\ (k \in used' <=> k \in used)

\* Table, file and tasks agree after a step of job j if they do for j.
LEMMA AgreeStep ==
    ASSUME JobsAgree, NEW j \in BuildJob, OthersRest(j), JobAgrees(j)'
    PROVE  JobsAgree'
<1>1. ASSUME NEW k \in BuildJob \ {j} PROVE JobAgrees(k)'
    BY DEF OthersRest, JobsAgree, JobAgrees
<1> QED BY <1>1 DEF JobsAgree

\* What the script makes of a job depends on its kind and its source only.
LEMMA TagKept ==
    ASSUME NEW k, req'[k] = req[k]
    PROVE  Tag(k)' = Tag(k) /\ Dest(k)' = Dest(k) /\ HasPatch(k)' = HasPatch(k)
           /\ Patched(Tag(k))' = Patched(Tag(k))
BY DEF Tag, Dest, HasPatch, Patched

\* The tag of a patched image is never the tag a build drops.
LEMMA PatchedIsNoTag ==
    ASSUME NEW t, NEW k
    PROVE  Patched(t) # Tag(k)
<1>1. Tag(k) = <<Tag(k)[1], Tag(k)[2]>>
    BY DEF Tag, Dest
<1>2. ASSUME NEW a, NEW b, NEW c, NEW d, NEW e PROVE <<a, b, c>> # <<d, e>>
    OBVIOUS
<1> QED BY <1>1, <1>2 DEF Patched

\* A job that stands still keeps its image while no patched image is lost, and
\* keeps its claim on its copy.
LEMMA Untouched ==
    ASSUME NEW k \in BuildJob, req'[k] = req[k], job'[k] = job[k], saved'[k] = saved[k], proc'[k] = proc[k]
    PROVE  /\ ImageKept(k) /\ (Patched(Tag(k)) \in image => Patched(Tag(k)) \in image') => ImageKept(k)'
           /\ \A f : Removes(k, f) => Removes(k, f)'
<1>1. Tag(k)' = Tag(k) /\ Dest(k)' = Dest(k) /\ HasPatch(k)' = HasPatch(k)
      /\ Patched(Tag(k))' = Patched(Tag(k))
    BY TagKept
<1> QED BY <1>1 DEF ImageKept, Removes

\* The same of a step of job j that loses no patched image, for all the jobs.
LEMMA ImagesStep ==
    ASSUME ImagesKept, NEW j \in BuildJob, ImageKept(j)', OthersRest(j),
           \A k \in BuildJob : Patched(Tag(k)) \in image => Patched(Tag(k)) \in image'
    PROVE  ImagesKept'
<1>1. ASSUME NEW k \in BuildJob \ {j} PROVE ImageKept(k)'
    BY Untouched DEF ImagesKept, OthersRest
<1> QED BY <1>1 DEF ImagesKept

\* A step of job j that adds no file keeps every file owned, if it gives up its own.
LEMMA CopiesStep ==
    ASSUME CopiesOwned, NEW j \in BuildJob, OthersRest(j),
           proc'[j] \in {"copy", "copying"} => KindClass[req'[j].kind] = "vrnetlab",
           \A f \in copied' \ leftover' : f \in copied \ leftover \/ Removes(j, f)',
           \A f \in copied' \ leftover' : Removes(j, f) => Removes(j, f)'
    PROVE  CopiesOwned'
<1>1. ASSUME NEW k \in BuildJob, proc'[k] \in {"copy", "copying"}
      PROVE  KindClass[req'[k].kind] = "vrnetlab"
    BY <1>1 DEF CopiesOwned, OthersRest
<1>2. ASSUME NEW f \in copied' \ leftover'
      PROVE  \E k \in BuildJob : Removes(k, f)'
    <2>1. CASE Removes(j, f)'
        BY <2>1
    <2>2. CASE f \in copied \ leftover
        <3>1. PICK k \in BuildJob : Removes(k, f)
            BY <2>2 DEF CopiesOwned
        <3>2. CASE k = j
            BY <3>1, <3>2
        <3>3. CASE k # j
            BY <3>1, <3>3, Untouched DEF OthersRest
        <3> QED BY <3>2, <3>3
    <2> QED BY <2>1, <2>2
<1> QED BY <1>1, <1>2 DEF CopiesOwned

\* A step of the task of j, and of nobody else, keeps the files and the images.
LEMMA TaskStepKeeps ==
    ASSUME BuildInv, NEW j \in BuildJob, BuildTypeOK', OthersRest(j), JobAgrees(j)',
           req'[j] = req[j], proc'[j] \in {proc[j], "none"} \/ (proc[j] = "none" /\ proc'[j] = "check"),
           proc[j] \in {"copying", "make"} => proc'[j] = proc[j],
           "success" \in {job'[j], saved'[j]} => "success" \in {proc[j], job[j], saved[j]},
           UNCHANGED <<copied, leftover, image>>
    PROVE  BuildInv'
<1>1. BuildTypeOK /\ JobsAgree /\ ImagesKept /\ CopiesOwned
    BY DEF BuildInv
<1>2. Tag(j)' = Tag(j) /\ Dest(j)' = Dest(j) /\ HasPatch(j)' = HasPatch(j)
      /\ Patched(Tag(j))' = Patched(Tag(j))
    BY TagKept
<1>3. ImageKept(j)'
    BY <1>1, <1>2 DEF ImagesKept, ImageKept
<1>4. ImagesKept'
    BY <1>1, <1>3, ImagesStep
<1>5. \A f : Removes(j, f) => Removes(j, f)'
    BY <1>2 DEF Removes
<1>6. proc'[j] \in {"copy", "copying"} => KindClass[req'[j].kind] = "vrnetlab"
    BY <1>1 DEF CopiesOwned
<1>7. CopiesOwned'
    BY <1>1, <1>5, <1>6, CopiesStep
<1> QED BY <1>1, <1>4, <1>7, AgreeStep DEF BuildInv

-----------------------------------------------------------------------------
(* One lemma per action.                                                   *)

\* What _run_job writes at its end
LEMMA EndsFrame ==
    ASSUME BuildInv, NEW j \in BuildJob, task[j] = "awaits", NEW end \in Ended \cup {"running"},
           NEW written \in BOOLEAN, Ends(j, end, written), UNCHANGED <<req, used>>,
           proc' \in [BuildJob -> ProcStep], \A k \in BuildJob \ {j} : proc'[k] = proc[k]
    PROVE  /\ BuildTypeOK' /\ OthersRest(j) /\ JobAgrees(j)'
           /\ job'[j] = end /\ saved'[j] \in {end, saved[j]} /\ req'[j] = req[j]
<1>1. BuildTypeOK /\ JobAgrees(j)
    BY DEF BuildInv, JobsAgree
<1>2. Cleaned(req[j].source) \in [Upload -> {"none", "torn", "stored", "gone"}]
    BY <1>1 DEF Cleaned, BuildTypeOK
<1>3. BuildTypeOK'
    BY <1>1, <1>2 DEF BuildTypeOK, Ends, Status, Active
<1>4. /\ job'[j] = end /\ task'[j] = "none" /\ saved'[j] \in {end, saved[j]}
      /\ written => saved'[j] = end
      /\ end = "running" => j \in broken'
    BY <1>1 DEF BuildTypeOK, Ends, Ended
<1>5. OthersRest(j)
    BY <1>1 DEF BuildTypeOK, Ends, OthersRest
<1>6. j \in used /\ saved[j] = "running"
    BY <1>1 DEF JobAgrees
<1>7. JobAgrees(j)'
    BY <1>1, <1>4, <1>6 DEF JobAgrees, Active, Ended
<1> QED BY <1>3, <1>4, <1>5, <1>7

\* The task begins, or dies of a write before its `try`.
LEMMA RunJobKeeps ==
    ASSUME BuildInv, NEW j \in BuildJob, RunJob(j)
    PROVE  BuildInv'
<1>1. BuildTypeOK /\ JobAgrees(j) /\ task[j] = "new"
    BY DEF BuildInv, JobsAgree, RunJob
<1>2. BuildTypeOK' /\ OthersRest(j)
    BY <1>1 DEF RunJob, BuildTypeOK, Status, Active, OthersRest
<1>3. /\ job'[j] = "running" /\ saved'[j] \in {"queued", "running"} /\ proc'[j] = proc[j]
      /\ req'[j] = req[j] /\ proc[j] = "none"
      /\ task'[j] \in {"awaits", "none"} /\ (task'[j] = "none" => j \in broken')
      /\ (task'[j] = "awaits" => saved'[j] = "running")
      /\ UNCHANGED <<used, copied, leftover, image>>
    BY <1>1 DEF RunJob, BuildTypeOK, JobAgrees
<1>4. JobAgrees(j)'
    BY <1>1, <1>3 DEF JobAgrees, Active, Ended
<1> QED BY <1>2, <1>3, <1>4, TaskStepKeeps

LEMMA StartProcessKeeps ==
    ASSUME BuildInv, NEW j \in BuildJob, StartProcess(j)
    PROVE  BuildInv'
<1>1. BuildTypeOK /\ JobAgrees(j) /\ task[j] = "awaits" /\ proc[j] = "none"
    BY DEF BuildInv, JobsAgree, StartProcess
<1>2. BuildTypeOK' /\ OthersRest(j)
    BY <1>1 DEF StartProcess, BuildTypeOK, ProcStep, OthersRest
<1>3. /\ proc'[j] = "check"
      /\ UNCHANGED <<req, job, saved, task, broken, used, copied, leftover, image>>
    BY <1>1 DEF StartProcess, BuildTypeOK
<1>4. JobAgrees(j)'
    BY <1>1, <1>3 DEF JobAgrees
<1> QED BY <1>1, <1>2, <1>3, <1>4, TaskStepKeeps

LEMMA JobEndsKeeps ==
    ASSUME BuildInv, NEW j \in BuildJob, JobEnds(j)
    PROVE  BuildInv'
<1>1. BuildTypeOK /\ task[j] = "awaits" /\ proc[j] \in Ended
    BY DEF BuildInv, JobEnds
<1>2. /\ proc' \in [BuildJob -> ProcStep] /\ proc'[j] = "none"
      /\ \A k \in BuildJob \ {j} : proc'[k] = proc[k]
      /\ UNCHANGED <<req, used, copied, leftover, image>>
    BY <1>1 DEF JobEnds, BuildTypeOK, ProcStep
<1>3. PICK written \in BOOLEAN : Ends(j, proc[j], written)
    BY DEF JobEnds
<1>4. /\ BuildTypeOK' /\ OthersRest(j) /\ JobAgrees(j)'
      /\ job'[j] = proc[j] /\ saved'[j] \in {proc[j], saved[j]} /\ req'[j] = req[j]
    BY <1>1, <1>2, <1>3, EndsFrame
<1> QED BY <1>1, <1>2, <1>4, TaskStepKeeps DEF Ended

\* The handler fails the job, if it can, and leaves the process alone.
LEMMA JobFailsKeeps ==
    ASSUME BuildInv, NEW j \in BuildJob, JobFails(j)
    PROVE  BuildInv'
<1>1. BuildTypeOK /\ task[j] = "awaits" /\ UNCHANGED <<req, proc, used, copied, leftover, image>>
    BY DEF BuildInv, JobFails
<1>2. PICK end \in {"failed", "running"}, written \in BOOLEAN : Ends(j, end, written)
    BY DEF JobFails
<1>3. /\ BuildTypeOK' /\ OthersRest(j) /\ JobAgrees(j)'
      /\ job'[j] = end /\ saved'[j] \in {end, saved[j]} /\ req'[j] = req[j]
    BY <1>1, <1>2, EndsFrame DEF BuildTypeOK, Ended
<1> QED BY <1>1, <1>2, <1>3, TaskStepKeeps

\* A step of the process leaves the jobs alone.
LEMMA GoesFrame ==
    ASSUME BuildInv, NEW j \in BuildJob, proc[j] # "none", NEW step \in ProcStep \ {"none"}, Goes(j, step)
    PROVE  /\ BuildTypeOK' /\ JobsAgree' /\ OthersRest(j) /\ proc'[j] = step
           /\ UNCHANGED <<req, job, saved>>
<1>1. BuildTypeOK /\ JobsAgree
    BY DEF BuildInv
<1>2. BuildTypeOK' /\ OthersRest(j) /\ proc'[j] = step
      /\ UNCHANGED <<req, job, saved, task, broken, used>>
    BY <1>1 DEF BuildTypeOK, Goes, OthersRest
<1>3. JobAgrees(j)'
    BY <1>1, <1>2 DEF JobsAgree, JobAgrees
<1> QED BY <1>1, <1>2, <1>3, AgreeStep

\* A step of the script that loses no patched image and has built its own before
\* it drops its tag or succeeds.
LEMMA GoesKeeps ==
    ASSUME BuildInv, NEW j \in BuildJob, proc[j] # "none",
           NEW step \in ProcStep \ {"none"}, Goes(j, step),
           step \in {"copy", "copying"} => KindClass[req[j].kind] = "vrnetlab",
           \A k \in BuildJob : Patched(Tag(k)) \in image => Patched(Tag(k)) \in image',
           step = "drop" \/ (step = "success" /\ HasPatch(j)) => Patched(Tag(j)) \in image',
           \A f \in copied' \ leftover' : f \in copied \ leftover \/ Removes(j, f)',
           \A f \in copied' \ leftover' : Removes(j, f) => Removes(j, f)'
    PROVE  BuildInv'
<1>1. BuildTypeOK /\ JobsAgree /\ ImagesKept /\ CopiesOwned
    BY DEF BuildInv
<1>2. /\ BuildTypeOK' /\ JobsAgree' /\ OthersRest(j) /\ proc'[j] = step
      /\ UNCHANGED <<req, job, saved>>
    BY GoesFrame
<1>3. ImageKept(j)'
    BY <1>1, <1>2, TagKept DEF ImagesKept, ImageKept
<1>4. ImagesKept'
    BY <1>1, <1>2, <1>3, ImagesStep
<1>5. CopiesOwned'
    BY <1>1, <1>2, CopiesStep
<1> QED BY <1>2, <1>4, <1>5 DEF BuildInv

\* The checks of cmd_build before the copy.
LEMMA CheckSourceKeeps ==
    ASSUME BuildInv, NEW j \in BuildJob, CheckSource(j)
    PROVE  BuildInv'
<1>1. proc[j] = "check" /\ UNCHANGED <<copied, leftover, image>>
    BY DEF CheckSource
<1>2. \A f : ~Removes(j, f)
    BY <1>1 DEF Removes
<1>3. CASE Goes(j, "make")
    BY <1>1, <1>2, <1>3, GoesKeeps DEF ProcStep
<1>4. CASE Goes(j, "failed")
    BY <1>1, <1>2, <1>4, GoesKeeps DEF ProcStep, Ended
<1>5. CASE KindClass[req[j].kind] = "vrnetlab" /\ Goes(j, "copy")
    BY <1>1, <1>2, <1>5, GoesKeeps DEF ProcStep
<1> QED BY <1>3, <1>4, <1>5 DEF CheckSource

\* The copy appears and belongs to its job.
LEMMA StartCopyKeeps ==
    ASSUME BuildInv, NEW j \in BuildJob, StartCopy(j)
    PROVE  BuildInv'
<1>1. proc[j] = "copy" /\ UNCHANGED <<leftover, image>>
    BY DEF StartCopy
<1>2. \A f : ~Removes(j, f)
    BY <1>1 DEF Removes
<1>3. CASE Goes(j, "failed") /\ UNCHANGED copied
    BY <1>1, <1>2, <1>3, GoesKeeps DEF ProcStep, Ended
<1>4. CASE Goes(j, "copying") /\ copied' = copied \cup {Dest(j)}
    <2>1. KindClass[req[j].kind] = "vrnetlab" /\ req[j].source \in Upload
        BY <1>1 DEF BuildInv, CopiesOwned, JobsAgree, JobAgrees
    <2>2. UNCHANGED req /\ proc'[j] = "copying"
        BY <1>1, <1>4, GoesFrame DEF ProcStep
    <2>3. Dest(j)' = Dest(j)
        BY <2>2, TagKept
    <2>4. Removes(j, Dest(j))'
        BY <2>1, <2>2, <2>3 DEF Removes
    <2>5. \A f \in copied' \ leftover' : f \in copied \ leftover \/ Removes(j, f)'
        BY <1>1, <1>4, <2>3, <2>4
    <2> QED BY <1>1, <1>2, <1>4, <2>1, <2>5, GoesKeeps DEF ProcStep
<1> QED BY <1>3, <1>4 DEF StartCopy

\* The copy is complete, or stays behind as a leftover.
LEMMA EndCopyKeeps ==
    ASSUME BuildInv, NEW j \in BuildJob, EndCopy(j)
    PROVE  BuildInv'
<1>1. proc[j] = "copying" /\ UNCHANGED <<copied, image>>
    BY DEF EndCopy
<1>2. CASE Goes(j, "make") /\ UNCHANGED leftover
    <2>1. UNCHANGED req /\ proc'[j] = "make"
        BY <1>1, <1>2, GoesFrame DEF ProcStep
    <2>2. Dest(j)' = Dest(j)
        BY <2>1, TagKept
    <2>3. \A f : Removes(j, f) => Removes(j, f)'
        BY <2>1, <2>2 DEF Removes
    <2> QED BY <1>1, <1>2, <2>3, GoesKeeps DEF ProcStep
<1>3. CASE Goes(j, "failed") /\ leftover' = leftover \cup (copied \cap {Dest(j)})
    <2>1. \A f \in copied' \ leftover' : ~Removes(j, f)
        BY <1>1, <1>3 DEF Removes
    <2> QED BY <1>1, <1>3, <2>1, GoesKeeps DEF ProcStep, Ended
<1> QED BY <1>2, <1>3 DEF EndCopy

\* make: the copy is removed or becomes a leftover in every outcome, and only a kind
\* without a patch succeeds here.
LEMMA MakeKeeps ==
    ASSUME BuildInv, NEW j \in BuildJob, Make(j)
    PROVE  BuildInv'
<1> DEFINE mine == IF KindClass[req[j].kind] = "vrnetlab" THEN {Dest(j)} ELSE {}
<1>1. proc[j] = "make" /\ image \subseteq image'
    BY DEF Make
<1>2. \/ copied' = copied \ mine /\ leftover' = leftover \ mine
      \/ copied' = copied /\ leftover' = leftover \cup (mine \cap copied)
    BY DEF Make
<1>3. \A f : Removes(j, f) => f \in mine
    BY DEF Removes
<1> HIDE DEF mine
<1>4. copied' \ leftover' \subseteq copied \ leftover
    BY <1>2
<1>5. \A f \in copied' \ leftover' : ~Removes(j, f)
    BY <1>2, <1>3
<1>6. CASE Goes(j, "patch")
    BY <1>1, <1>4, <1>5, <1>6, GoesKeeps DEF ProcStep
<1>7. CASE Goes(j, "success") /\ ~HasPatch(j)
    BY <1>1, <1>4, <1>5, <1>7, GoesKeeps DEF ProcStep, Ended
<1>8. CASE Goes(j, "failed")
    BY <1>1, <1>4, <1>5, <1>8, GoesKeeps DEF ProcStep, Ended
<1> QED BY <1>6, <1>7, <1>8 DEF Make

\* apply.py has built the patched tag before the source tag may go.
LEMMA ApplyPatchKeeps ==
    ASSUME BuildInv, NEW j \in BuildJob, ApplyPatch(j)
    PROVE  BuildInv'
<1>1. proc[j] = "patch" /\ UNCHANGED <<copied, leftover>>
    BY DEF ApplyPatch
<1>2. \A f : ~Removes(j, f)
    BY <1>1 DEF Removes
<1>3. CASE image' = image \cup {Patched(Tag(j))} /\ Goes(j, "drop")
    BY <1>1, <1>2, <1>3, GoesKeeps DEF ProcStep
<1>4. CASE Goes(j, "failed") /\ UNCHANGED image
    BY <1>1, <1>2, <1>4, GoesKeeps DEF ProcStep, Ended
<1> QED BY <1>3, <1>4 DEF ApplyPatch

\* docker rmi of a source tag takes no patched image away, that of another job neither.
LEMMA DropTagKeeps ==
    ASSUME BuildInv, NEW j \in BuildJob, DropTag(j)
    PROVE  BuildInv'
<1>1. proc[j] = "drop" /\ Goes(j, "success") /\ UNCHANGED <<copied, leftover>>
      /\ image' \in {image, image \ {Tag(j)}}
    BY DEF DropTag
<1>2. \A f : ~Removes(j, f)
    BY <1>1 DEF Removes
<1>3. \A k \in BuildJob : Patched(Tag(k)) \in image => Patched(Tag(k)) \in image'
    BY <1>1, PatchedIsNoTag
<1>4. Patched(Tag(j)) \in image
    BY <1>1 DEF BuildInv, ImagesKept, ImageKept
<1> QED BY <1>1, <1>2, <1>3, <1>4, GoesKeeps DEF ProcStep, Ended

\* A new job takes an identifier that no job had.
LEMMA CreateJobKeeps ==
    ASSUME BuildInv, NEW j \in BuildJob, NEW k \in Kind, NEW s \in Source, CreateJob(j, k, s)
    PROVE  BuildInv'
<1>1. BuildTypeOK /\ JobsAgree /\ ImagesKept /\ CopiesOwned /\ JobAgrees(j) /\ j \notin used
    BY DEF BuildInv, JobsAgree, CreateJob
<1>2. BuildTypeOK' /\ OthersRest(j)
    BY <1>1 DEF CreateJob, BuildTypeOK, JobRequest, Status, Active, OthersRest
<1>3. /\ req'[j] = [kind |-> k, source |-> s] /\ job'[j] = "queued" /\ proc'[j] = "none" /\ j \in used'
      /\ \/ saved'[j] = "queued" /\ task'[j] = "new"
         \/ saved'[j] = "none" /\ task'[j] = "none" /\ j \in broken'
      /\ UNCHANGED <<copied, leftover, image>>
    BY <1>1 DEF CreateJob, BuildTypeOK, JobAgrees
<1>4. KindClass[k] = "vrnetlab" => s \in Upload
    BY DEF CreateJob, Accepted
<1>5. JobAgrees(j)'
    BY <1>3, <1>4 DEF JobAgrees, Active, Ended
<1>6. ImageKept(j)'
    BY <1>3 DEF ImageKept
<1>7. ImagesKept'
    BY <1>1, <1>2, <1>3, <1>6, ImagesStep
<1>8. \A f : ~Removes(j, f)
    BY <1>1 DEF JobAgrees, Removes
<1>9. CopiesOwned'
    BY <1>1, <1>2, <1>3, <1>8, CopiesStep
<1> QED BY <1>1, <1>2, <1>5, <1>7, <1>9, AgreeStep DEF BuildInv

\* clear_jobs forgets finished jobs only.
LEMMA ClearJobsKeeps ==
    ASSUME BuildInv, ClearJobs
    PROVE  BuildInv'
<1>1. BuildTypeOK /\ JobsAgree /\ ImagesKept /\ CopiesOwned
    BY DEF BuildInv
<1>2. PICK gone \in SUBSET Clearable, stuck \in SUBSET Clearable :
        /\ job' = [j \in BuildJob |-> IF j \in gone \cup stuck THEN "none" ELSE job[j]]
        /\ saved' = [j \in BuildJob |-> IF j \in gone THEN "none" ELSE saved[j]]
    BY DEF ClearJobs
<1>3. UNCHANGED <<upload, req, task, proc, broken, used, copied, leftover, image>>
    BY DEF ClearJobs
<1>4. BuildTypeOK'
    BY <1>1, <1>2, <1>3 DEF BuildTypeOK, Status
<1>5. ASSUME NEW j \in BuildJob PROVE JobAgrees(j)' /\ ImageKept(j)'
    <2>1. /\ job'[j] = job[j] \/ (job'[j] = "none" /\ job[j] \in Ended)
          /\ saved'[j] = saved[j] \/ (saved'[j] = "none" /\ job'[j] = "none")
        BY <1>2 DEF Clearable
    <2>2. JobAgrees(j)'
        BY <1>1, <1>3, <2>1 DEF JobsAgree, JobAgrees, Active, Ended
    <2>3. ImageKept(j)'
        BY <1>1, <1>3, <2>1, TagKept DEF ImagesKept, ImageKept
    <2> QED BY <2>2, <2>3
<1>6. CopiesOwned'
    <2>1. \A j \in BuildJob : \A f : Removes(j, f)' <=> Removes(j, f)
        BY <1>3, TagKept DEF Removes
    <2> QED BY <1>1, <1>3, <2>1 DEF CopiesOwned
<1> QED BY <1>4, <1>5, <1>6 DEF BuildInv, JobsAgree, ImagesKept

\* _load_jobs: every job that was queued or running is failed, and every copy that lies
\* in the directory is a leftover.
LEMMA RestartKeeps ==
    ASSUME BuildInv, Restart
    PROVE  BuildInv'
<1>1. BuildTypeOK /\ JobsAgree /\ ImagesKept /\ CopiesOwned
    BY DEF BuildInv
<1>2. /\ task' = [j \in BuildJob |-> "none"] /\ proc' = [j \in BuildJob |-> "none"]
      /\ saved' = [j \in BuildJob |-> IF saved[j] \in Active THEN "failed" ELSE saved[j]]
      /\ job' = saved' /\ broken' = {} /\ leftover' = copied /\ UNCHANGED <<req, used, copied, image>>
    BY DEF Restart, Interrupted
<1>3. upload' \in [Upload -> {"none", "torn", "stored", "gone"}]
    BY <1>1 DEF Restart, BuildTypeOK
<1>4. BuildTypeOK'
    BY <1>1, <1>2, <1>3 DEF BuildTypeOK, Status, Ended, ProcStep
<1>5. ASSUME NEW j \in BuildJob PROVE JobAgrees(j)' /\ ImageKept(j)'
    <2>1. /\ job'[j] = saved'[j] /\ saved'[j] = IF saved[j] \in Active THEN "failed" ELSE saved[j]
          /\ task'[j] = "none" /\ proc'[j] = "none" /\ req'[j] = req[j]
        BY <1>2
    <2>2. saved'[j] \in Ended \cup {"none"}
        BY <1>1, <2>1 DEF BuildTypeOK, Status, Ended
    <2>3. JobAgrees(j)'
        BY <1>1, <1>2, <2>1, <2>2 DEF JobsAgree, JobAgrees, Active, Ended
    <2>4. ImageKept(j)'
        BY <1>1, <1>2, <2>1, TagKept DEF ImagesKept, ImageKept
    <2> QED BY <2>3, <2>4
<1>6. CopiesOwned'
    BY <1>2 DEF CopiesOwned
<1> QED BY <1>4, <1>5, <1>6 DEF BuildInv, JobsAgree, ImagesKept

\* A step that leaves the jobs and the files alone keeps the invariant.
LEMMA RestKeeps ==
    ASSUME BuildInv, UNCHANGED <<req, job, saved, task, proc, broken, used, copied, leftover, image>>,
           upload' \in [Upload -> {"none", "torn", "stored", "gone"}]
    PROVE  BuildInv'
<1>1. BuildTypeOK' /\ JobsAgree'
    BY DEF BuildInv, BuildTypeOK, JobsAgree, JobAgrees
<1>2. ImagesKept'
    BY TagKept DEF BuildInv, ImagesKept, ImageKept
<1>3. CopiesOwned'
    <2>1. \A j \in BuildJob : \A f : Removes(j, f)' <=> Removes(j, f)
        BY TagKept DEF Removes
    <2> QED BY <2>1 DEF BuildInv, CopiesOwned
<1> QED BY <1>1, <1>2, <1>3 DEF BuildInv

-----------------------------------------------------------------------------
(* The invariants.                                                         *)

\* BuildInv holds at the start.
LEMMA BuildInvInit == BuildInit => BuildInv
BY DEF BuildInit, BuildInv, BuildTypeOK, JobRequest, Status, Active, Ended, ProcStep, NoRequest, NoSource, Source,
       JobsAgree, JobAgrees, ImagesKept, ImageKept, CopiesOwned

\* Every step of the service keeps BuildInv.
LEMMA BuildInvNext ==
    ASSUME BuildInv, [BuildNext]_buildVars
    PROVE  BuildInv'
<1>1. CASE UNCHANGED buildVars
    BY <1>1, RestKeeps DEF buildVars, BuildInv, BuildTypeOK
<1>2. ASSUME NEW u \in Upload, UploadImage(u) PROVE BuildInv'
    BY <1>2, RestKeeps DEF UploadImage, BuildInv, BuildTypeOK
<1>3. ASSUME NEW j \in BuildJob, NEW k \in Kind, NEW s \in Source, CreateJob(j, k, s) PROVE BuildInv'
    BY <1>3, CreateJobKeeps
<1>4. CASE ClearJobs
    BY <1>4, ClearJobsKeeps
<1>5. ASSUME NEW j \in BuildJob, RunJob(j) \/ StartProcess(j) \/ JobEnds(j) \/ JobFails(j)
      PROVE  BuildInv'
    BY <1>5, RunJobKeeps, StartProcessKeeps, JobEndsKeeps, JobFailsKeeps
<1>6. ASSUME NEW j \in BuildJob,
             \/ CheckSource(j) \/ StartCopy(j) \/ EndCopy(j)
             \/ Make(j) \/ ApplyPatch(j) \/ DropTag(j)
      PROVE  BuildInv'
    BY <1>6, CheckSourceKeeps, StartCopyKeeps, EndCopyKeeps, MakeKeeps, ApplyPatchKeeps, DropTagKeeps
<1>7. CASE Restart
    BY <1>7, RestartKeeps
<1> QED BY <1>1, <1>2, <1>3, <1>4, <1>5, <1>6, <1>7 DEF BuildNext

\* BuildInv is an invariant of the service.
LEMMA BuildInvariant == BuildSpec => []BuildInv
BY BuildInvInit, BuildInvNext, PTL DEF BuildSpec

\* A task works on an active job, and an active job nobody works on is one whose
\* write failed since the service started: whatever the process and the disk do,
\* for any number of jobs and restarts.
THEOREM ActiveJobsAreWorkedOn == BuildSpec => []ActiveIsWorkedOn
<1>1. BuildInv => ActiveIsWorkedOn
    BY DEF BuildInv, BuildTypeOK, JobsAgree, JobAgrees, ActiveIsWorkedOn, Active
<1> QED BY <1>1, BuildInvariant, PTL

\* A job of a patchable kind that reports success has its patched image in the daemon,
\* whatever other jobs have built, patched and dropped since.
THEOREM SuccessesHaveImages == BuildSpec => []SuccessHasImage
<1>1. BuildInv => SuccessHasImage
    BY DEF BuildInv, ImagesKept, ImageKept, SuccessHasImage
<1> QED BY <1>1, BuildInvariant, PTL

\* A copy in the vrnetlab directory that is no known leftover belongs to a process
\* under way, which will remove it, also when its job has failed without it.
THEOREM DirectoryStaysClean == BuildSpec => []DirectoryIsClean
<1>1. BuildInv => DirectoryIsClean
    BY DEF BuildInv, CopiesOwned, Removes, DirectoryIsClean
<1> QED BY <1>1, BuildInvariant, PTL

-----------------------------------------------------------------------------
(* The refinement.  Recorded, what the state file says of a job, takes the *)
(* place of the abstract status.                                           *)

\* A step that leaves table, state file and identifiers alone is a stutter.
LEMMA RecordedStutters == UNCHANGED <<saved, used, job>> => UNCHANGED Recorded
BY DEF Recorded

\* What is recorded of a job
RecordOf(j) ==
    IF saved[j] = "none" /\ j \in used THEN "forgotten"
    ELSE IF saved[j] = "running" /\ job[j] \notin Active THEN "unwritten" ELSE saved[j]

LEMMA RecordedIs == Recorded = [j \in BuildJob |-> RecordOf(j)]
BY DEF Recorded, RecordOf

\* After a step of job j the record of j is the only one that can have changed.
LEMMA RecordedStep ==
    ASSUME NEW j \in BuildJob, OthersRest(j)
    PROVE  Recorded' = [Recorded EXCEPT ![j] = RecordOf(j)']
<1>1. \A k \in BuildJob \ {j} : RecordOf(k)' = RecordOf(k)
    BY DEF OthersRest, RecordOf
<1>2. Recorded' = [k \in BuildJob |-> RecordOf(k)']
    BY DEF Recorded, RecordOf
<1> QED BY <1>1, <1>2, RecordedIs

\* A job that was awaited succeeds, fails, goes unrecorded, or stays as it is.
LEMMA EndsRefines ==
    ASSUME BuildInv, NEW j \in BuildJob, task[j] = "awaits",
           OthersRest(j), j \in used', job'[j] \in Ended \cup {"running"}, saved'[j] \in {job'[j], "running"}
    PROVE  Jobs!JobsNext \/ UNCHANGED Recorded
<1>1. saved[j] = "running" /\ job[j] = "running"
    BY DEF BuildInv, JobsAgree, JobAgrees
<1>2. RecordOf(j) = "running"
    BY <1>1 DEF RecordOf, Active
<1>3. Recorded' = [Recorded EXCEPT ![j] = RecordOf(j)'] /\ Recorded[j] = "running"
    BY <1>2, RecordedStep, RecordedIs
<1>4. RecordOf(j)' \in {"success", "failed", "running", "unwritten"}
    BY DEF RecordOf, Ended, Active
<1>5. CASE RecordOf(j)' = "success"
    BY <1>3, <1>5 DEF Jobs!JobsNext, Jobs!Succeed
<1>6. CASE RecordOf(j)' = "unwritten"
    BY <1>3, <1>6 DEF Jobs!JobsNext, Jobs!Lose
<1>7. CASE RecordOf(j)' = "failed"
    <2>1. Recorded' = [k \in BuildJob |-> IF k \in {j} THEN "failed" ELSE Recorded[k]]
        BY <1>3, <1>7, RecordedIs
    <2>2. Jobs!Fail({j})
        BY <1>3, <2>1 DEF Jobs!Fail, Jobs!Active
    <2> QED BY <2>2 DEF Jobs!JobsNext
<1>8. CASE RecordOf(j)' = "running"
    BY <1>2, <1>3, <1>8, RecordedIs
<1> QED BY <1>4, <1>5, <1>6, <1>7, <1>8

\* Every step of the task of a job is a step of the abstract job or a stutter.
LEMMA TaskRefines ==
    ASSUME BuildInv, NEW j \in BuildJob, RunJob(j) \/ JobEnds(j) \/ JobFails(j)
    PROVE  Jobs!JobsNext \/ UNCHANGED Recorded
<1>1. BuildTypeOK /\ JobAgrees(j)
    BY DEF BuildInv, JobsAgree
<1>2. CASE RunJob(j)
    <2>1. /\ OthersRest(j) /\ saved'[j] \in {"queued", "running"} /\ job'[j] = "running"
          /\ saved[j] = "queued"
        BY <1>1, <1>2 DEF RunJob, BuildTypeOK, OthersRest, JobAgrees
    <2>2. RecordOf(j) = "queued" /\ RecordOf(j)' = saved'[j]
        BY <2>1 DEF RecordOf, Active
    <2>3. Recorded' = [Recorded EXCEPT ![j] = saved'[j]] /\ Recorded[j] = "queued"
        BY <2>1, <2>2, RecordedStep, RecordedIs
    <2>4. CASE saved'[j] = "running"
        BY <2>3, <2>4 DEF Jobs!JobsNext, Jobs!Begin
    <2>5. CASE saved'[j] = "queued"
        BY <2>3, <2>5, RecordedIs
    <2> QED BY <2>1, <2>4, <2>5
<1>3. ASSUME NEW end \in Ended \cup {"running"}, NEW written \in BOOLEAN, Ends(j, end, written),
             task[j] = "awaits", UNCHANGED <<req, used>>,
             proc' \in [BuildJob -> ProcStep], \A k \in BuildJob \ {j} : proc'[k] = proc[k]
      PROVE  Jobs!JobsNext \/ UNCHANGED Recorded
    <2>1. OthersRest(j) /\ job'[j] = end /\ saved'[j] \in {end, saved[j]} /\ JobAgrees(j)'
        BY <1>3, EndsFrame
    <2>2. saved[j] = "running" /\ j \in used'
        BY <1>1, <1>3 DEF JobAgrees
    <2> QED BY <1>3, <2>1, <2>2, EndsRefines
<1>4. CASE JobEnds(j)
    <2>1. /\ task[j] = "awaits" /\ proc[j] \in Ended /\ UNCHANGED <<req, used>>
          /\ proc' \in [BuildJob -> ProcStep] /\ \A k \in BuildJob \ {j} : proc'[k] = proc[k]
        BY <1>1, <1>4 DEF JobEnds, BuildTypeOK, ProcStep
    <2>2. PICK written \in BOOLEAN : Ends(j, proc[j], written)
        BY <1>4 DEF JobEnds
    <2> QED BY <1>3, <2>1, <2>2
<1>5. CASE JobFails(j)
    <2>1. /\ task[j] = "awaits" /\ UNCHANGED <<req, used, proc>> /\ proc \in [BuildJob -> ProcStep]
        BY <1>1, <1>5 DEF JobFails, BuildTypeOK
    <2>2. PICK end \in {"failed", "running"}, written \in BOOLEAN : Ends(j, end, written)
        BY <1>5 DEF JobFails
    <2> QED BY <1>3, <2>1, <2>2 DEF Ended
<1> QED BY <1>2, <1>4, <1>5

\* The process never touches the record.
LEMMA ProcessStutters ==
    ASSUME NEW j, \/ StartProcess(j) \/ CheckSource(j) \/ StartCopy(j) \/ EndCopy(j)
                  \/ Make(j) \/ ApplyPatch(j) \/ DropTag(j)
    PROVE  UNCHANGED Recorded
<1>1. UNCHANGED <<saved, used, job>>
    BY DEF StartProcess, CheckSource, StartCopy, EndCopy, Make, ApplyPatch, DropTag, Goes
<1> QED BY <1>1, RecordedStutters

\* A job is accepted, or refused, under an identifier that is not known yet.
LEMMA CreateRefines ==
    ASSUME BuildInv, NEW j \in BuildJob, NEW k \in Kind, NEW s \in Source, CreateJob(j, k, s)
    PROVE  Jobs!JobsNext
<1>1. BuildTypeOK /\ JobAgrees(j) /\ j \notin used
    BY DEF BuildInv, JobsAgree, CreateJob
<1>2. /\ OthersRest(j) /\ j \in used' /\ job'[j] = "queued" /\ saved[j] = "none"
      /\ saved'[j] \in {"queued", "none"}
    BY <1>1 DEF CreateJob, BuildTypeOK, JobAgrees, OthersRest
<1>3. RecordOf(j) = "none" /\ RecordOf(j)' \in {"queued", "forgotten"}
    BY <1>1, <1>2 DEF RecordOf, Active
<1>4. Recorded' = [Recorded EXCEPT ![j] = RecordOf(j)'] /\ Recorded[j] = "none"
    BY <1>2, <1>3, RecordedStep, RecordedIs
<1> QED BY <1>3, <1>4 DEF Jobs!JobsNext, Jobs!Accept, Jobs!Refuse

\* Clearing forgets jobs that have ended; one whose file stays is as it was on record.
LEMMA ClearRefines ==
    ASSUME BuildInv, ClearJobs
    PROVE  Jobs!JobsNext
<1>1. PICK gone \in SUBSET Clearable, stuck \in SUBSET Clearable :
        /\ job' = [j \in BuildJob |-> IF j \in gone \cup stuck THEN "none" ELSE job[j]]
        /\ saved' = [j \in BuildJob |-> IF j \in gone THEN "none" ELSE saved[j]]
    BY DEF ClearJobs
<1>2. UNCHANGED used
    BY DEF ClearJobs
<1>3. ASSUME NEW j \in BuildJob
      PROVE  /\ j \in gone => /\ RecordOf(j)' = "forgotten"
                              /\ RecordOf(j) \in {"success", "failed", "unwritten"}
             /\ j \notin gone => RecordOf(j)' = RecordOf(j)
    <2>1. JobAgrees(j)
        BY DEF BuildInv, JobsAgree
    <2>2. CASE j \in gone
        <3>1. job[j] \in Ended /\ saved'[j] = "none" /\ j \in used' /\ saved[j] \in {job[j], "running"}
            BY <1>1, <1>2, <2>1, <2>2 DEF Clearable, JobAgrees, Ended
        <3> QED BY <2>2, <3>1 DEF RecordOf, Ended, Active
    <2>3. CASE j \notin gone
        <3>1. saved'[j] = saved[j] /\ (job'[j] = job[j] \/ (job[j] \in Ended /\ job'[j] = "none"))
            BY <1>1, <2>3 DEF Clearable
        <3> QED BY <1>2, <2>3, <3>1 DEF RecordOf, Ended, Active
    <2> QED BY <2>2, <2>3
<1>4. gone \in SUBSET BuildJob
    BY DEF Clearable
<1>5. Recorded' = [j \in BuildJob |-> IF j \in gone THEN "forgotten" ELSE Recorded[j]]
    <2>1. Recorded' = [j \in BuildJob |-> RecordOf(j)']
        BY DEF Recorded, RecordOf
    <2> QED BY <1>3, <2>1, RecordedIs
<1>6. \A j \in gone : Recorded[j] \in {"success", "failed", "unwritten"}
    BY <1>3, <1>4, RecordedIs
<1>7. Jobs!Forget(gone)
    BY <1>5, <1>6 DEF Jobs!Forget, Jobs!Final
<1> QED BY <1>4, <1>7 DEF Jobs!JobsNext

\* A restart fails every job that was accepted and has no outcome on record.
LEMMA RestartRefines ==
    ASSUME BuildInv, Restart
    PROVE  Jobs!JobsNext
<1>1. Interrupted \in SUBSET BuildJob
    BY DEF Interrupted
<1>2. /\ saved' = [j \in BuildJob |-> IF j \in Interrupted THEN "failed" ELSE saved[j]]
      /\ job' = saved' /\ used' = used
    BY DEF Restart
<1>3. ASSUME NEW j \in BuildJob
      PROVE  /\ j \in Interrupted => /\ RecordOf(j)' = "failed"
                                     /\ RecordOf(j) \in {"queued", "running", "unwritten"}
             /\ j \notin Interrupted => RecordOf(j)' = RecordOf(j)
    BY <1>2 DEF Interrupted, RecordOf, Active
<1>4. Recorded' = [j \in BuildJob |-> IF j \in Interrupted THEN "failed" ELSE Recorded[j]]
    <2>1. Recorded' = [j \in BuildJob |-> RecordOf(j)']
        BY DEF Recorded, RecordOf
    <2> QED BY <1>3, <2>1, RecordedIs
<1>5. \A j \in Interrupted : Recorded[j] \in {"queued", "running", "unwritten"}
    BY <1>1, <1>3, RecordedIs
<1>6. Jobs!Fail(Interrupted)
    BY <1>4, <1>5 DEF Jobs!Fail, Jobs!Active
<1> QED BY <1>1, <1>6 DEF Jobs!JobsNext

\* The image build service implements BuildJobs: a job is accepted once, an outcome on
\* record stands until the job is cleared, and neither a restart nor a late task changes
\* or revives it, also when writes of the service fail.
THEOREM ServiceImplementsJobs == BuildSpec => BuildsImplementJobs
<1>1. BuildInit => Jobs!JobsInit
    BY DEF BuildInit, Jobs!JobsInit, Recorded
<1>2. ASSUME BuildInv, [BuildNext]_buildVars
      PROVE  [Jobs!JobsNext]_Recorded
    <2>1. CASE UNCHANGED buildVars
        BY <2>1, RecordedStutters DEF buildVars
    <2>2. ASSUME NEW u \in Upload, UploadImage(u) PROVE UNCHANGED Recorded
        BY <2>2, RecordedStutters DEF UploadImage
    <2>3. ASSUME NEW j \in BuildJob, NEW k \in Kind, NEW s \in Source, CreateJob(j, k, s)
          PROVE  Jobs!JobsNext
        BY <1>2, <2>3, CreateRefines
    <2>4. CASE ClearJobs
        BY <1>2, <2>4, ClearRefines
    <2>5. ASSUME NEW j \in BuildJob, RunJob(j) \/ JobEnds(j) \/ JobFails(j)
          PROVE  Jobs!JobsNext \/ UNCHANGED Recorded
        BY <1>2, <2>5, TaskRefines
    <2>6. ASSUME NEW j \in BuildJob,
                 \/ StartProcess(j) \/ CheckSource(j) \/ StartCopy(j) \/ EndCopy(j)
                 \/ Make(j) \/ ApplyPatch(j) \/ DropTag(j)
          PROVE  UNCHANGED Recorded
        BY <2>6, ProcessStutters
    <2>7. CASE Restart
        BY <1>2, <2>7, RestartRefines
    <2> QED BY <1>2, <2>1, <2>2, <2>3, <2>4, <2>5, <2>6, <2>7 DEF BuildNext
<1> QED BY <1>1, <1>2, BuildInvariant, PTL DEF BuildSpec, BuildsImplementJobs, Jobs!JobsSpec

-----------------------------------------------------------------------------
(* Image synchronisation *)

Snapshot == UNION {[D -> Version \cup {"none"}] : D \in SUBSET Image}

PassRecord == [pc : {"idle", "list", "works", "over"},
               kind : {"none", "all", "one", "topology"},
               snap : Snapshot, push : SUBSET Image, drop : SUBSET Image]

SyncTypeOK ==
    /\ master \in [Image -> Version \cup {"none"}]
    /\ daemon \in {"probe", "pass", "wait", "coalesce", "stopped"}
    /\ pass \in [AllPass -> PassRecord]

\* What a pass reads is a snapshot.
LEMMA FilteredIsSnapshot ==
    ASSUME SyncTypeOK, NEW names
    PROVE  Filtered(names) \in Snapshot
<1>1. Present(master) \cap names \in SUBSET Image
  BY DEF Present
<1>2. Filtered(names) \in [Present(master) \cap names -> Version \cup {"none"}]
  BY <1>1 DEF Filtered, SyncTypeOK
<1> QED
  BY <1>1, <1>2 DEF Snapshot

LEMMA NoPassIsRecord == NoPass \in PassRecord
<1> DEFINE none == [i \in {} |-> "none"]
<1>1. none \in [{} -> Version \cup {"none"}] /\ {} \in SUBSET Image
  OBVIOUS
<1>2. none \in Snapshot
  BY <1>1 DEF Snapshot
<1>3. NoPass = [pc |-> "idle", kind |-> "none", snap |-> none, push |-> {}, drop |-> {}]
  BY DEF NoPass
<1> HIDE DEF none
<1> QED
  BY <1>2, <1>3 DEF PassRecord

\* A pass that begins touches no other one, and has read the images of the master.
LEMMA BeginsReads ==
    ASSUME SyncTypeOK, NEW p \in AllPass, NEW kind \in {"all", "one", "topology"}, NEW names,
           Begins(p, kind, names)
    PROVE  /\ pass' \in [AllPass -> PassRecord]
           /\ pass'[p].snap = Filtered(names)
           /\ p # Daemon => pass'[Daemon] = pass[Daemon]
<1>1. Filtered(names) \in Snapshot
  BY FilteredIsSnapshot
<1> DEFINE r == [NoPass EXCEPT !.pc = "list", !.kind = kind, !.snap = Filtered(names)]
<1>2. NoPass \in PassRecord
  BY NoPassIsRecord
<1>3. r \in PassRecord /\ r.snap = Filtered(names)
  BY <1>1, <1>2 DEF PassRecord
<1>4. pass' = [pass EXCEPT ![p] = r]
  BY DEF Begins
<1> HIDE DEF r
<1> QED
  BY <1>3, <1>4 DEF SyncTypeOK, AllPass

\* A change of the fields of a pass other than its snapshot.
LEMMA PassUpdated ==
    ASSUME SyncTypeOK, NEW p \in AllPass, NEW r \in PassRecord, r.snap = pass[p].snap,
           pass' = [pass EXCEPT ![p] = r]
    PROVE  pass' \in [AllPass -> PassRecord] /\ pass'[Daemon].snap = pass[Daemon].snap
BY DEF SyncTypeOK, AllPass

SyncInv == SyncTypeOK /\ ChangeIsNoticed

LEMMA SyncInitOK == SyncInit => SyncInv
<1> SUFFICES ASSUME SyncInit PROVE SyncInv
  OBVIOUS
<1>1. \E v \in Version : TRUE
  BY SyncAssumption
<1>2. (CHOOSE v \in Version : TRUE) \in Version
  BY <1>1
<1>3. SyncTypeOK
  BY <1>2, NoPassIsRecord DEF SyncInit, SyncTypeOK
<1> QED
  BY <1>3 DEF SyncInit, SyncInv, ChangeIsNoticed

\* The daemon's snapshot is only ever replaced by a fresh one, and a change of the master
\* while the events are listened to puts an event on its way.
LEMMA SyncStep == SyncInv /\ [SyncNext]_syncVars => SyncInv'
<1> SUFFICES ASSUME SyncInv, [SyncNext]_syncVars PROVE SyncInv'
  OBVIOUS
<1> USE DEF SyncInv
<1>0. Daemon \in AllPass /\ Pass \subseteq AllPass /\ Daemon \notin Pass
  BY SyncAssumption DEF AllPass, Daemon
<1>k. ASSUME pass' \in [AllPass -> PassRecord], pass'[Daemon].snap = pass[Daemon].snap,
             UNCHANGED <<master, event, left>>, trigger' = trigger,
             \/ daemon' = daemon
             \/ daemon = "pass" /\ daemon' = "wait"
      PROVE  SyncInv'
  <2>1. SyncTypeOK'
    BY <1>k DEF SyncTypeOK
  <2>2. (Filtered(Selected))' = Filtered(Selected)
    BY <1>k DEF Filtered, Present
  <2>3. ChangeIsNoticed'
    BY <1>k, <2>2 DEF ChangeIsNoticed
  <2> QED BY <2>1, <2>3
<1>1. ASSUME NEW p \in Pass, StartPass(p) PROVE SyncInv'
  <2>1. pass' \in [AllPass -> PassRecord] /\ pass'[Daemon] = pass[Daemon]
    <3>1. PICK kind \in {"all", "one", "topology"}, names \in {Selected} \cup {{i} : i \in Image} :
             Begins(p, kind, names)
      BY <1>1 DEF StartPass
    <3> QED BY <3>1, <1>0, BeginsReads
  <2> QED BY <2>1, <1>k, <1>1 DEF StartPass
<1>2. ASSUME NEW p \in Pass, SyncTopology(p) PROVE SyncInv'
  <2>1. PICK wanted \in SUBSET Image : Begins(p, "topology", wanted)
    BY <1>2 DEF SyncTopology
  <2>2. pass' \in [AllPass -> PassRecord] /\ pass'[Daemon] = pass[Daemon]
    BY <2>1, <1>0, BeginsReads
  <2> QED BY <2>2, <1>k, <1>2 DEF SyncTopology
<1>3. ASSUME NEW p \in AllPass, ListWorker(p) PROVE SyncInv'
  <2>0. pass[p] \in PassRecord
    BY DEF SyncTypeOK
  <2>1. CASE pass' = [pass EXCEPT ![p].pc = "over"]
    <3>1. [pass[p] EXCEPT !.pc = "over"] \in PassRecord
          /\ [pass[p] EXCEPT !.pc = "over"].snap = pass[p].snap
      BY <2>0 DEF PassRecord
    <3>2. pass' = [pass EXCEPT ![p] = [pass[p] EXCEPT !.pc = "over"]]
      BY <2>1
    <3>3. pass' \in [AllPass -> PassRecord] /\ pass'[Daemon].snap = pass[Daemon].snap
      BY <3>1, <3>2, PassUpdated
    <3> QED BY <3>3, <1>k, <1>3 DEF ListWorker
  <2>2. ASSUME NEW extra \in BOOLEAN,
               pass' = [pass EXCEPT ![p] = [@ EXCEPT !.pc = "works",
                       !.push = IF pass[p].kind = "topology"
                                THEN DOMAIN pass[p].snap \ Present(worker) ELSE ToPush(pass[p].snap),
                       !.drop = IF extra THEN ToRemove(pass[p].snap) ELSE {}]]
        PROVE SyncInv'
    <3> DEFINE push == IF pass[p].kind = "topology"
                       THEN DOMAIN pass[p].snap \ Present(worker) ELSE ToPush(pass[p].snap)
               drop == IF extra THEN ToRemove(pass[p].snap) ELSE {}
               r == [pass[p] EXCEPT !.pc = "works", !.push = push, !.drop = drop]
    <3>1. DOMAIN pass[p].snap \subseteq Image
      <4>1. pass[p].snap \in Snapshot
        BY <2>0 DEF PassRecord
      <4> QED BY <4>1 DEF Snapshot
    <3>2. push \in SUBSET Image /\ drop \in SUBSET Image
      BY <3>1 DEF ToPush, ToRemove, Present
    <3>3. pass' = [pass EXCEPT ![p] = r]
      BY <2>2
    <3> HIDE DEF push, drop
    <3>4. r \in PassRecord /\ r.snap = pass[p].snap
      BY <2>0, <3>2 DEF PassRecord
    <3> HIDE DEF r
    <3>5. pass' \in [AllPass -> PassRecord] /\ pass'[Daemon].snap = pass[Daemon].snap
      BY <3>3, <3>4, PassUpdated
    <3> QED BY <3>5, <1>k, <1>3 DEF ListWorker
  <2> QED BY <2>1, <2>2, <1>3 DEF ListWorker
<1>4. ASSUME NEW p \in AllPass, EndPass(p) PROVE SyncInv'
  <2>0. pass[p] \in PassRecord
    BY DEF SyncTypeOK
  <2> DEFINE r == [pass[p] EXCEPT !.pc = "idle", !.kind = "none"]
  <2>1. r \in PassRecord /\ r.snap = pass[p].snap
    BY <2>0 DEF PassRecord
  <2>2. pass' = [pass EXCEPT ![p] = r]
    BY <1>4, <2>0 DEF EndPass, SyncTypeOK, PassRecord
  <2> HIDE DEF r
  <2>3. pass' \in [AllPass -> PassRecord] /\ pass'[Daemon].snap = pass[Daemon].snap
    BY <2>1, <2>2, PassUpdated
  <2> QED BY <2>3, <1>k, <1>4 DEF EndPass
<1>5. ASSUME NEW p \in AllPass, NEW i \in Image, Push(p, i) PROVE SyncInv'
  <2>0. pass[p] \in PassRecord
    BY DEF SyncTypeOK
  <2> DEFINE r == [pass[p] EXCEPT !.push = pass[p].push \ {i}]
  <2>1. r \in PassRecord /\ r.snap = pass[p].snap
    BY <2>0 DEF PassRecord
  <2>2. pass' = [pass EXCEPT ![p] = r]
    BY <1>5 DEF Push
  <2> HIDE DEF r
  <2>3. pass' \in [AllPass -> PassRecord] /\ pass'[Daemon].snap = pass[Daemon].snap
    BY <2>1, <2>2, PassUpdated
  <2> QED BY <2>3, <1>k, <1>5 DEF Push
<1>6. ASSUME NEW p \in AllPass, NEW i \in Image, RemoveExtra(p, i) PROVE SyncInv'
  <2>0. pass[p] \in PassRecord
    BY DEF SyncTypeOK
  <2> DEFINE r == [pass[p] EXCEPT !.drop = pass[p].drop \ {i}]
  <2>1. r \in PassRecord /\ r.snap = pass[p].snap
    BY <2>0 DEF PassRecord
  <2>2. pass' = [pass EXCEPT ![p] = r]
    BY <1>6 DEF RemoveExtra
  <2> HIDE DEF r
  <2>3. pass' \in [AllPass -> PassRecord] /\ pass'[Daemon].snap = pass[Daemon].snap
    BY <2>1, <2>2, PassUpdated
  <2> QED BY <2>3, <1>k, <1>6 DEF RemoveExtra
<1>7. CASE Listen
  BY <1>7, <1>k DEF Listen, SyncTypeOK
<1>8. CASE EventArrives \/ TriggerReconcile
  <2>1. SyncTypeOK' /\ trigger'
    BY <1>8 DEF EventArrives, TriggerReconcile, SyncTypeOK
  <2> QED BY <2>1 DEF ChangeIsNoticed
<1>9. CASE Wake \/ Clear
  <2>1. SyncTypeOK' /\ daemon' \in {"coalesce", "probe"}
    BY <1>9 DEF Wake, Clear, SyncTypeOK
  <2> QED BY <2>1 DEF ChangeIsNoticed
<1>10. CASE ReadMaster
  <2>1. CASE daemon' = "pass" /\ left' = FALSE /\ Begins(Daemon, "all", Selected)
    <3>1. pass' \in [AllPass -> PassRecord] /\ pass'[Daemon].snap = Filtered(Selected)
      BY <2>1, <1>0, BeginsReads
    <3>2. SyncTypeOK'
      BY <2>1, <3>1, <1>10 DEF ReadMaster, SyncTypeOK
    <3>3. (Filtered(Selected))' = Filtered(Selected)
      BY <1>10 DEF ReadMaster, Filtered, Present
    <3> QED BY <3>1, <3>2, <3>3 DEF ChangeIsNoticed
  <2>2. CASE daemon' = "wait" /\ left' = TRUE /\ UNCHANGED pass
    BY <2>2, <1>10 DEF ReadMaster, SyncTypeOK, ChangeIsNoticed
  <2> QED BY <2>1, <2>2, <1>10 DEF ReadMaster
<1>11. CASE StopDaemon
  BY <1>11 DEF StopDaemon, SyncTypeOK, ChangeIsNoticed
<1>12. ASSUME NEW i \in Image, MasterChanges(i) PROVE SyncInv'
  <2>1. SyncTypeOK'
    BY <1>12 DEF MasterChanges, SyncTypeOK
  <2>2. event' \/ left'
    BY <1>12 DEF MasterChanges
  <2> QED BY <2>1, <2>2 DEF ChangeIsNoticed
<1>13. CASE UNCHANGED syncVars
  BY <1>13, <1>k DEF syncVars, SyncTypeOK
<1> QED
  BY <1>1, <1>2, <1>3, <1>4, <1>5, <1>6, <1>7, <1>8, <1>9, <1>10, <1>11, <1>12, <1>13 DEF SyncNext

\* No change of the images of the master is lost between two passes of the daemon,
\* whatever passes of the command line run beside it: _trigger is cleared before the
\* images are read, so what the last pass read is out of date only while the trigger is
\* set or an event is on its way, or where the change is left to the interval.
THEOREM ChangesAreNoticed == SyncSpec => []ChangeIsNoticed
<1>1. SyncInv => ChangeIsNoticed
  BY DEF SyncInv
<1> QED
  BY <1>1, SyncInitOK, SyncStep, PTL DEF SyncSpec

-----------------------------------------------------------------------------
(* Ranks: how many elements of a finite set come before one of them *)

Before(S, key, x) == {z \in S : key[z] < key[x]}

\* A rank is less than the size of the set, and grows with the key.
LEMMA RankBounded ==
    ASSUME NEW S, IsFiniteSet(S), NEW key \in [S -> Nat], NEW x \in S
    PROVE  /\ IsFiniteSet(Before(S, key, x))
           /\ Cardinality(Before(S, key, x)) \in Nat
           /\ Cardinality(Before(S, key, x)) < Cardinality(S)
<1>1. Before(S, key, x) \in SUBSET S /\ x \notin Before(S, key, x)
  BY DEF Before
<1>2. Before(S, key, x) # S
  BY <1>1
<1>3. IsFiniteSet(Before(S, key, x)) /\ Cardinality(Before(S, key, x)) <= Cardinality(S)
      /\ Cardinality(Before(S, key, x)) # Cardinality(S)
  BY <1>1, <1>2, FS_Subset
<1>4. Cardinality(Before(S, key, x)) \in Nat /\ Cardinality(S) \in Nat
  BY <1>3, FS_CardinalityType
<1> QED
  BY <1>3, <1>4

LEMMA RankGrows ==
    ASSUME NEW S, IsFiniteSet(S), NEW key \in [S -> Nat], NEW x \in S, NEW y \in S, key[x] < key[y]
    PROVE  Cardinality(Before(S, key, x)) # Cardinality(Before(S, key, y))
<1>1. Before(S, key, x) \in SUBSET Before(S, key, y)
  BY DEF Before
<1>2. x \in Before(S, key, y) /\ x \notin Before(S, key, x)
  BY DEF Before
<1>3. IsFiniteSet(Before(S, key, y))
  BY RankBounded
<1>4. Before(S, key, x) # Before(S, key, y)
  BY <1>2
<1> QED
  BY <1>1, <1>3, <1>4, FS_Subset

LEMMA RankDistinct ==
    ASSUME NEW S, IsFiniteSet(S), NEW key \in [S -> Nat], NEW x \in S, NEW y \in S, key[x] # key[y]
    PROVE  Cardinality(Before(S, key, x)) # Cardinality(Before(S, key, y))
<1>1. key[x] < key[y] \/ key[y] < key[x]
  OBVIOUS
<1>2. CASE key[x] < key[y]
  BY <1>2, RankGrows
<1>3. CASE key[y] < key[x]
  BY <1>3, RankGrows
<1> QED
  BY <1>1, <1>2, <1>3

\* When the keys differ, every number below the size of the set is the rank of an element.
LEMMA RankReached ==
    ASSUME NEW S, IsFiniteSet(S), NEW key \in [S -> Nat],
           \A x, y \in S : x # y => key[x] # key[y],
           NEW k \in Nat, k < Cardinality(S)
    PROVE  \E x \in S : Cardinality(Before(S, key, x)) = k
<1> DEFINE T == 0..(Cardinality(S) - 1)
           rank == [x \in S |-> Cardinality(Before(S, key, x))]
<1>0. Cardinality(S) \in Nat
  BY FS_CardinalityType
<1>1. rank \in [S -> T]
  <2>1. ASSUME NEW x \in S PROVE Cardinality(Before(S, key, x)) \in T
    BY <1>0, RankBounded
  <2> QED BY <2>1
<1>2. \A x, y \in S : rank[x] = rank[y] => x = y
  <2>1. ASSUME NEW x \in S, NEW y \in S, x # y PROVE rank[x] # rank[y]
    BY <2>1, RankDistinct
  <2> QED BY <2>1
<1>3. IsFiniteSet(T) /\ Cardinality(T) = Cardinality(S)
  <2> DEFINE c == Cardinality(S) - 1
  <2>1. 0 \in Int /\ c \in Int
    BY <1>0
  <2> HIDE DEF c
  <2>2. IsFiniteSet(0..c) /\ Cardinality(0..c) = IF 0 > c THEN 0 ELSE c - 0 + 1
    BY <2>1, FS_Interval
  <2> QED BY <1>0, <2>2 DEF c
<1>4. k \in T
  BY <1>0
<1>5. \A x \in S : rank[x] = Cardinality(Before(S, key, x))
  OBVIOUS
<1> HIDE DEF rank, T
<1>6. rank \in Injection(S, T)
  BY <1>1, <1>2 DEF Injection, IsInjective
<1>7. rank \in Surjection(S, T)
  BY <1>3, <1>6, FS_Injection
<1> QED
  BY <1>4, <1>5, <1>7 DEF Surjection

-----------------------------------------------------------------------------
(* Management addresses *)

AddrInv ==
    /\ topoVds \subseteq AddrVd /\ IsFiniteSet(topoVds)
    /\ \A n \in DOMAIN reserved : reserved[n] \notin Infra(reserved[n][1])
    /\ \A n, m \in DOMAIN reserved : n # m => reserved[n] # reserved[m]

\* The free addresses of a subnet are finitely many, told apart by their offsets.
LEMMA FreeIsFinite ==
    ASSUME NEW s
    PROVE  /\ IsFiniteSet(FreeAddresses(s))
           /\ \A a \in FreeAddresses(s) : a = <<s, a[2]>> /\ a[1] = s /\ a[2] \in Nat /\ a \notin Used(s)
<1>1. NetSize \in Nat
  BY AddressAssumption
<1>2. IsFiniteSet(1..(NetSize - 2))
  <2>1. 1 \in Int /\ NetSize - 2 \in Int
    BY <1>1
  <2> QED BY <2>1, FS_Interval
<1> DEFINE K == 1..(NetSize - 2)
           f == [k \in K |-> <<s, k>>]
<1>3. f \in Surjection(K, HostsOf(s))
  BY DEF Surjection, HostsOf
<1>4. IsFiniteSet(HostsOf(s))
  <2> HIDE DEF f, K
  <2>1. IsFiniteSet(K)
    BY <1>2 DEF K
  <2> QED BY <1>3, <2>1, FS_Surjection
<1>5. FreeAddresses(s) \in SUBSET HostsOf(s)
  BY DEF FreeAddresses
<1>6. IsFiniteSet(FreeAddresses(s))
  BY <1>4, <1>5, FS_Subset
<1>7. ASSUME NEW a \in FreeAddresses(s)
      PROVE  a = <<s, a[2]>> /\ a[1] = s /\ a[2] \in Nat /\ a \notin Used(s)
  <2>1. PICK k \in 1..(NetSize - 2) : a = <<s, k>>
    BY <1>5 DEF HostsOf
  <2>2. k \in Nat
    BY <1>1, <2>1
  <2> QED BY <2>1, <2>2 DEF FreeAddresses
<1> QED
  BY <1>6, <1>7

LEMMA UnplacedIsFinite ==
    ASSUME AddrInv, NEW s
    PROVE  IsFiniteSet(Unplaced(s)) /\ Unplaced(s) \subseteq Nat
<1>1. Unplaced(s) \in SUBSET topoVds
  BY DEF Unplaced
<1>2. topoVds \subseteq Nat
  BY AddressAssumption DEF AddrInv
<1> QED
  BY <1>1, <1>2, FS_Subset DEF AddrInv

\* The n-th VD without an address takes the n-th free one: there is one, and no other VD
\* takes it.
LEMMA NextFreeIsFree ==
    ASSUME AddrInv, NEW s, Assignable(s), NEW n \in Unplaced(s)
    PROVE  /\ NextFree(s, n) \in FreeAddresses(s)
           /\ Cardinality({b \in FreeAddresses(s) : b[2] < NextFree(s, n)[2]})
                = Cardinality({m \in Unplaced(s) : m < n})
<1> DEFINE F == FreeAddresses(s)
           U == Unplaced(s)
           off == [a \in F |-> a[2]]
           id == [m \in U |-> m]
<1>1. IsFiniteSet(F) /\ off \in [F -> Nat] /\ \A x, y \in F : x # y => off[x] # off[y]
  BY FreeIsFinite
<1>2. IsFiniteSet(U) /\ id \in [U -> Nat]
  BY UnplacedIsFinite
<1>3. Before(U, id, n) = {m \in U : m < n}
  BY DEF Before
<1>4. \A a \in F : Before(F, off, a) = {b \in F : b[2] < a[2]}
  BY DEF Before
<1>5. Cardinality(U) <= Cardinality(F)
  BY DEF Assignable
<1> HIDE DEF F, U, off, id
<1>6. n \in U
  BY DEF U
<1> DEFINE k == Cardinality(Before(U, id, n))
<1>7. k \in Nat /\ k < Cardinality(U)
  BY <1>2, <1>6, RankBounded
<1>8. Cardinality(U) \in Nat /\ Cardinality(F) \in Nat
  BY <1>1, <1>2, FS_CardinalityType
<1> HIDE DEF k
<1>9. k < Cardinality(F)
  BY <1>5, <1>7, <1>8
<1>10. \E a \in F : Cardinality(Before(F, off, a)) = k
  BY <1>1, <1>7, <1>9, RankReached
<1>11. \E a \in F : Cardinality({b \in F : b[2] < a[2]}) = Cardinality({m \in U : m < n})
  BY <1>3, <1>4, <1>10 DEF k
<1> QED
  BY <1>11 DEF NextFree, F, U

LEMMA NextFreeDistinct ==
    ASSUME AddrInv, NEW s, Assignable(s), NEW n \in Unplaced(s), NEW m \in Unplaced(s), n # m
    PROVE  NextFree(s, n) # NextFree(s, m)
<1> DEFINE U == Unplaced(s)
           id == [x \in U |-> x]
<1>1. IsFiniteSet(U) /\ id \in [U -> Nat] /\ id[n] # id[m]
  BY UnplacedIsFinite
<1>2. Before(U, id, n) = {x \in U : x < n} /\ Before(U, id, m) = {x \in U : x < m}
  BY DEF Before
<1>3. n \in U /\ m \in U
  OBVIOUS
<1> HIDE DEF id, U
<1>4. Cardinality({x \in U : x < n}) # Cardinality({x \in U : x < m})
  BY <1>1, <1>2, <1>3, RankDistinct
<1> QED
  BY <1>4, NextFreeIsFree DEF U

\* What is kept or asked for: used, within the subnet, off the infrastructure, not shared.
LEMMA ClaimedIsSound ==
    ASSUME AddrInv, NEW s, Assignable(s)
    PROVE  /\ \A n \in DOMAIN Claimed(s) :
                 /\ Claimed(s)[n] \in Used(s)
                 /\ Claimed(s)[n][1] = s
                 /\ Claimed(s)[n] \notin Infra(s)
           /\ \A n, m \in DOMAIN Claimed(s) : n # m => Claimed(s)[n] # Claimed(s)[m]
<1>1. /\ DOMAIN Sticky(s) = {n \in DOMAIN reserved : reserved[n][1] = s /\ reserved[n] \notin Infra(s)}
      /\ \A n \in DOMAIN Sticky(s) : Sticky(s)[n] = reserved[n]
  BY DEF Sticky, Restrict
<1>2. \A n \in DOMAIN Claimed(s) :
        /\ ~Ousted(s, n)
        /\ \/ n \in DOMAIN wish /\ Claimed(s)[n] = wish[n]
           \/ n \notin DOMAIN wish /\ n \in DOMAIN Sticky(s) /\ Claimed(s)[n] = Sticky(s)[n]
  BY DEF Claimed
<1>3. ASSUME NEW n \in DOMAIN Claimed(s)
      PROVE  Claimed(s)[n] \in Used(s) /\ Claimed(s)[n][1] = s /\ Claimed(s)[n] \notin Infra(s)
  <2>1. CASE n \in DOMAIN wish /\ Claimed(s)[n] = wish[n]
    BY <2>1 DEF Assignable, Used, Range
  <2>2. CASE n \in DOMAIN Sticky(s) /\ Claimed(s)[n] = Sticky(s)[n]
    BY <2>2, <1>1 DEF Used, Range
  <2> QED BY <1>2, <2>1, <2>2
<1>4. ASSUME NEW n \in DOMAIN Claimed(s), NEW m \in DOMAIN Claimed(s), n # m,
             n \in DOMAIN wish, m \notin DOMAIN wish
      PROVE  Claimed(s)[n] # Claimed(s)[m]
  <2>1. ~Ousted(s, m) /\ m \in DOMAIN Sticky(s) /\ Claimed(s)[m] = Sticky(s)[m]
        /\ Claimed(s)[n] = wish[n]
    BY <1>2, <1>4
  <2>2. wish[n] # Sticky(s)[m]
    BY <1>4, <2>1 DEF Ousted
  <2> QED BY <2>1, <2>2
<1>5. ASSUME NEW n \in DOMAIN Claimed(s), NEW m \in DOMAIN Claimed(s), n # m
      PROVE  Claimed(s)[n] # Claimed(s)[m]
  <2>1. CASE n \in DOMAIN wish /\ m \in DOMAIN wish
    BY <1>2, <1>5, <2>1 DEF Assignable
  <2>2. CASE n \in DOMAIN wish /\ m \notin DOMAIN wish
    BY <1>4, <1>5, <2>2
  <2>3. CASE n \notin DOMAIN wish /\ m \in DOMAIN wish
    BY <1>4, <1>5, <2>3
  <2>4. CASE n \notin DOMAIN wish /\ m \notin DOMAIN wish
    BY <1>1, <1>2, <1>5, <2>4 DEF AddrInv
  <2> QED BY <2>1, <2>2, <2>3, <2>4
<1> QED
  BY <1>3, <1>5

\* assign_sticky_mgmt_ipv4 gives no two VDs one address, and none of the infrastructure.
LEMMA AssignedIsSound ==
    ASSUME AddrInv, NEW s, Assignable(s)
    PROVE  /\ \A n \in DOMAIN Assigned(s) : Assigned(s)[n] \notin Infra(Assigned(s)[n][1])
           /\ \A n, m \in DOMAIN Assigned(s) : n # m => Assigned(s)[n] # Assigned(s)[m]
<1>1. \A n \in DOMAIN Assigned(s) :
        \/ n \in Unplaced(s) /\ Assigned(s)[n] = NextFree(s, n)
        \/ n \notin Unplaced(s) /\ n \in DOMAIN Claimed(s) /\ Assigned(s)[n] = Claimed(s)[n]
  BY DEF Assigned
<1>2. \A n \in Unplaced(s) : /\ NextFree(s, n) \in FreeAddresses(s)
                             /\ NextFree(s, n)[1] = s
                             /\ NextFree(s, n) \notin Used(s)
  BY NextFreeIsFree, FreeIsFinite
<1>3. Infra(s) \subseteq Used(s)
  BY DEF Used
<1>4. ASSUME NEW n \in DOMAIN Assigned(s) PROVE Assigned(s)[n] \notin Infra(Assigned(s)[n][1])
  <2>1. CASE n \in Unplaced(s) /\ Assigned(s)[n] = NextFree(s, n)
    BY <1>2, <1>3, <2>1
  <2>2. CASE n \in DOMAIN Claimed(s) /\ Assigned(s)[n] = Claimed(s)[n]
    BY <2>2, ClaimedIsSound
  <2> QED BY <1>1, <2>1, <2>2
<1>5. ASSUME NEW n \in DOMAIN Assigned(s), NEW m \in DOMAIN Assigned(s), n # m
      PROVE  Assigned(s)[n] # Assigned(s)[m]
  <2>1. CASE n \in Unplaced(s) /\ m \in Unplaced(s)
    BY <1>1, <1>5, <2>1, NextFreeDistinct
  <2>2. CASE n \in Unplaced(s) /\ m \notin Unplaced(s)
    BY <1>1, <1>2, <2>2, ClaimedIsSound
  <2>3. CASE n \notin Unplaced(s) /\ m \in Unplaced(s)
    BY <1>1, <1>2, <2>3, ClaimedIsSound
  <2>4. CASE n \notin Unplaced(s) /\ m \notin Unplaced(s)
    BY <1>1, <1>5, <2>4, ClaimedIsSound
  <2> QED BY <2>1, <2>2, <2>3, <2>4
<1> QED
  BY <1>4, <1>5

\* What lies in the subnet and nobody contests is kept.
LEMMA UncontestedStays ==
    ASSUME AddrInv, NEW s, NEW n \in DOMAIN reserved, reserved[n][1] = s,
           n \notin DOMAIN wish, reserved[n] \notin Range(wish)
    PROVE  n \in DOMAIN Assigned(s) /\ Assigned(s)[n] = reserved[n]
<1>1. n \in DOMAIN Sticky(s) /\ Sticky(s)[n] = reserved[n]
  BY DEF Sticky, Restrict, AddrInv
<1>2. ~Ousted(s, n)
  BY <1>1 DEF Ousted, Range
<1>3. n \in DOMAIN Claimed(s) /\ Claimed(s)[n] = reserved[n]
  BY <1>1, <1>2 DEF Claimed
<1>4. n \notin Unplaced(s)
  BY <1>3 DEF Unplaced
<1> QED
  BY <1>3, <1>4 DEF Assigned

\* What AddressesStay says of one step.
Stays ==
    /\ running # {} /\ running' # {} /\ Resolves(subnet) =>
         \A n \in DOMAIN reserved : Uncontested(n) =>
             n \in DOMAIN reserved' /\ reserved'[n] = reserved[n]
    /\ \A n, m \in DOMAIN reserved' : n # m => reserved'[n] # reserved'[m]

LEMMA AssignStays ==
    ASSUME AddrInv, NEW s, Assign(s), topoVds' = topoVds
    PROVE  AddrInv' /\ Stays
<1>1. Resolves(s) /\ Assignable(s) /\ reserved' = Assigned(s)
  BY DEF Assign
<1>2. AddrInv'
  <2>1. \A n \in DOMAIN reserved' : reserved'[n] \notin Infra(reserved'[n][1])
    BY <1>1, AssignedIsSound
  <2>2. \A n, m \in DOMAIN reserved' : n # m => reserved'[n] # reserved'[m]
    BY <1>1, AssignedIsSound
  <2> QED BY <2>1, <2>2 DEF AddrInv, Infra
<1>3. Resolves(subnet) => s = subnet
  BY <1>1 DEF Resolves
<1>4. ASSUME Resolves(subnet), NEW n \in DOMAIN reserved, Uncontested(n)
      PROVE  n \in DOMAIN reserved' /\ reserved'[n] = reserved[n]
  BY <1>1, <1>3, <1>4, UncontestedStays DEF Uncontested
<1> QED
  BY <1>2, <1>4 DEF Stays, AddrInv

LEMMA AddressStep == AddrInv /\ [AddressNext]_addrVars => AddrInv' /\ [Stays]_addrVars
<1> SUFFICES ASSUME AddrInv, [AddressNext]_addrVars PROVE AddrInv' /\ Stays
  OBVIOUS
<1>k. ASSUME topoVds' \subseteq AddrVd, IsFiniteSet(topoVds'), reserved' = reserved
      PROVE  AddrInv' /\ Stays
  <2>1. AddrInv'
    BY <1>k DEF AddrInv, Infra
  <2> QED BY <1>k, <2>1 DEF Stays, AddrInv
<1>1. CASE PlanAddresses
  <2>1. PICK s \in 0..Cardinality(OtherNets) : Assign(s)
    BY <1>1 DEF PlanAddresses
  <2> QED BY <1>1, <2>1, AssignStays DEF PlanAddresses
<1>2. ASSUME NEW n \in AddrVd, AddLive(n) PROVE AddrInv' /\ Stays
  <2>1. PICK s \in 0..Cardinality(OtherNets) : Assign(s)
    BY <1>2 DEF AddLive
  <2> QED BY <1>2, <2>1, AssignStays DEF AddLive
<1>3. CASE DropState
  <2>1. running' = {} /\ DOMAIN reserved' = {} /\ topoVds' = topoVds
    BY <1>3 DEF DropState, Restrict
  <2> QED BY <2>1 DEF AddrInv, Stays
<1>4. ASSUME NEW n \in AddrVd, EditVd(n) PROVE AddrInv' /\ Stays
  <2>1. IsFiniteSet(topoVds \cup {n}) /\ IsFiniteSet(topoVds \ {n})
    BY FS_AddElement, FS_RemoveElement DEF AddrInv
  <2>2. topoVds' \in {topoVds \cup {n}, topoVds \ {n}} /\ reserved' = reserved
    BY <1>4 DEF EditVd
  <2>3. topoVds' \subseteq AddrVd /\ IsFiniteSet(topoVds')
    BY <2>1, <2>2 DEF AddrInv
  <2> QED BY <1>k, <2>2, <2>3
<1>5. CASE UNCHANGED <<topoVds, reserved>>
  BY <1>5, <1>k DEF AddrInv
<1>6. ASSUME NEW n \in AddrVd, RemoveLive(n) \/ SetNodeMgmtIpv4(n) PROVE UNCHANGED <<topoVds, reserved>>
  BY <1>6 DEF RemoveLive, SetNodeMgmtIpv4
<1>7. ASSUME SetMgmtConfig \/ \E s \in OtherNets : OtherLab(s) PROVE UNCHANGED <<topoVds, reserved>>
  BY <1>7 DEF SetMgmtConfig, OtherLab
<1>8. ASSUME UNCHANGED addrVars PROVE UNCHANGED <<topoVds, reserved>>
  BY <1>8 DEF addrVars
<1> QED
  BY <1>1, <1>2, <1>3, <1>4, <1>5, <1>6, <1>7, <1>8 DEF AddressNext

\* Management addresses are not recycled while the state file exists, whatever is edited,
\* added live or removed, however many VDs and subnets there are: assign_sticky_mgmt_ipv4
\* keeps every reservation that nobody contests as long as the topology resolves to the
\* subnet of the lab, and the addresses it hands out are free and never shared.
THEOREM AddressesAreSticky == AddressSpec => AddressesStay
<1>1. AddressInit => AddrInv
  BY FS_EmptySet DEF AddressInit, AddrInv
<1> QED
  BY <1>1, AddressStep, PTL DEF AddressSpec, AddressesStay, Stays

-----------------------------------------------------------------------------
(* Sums over a finite set.  The induction theorems of the library take an  *)
(* operator; this one takes the set of the subsets that are known to have  *)
(* the property, and follows from the well-foundedness of strict inclusion *)

\* Induction over the subsets of a finite set.
LEMMA SubsetInduction ==
    ASSUME NEW S, IsFiniteSet(S), NEW P \in SUBSET (SUBSET S),
           \A T \in SUBSET S : (\A U \in (SUBSET T) \ {T} : U \in P) => T \in P
    PROVE  S \in P
<1> SUFFICES ASSUME S \notin P PROVE FALSE
  OBVIOUS
<1> DEFINE Rest == (SUBSET S) \ P
<1>1. Rest \subseteq FiniteSubsetsOf(S) /\ Rest # {}
  <2>1. \A T \in SUBSET S : IsFiniteSet(T)
    BY FS_Subset
  <2> QED BY <2>1 DEF FiniteSubsetsOf
<1>2. PICK T \in Rest : \A U \in Rest : ~(<<U, T>> \in StrictSubsetOrdering(S))
  <2>1. IsWellFoundedOn(StrictSubsetOrdering(S), FiniteSubsetsOf(S))
    BY FS_StrictSubsetOrderingWellFounded
  <2> HIDE DEF Rest
  <2> QED BY <1>1, <2>1, WFMin
<1>3. \A U \in (SUBSET T) \ {T} : U \in P
  BY <1>2 DEF StrictSubsetOrdering
<1> QED
  BY <1>2, <1>3

\* What the fold of Total unfolds to: a function that takes the chosen element out.
Pick(S) == CHOOSE x \in S : TRUE
Sums(g, sizes, field, S) ==
    g = [s \in SUBSET S |-> IF s = {} THEN 0 ELSE sizes[Pick(s)][field] + g[s \ {Pick(s)}]]

LEMMA TotalUnfolds ==
    ASSUME NEW sizes, NEW field, NEW S
    PROVE  Total(sizes, field, S) = (CHOOSE g : Sums(g, sizes, field, S))[S]
BY DEF Total, MapThenSumSet, MapThenFoldSet, Sums, Pick

LEMMA SumsAgree ==
    ASSUME NEW sizes, NEW field, NEW S, IsFiniteSet(S), NEW A, NEW B, S \subseteq A, S \subseteq B,
           NEW g, NEW h, Sums(g, sizes, field, A), Sums(h, sizes, field, B)
    PROVE  g[S] = h[S]
<1> DEFINE P == {s \in SUBSET S : g[s] = h[s]}
<1>1. ASSUME NEW T \in SUBSET S, \A U \in (SUBSET T) \ {T} : U \in P
      PROVE  T \in P
  <2>0. T \in SUBSET A /\ T \in SUBSET B
    OBVIOUS
  <2>1. /\ g[T] = IF T = {} THEN 0 ELSE sizes[Pick(T)][field] + g[T \ {Pick(T)}]
        /\ h[T] = IF T = {} THEN 0 ELSE sizes[Pick(T)][field] + h[T \ {Pick(T)}]
    BY <2>0 DEF Sums
  <2>2. CASE T = {}
    BY <2>1, <2>2
  <2>3. CASE T # {}
    <3>1. Pick(T) \in T
      BY <2>3 DEF Pick
    <3>2. T \ {Pick(T)} \in P
      BY <1>1, <3>1
    <3> QED BY <2>1, <2>3, <3>2
  <2> QED BY <2>2, <2>3
<1>2. S \in P
  <2> HIDE DEF P
  <2>1. P \in SUBSET (SUBSET S)
    BY DEF P
  <2> QED BY <1>1, <2>1, SubsetInduction
<1> QED
  BY <1>2

LEMMA SumsExist ==
    ASSUME NEW sizes, NEW field, NEW S, IsFiniteSet(S)
    PROVE  \E g : Sums(g, sizes, field, S)
<1> DEFINE P == {s \in SUBSET S : \E g : Sums(g, sizes, field, s)}
           t(s) == (CHOOSE g : Sums(g, sizes, field, s))[s]
           G(T) == [s \in SUBSET T |-> IF s = {} THEN 0 ELSE sizes[Pick(s)][field] + t(s \ {Pick(s)})]
<1>1. ASSUME NEW T \in SUBSET S, \A U \in (SUBSET T) \ {T} : U \in P
      PROVE  Sums(G(T), sizes, field, T)
  <2> HIDE DEF P
  <2>1. ASSUME NEW u \in (SUBSET T) \ {T} PROVE G(T)[u] = t(u)
    <3> DEFINE g == CHOOSE g : Sums(g, sizes, field, u)
    <3>1. Sums(g, sizes, field, u)
      BY <1>1, <2>1 DEF P
    <3> HIDE DEF g
    <3>2. t(u) = g[u]
      BY DEF g
    <3>3. g[u] = IF u = {} THEN 0 ELSE sizes[Pick(u)][field] + g[u \ {Pick(u)}]
      BY <3>1 DEF Sums
    <3>4. CASE u = {}
      BY <3>2, <3>3, <3>4
    <3>5. CASE u # {}
      <4> DEFINE y == u \ {Pick(u)}
                 k == CHOOSE k : Sums(k, sizes, field, y)
      <4>1. y \in (SUBSET T) \ {T} /\ y \subseteq u
        BY <2>1
      <4>2. Sums(k, sizes, field, y)
        BY <1>1, <4>1 DEF P
      <4>3. IsFiniteSet(y)
        BY <4>1, FS_Subset
      <4>4. g[y] = k[y]
        <5> HIDE DEF y, k
        <5> QED BY <3>1, <4>1, <4>2, <4>3, SumsAgree
      <4>5. G(T)[u] = sizes[Pick(u)][field] + t(y)
        BY <2>1, <3>5
      <4> QED BY <3>2, <3>3, <3>5, <4>4, <4>5
    <3> QED BY <3>4, <3>5
  <2>2. ASSUME NEW s \in SUBSET T, s # {} PROVE t(s \ {Pick(s)}) = G(T)[s \ {Pick(s)}]
    <3>1. Pick(s) \in s
      BY <2>2 DEF Pick
    <3> HIDE DEF t, G
    <3> QED BY <2>1, <3>1
  <2>3. \A s \in SUBSET T :
          (IF s = {} THEN 0 ELSE sizes[Pick(s)][field] + t(s \ {Pick(s)}))
            = (IF s = {} THEN 0 ELSE sizes[Pick(s)][field] + G(T)[s \ {Pick(s)}])
    <3> HIDE DEF t, G
    <3> QED BY <2>2
  <2>4. G(T) = [s \in SUBSET T |-> IF s = {} THEN 0 ELSE sizes[Pick(s)][field] + G(T)[s \ {Pick(s)}]]
    <3> DEFINE a(s) == IF s = {} THEN 0 ELSE sizes[Pick(s)][field] + t(s \ {Pick(s)})
               b(s) == IF s = {} THEN 0 ELSE sizes[Pick(s)][field] + G(T)[s \ {Pick(s)}]
    <3>1. \A s \in SUBSET T : a(s) = b(s)
      BY <2>3
    <3>2. G(T) = [s \in SUBSET T |-> a(s)]
      OBVIOUS
    <3> HIDE DEF a, b, G
    <3>3. [s \in SUBSET T |-> a(s)] = [s \in SUBSET T |-> b(s)]
      BY <3>1
    <3>4. G(T) = [s \in SUBSET T |-> b(s)]
      BY <3>2, <3>3
    <3> QED BY <3>4 DEF b
  <2> HIDE DEF G
  <2> QED BY <2>4 DEF Sums
<1>2. ASSUME NEW T \in SUBSET S, \A U \in (SUBSET T) \ {T} : U \in P
      PROVE  T \in P
  BY <1>1, <1>2
<1>3. S \in P
  <2> HIDE DEF P
  <2>1. P \in SUBSET (SUBSET S)
    BY DEF P
  <2> QED BY <1>2, <2>1, SubsetInduction
<1> QED
  BY <1>3

\* A sum over a finite set takes the chosen element out.
LEMMA TotalPicks ==
    ASSUME NEW sizes, NEW field, NEW S, IsFiniteSet(S)
    PROVE  Total(sizes, field, S) =
             IF S = {} THEN 0 ELSE sizes[Pick(S)][field] + Total(sizes, field, S \ {Pick(S)})
<1> DEFINE g == CHOOSE g : Sums(g, sizes, field, S)
           y == S \ {Pick(S)}
           h == CHOOSE h : Sums(h, sizes, field, y)
<1>1. IsFiniteSet(y) /\ y \subseteq S
  BY FS_Subset
<1>2. Sums(g, sizes, field, S)
  BY SumsExist
<1>3. Sums(h, sizes, field, y)
  <2> HIDE DEF y
  <2> QED BY <1>1, SumsExist
<1>4. Total(sizes, field, S) = g[S] /\ Total(sizes, field, y) = h[y]
  BY TotalUnfolds
<1>5. g[y] = h[y]
  <2> HIDE DEF y, g, h
  <2> QED BY <1>1, <1>2, <1>3, SumsAgree
<1>6. g[S] = IF S = {} THEN 0 ELSE sizes[Pick(S)][field] + g[y]
  <2> HIDE DEF g
  <2>1. S \in SUBSET S
    OBVIOUS
  <2> QED BY <1>2, <2>1 DEF Sums
<1> HIDE DEF g, h
<1> QED
  BY <1>4, <1>5, <1>6

\* Every element of S has a size.
SizedOn(sizes, field, S) == \A x \in S : sizes[x][field] \in Nat

LEMMA TotalType ==
    ASSUME NEW sizes, NEW field, NEW S, IsFiniteSet(S), SizedOn(sizes, field, S)
    PROVE  Total(sizes, field, S) \in Nat
<1> DEFINE P == {s \in SUBSET S : Total(sizes, field, s) \in Nat}
<1>1. ASSUME NEW T \in SUBSET S, \A U \in (SUBSET T) \ {T} : U \in P
      PROVE  T \in P
  <2>1. IsFiniteSet(T)
    BY FS_Subset
  <2>2. CASE T = {}
    <3>1. Total(sizes, field, T) = 0 /\ 0 \in Nat
      BY <2>1, <2>2, TotalPicks
    <3> QED BY <3>1
  <2>3. CASE T # {}
    <3>1. Pick(T) \in T
      BY <2>3 DEF Pick
    <3>2. T \ {Pick(T)} \in P /\ sizes[Pick(T)][field] \in Nat
      BY <1>1, <3>1 DEF SizedOn
    <3>3. Total(sizes, field, T) = sizes[Pick(T)][field] + Total(sizes, field, T \ {Pick(T)})
      BY <2>1, <2>3, TotalPicks
    <3> QED BY <3>2, <3>3
  <2> QED BY <2>2, <2>3
<1> HIDE DEF P
<1>2. P \in SUBSET (SUBSET S)
  BY DEF P
<1>3. S \in P
  BY <1>1, <1>2, SubsetInduction
<1> QED
  BY <1>3 DEF P

\* It does not matter which element is taken out.
LEMMA TotalTakesOut ==
    ASSUME NEW sizes, NEW field, NEW S, IsFiniteSet(S), SizedOn(sizes, field, S), NEW e \in S
    PROVE  Total(sizes, field, S) = sizes[e][field] + Total(sizes, field, S \ {e})
<1> DEFINE P == {s \in SUBSET S : \A x \in s :
                   Total(sizes, field, s) = sizes[x][field] + Total(sizes, field, s \ {x})}
<1>1. ASSUME NEW T \in SUBSET S, \A U \in (SUBSET T) \ {T} : U \in P, NEW x \in T
      PROVE  Total(sizes, field, T) = sizes[x][field] + Total(sizes, field, T \ {x})
  <2> DEFINE c == Pick(T)
  <2>1. IsFiniteSet(T) /\ c \in T
    BY FS_Subset DEF Pick
  <2>2. Total(sizes, field, T) = sizes[c][field] + Total(sizes, field, T \ {c})
    BY <2>1, TotalPicks
  <2>3. CASE x = c
    BY <2>2, <2>3
  <2>4. CASE x # c
    <3> HIDE DEF c, P
    <3>1. T \ {c} \in P /\ T \ {x} \in P /\ x \in T \ {c} /\ c \in T \ {x}
      BY <1>1, <2>1, <2>4
    <3>2. (T \ {c}) \ {x} = (T \ {x}) \ {c}
      OBVIOUS
    <3>3. Total(sizes, field, T \ {c}) = sizes[x][field] + Total(sizes, field, (T \ {x}) \ {c})
      BY <3>1, <3>2 DEF P
    <3>4. Total(sizes, field, T \ {x}) = sizes[c][field] + Total(sizes, field, (T \ {x}) \ {c})
      BY <3>1 DEF P
    <3>5. Total(sizes, field, (T \ {x}) \ {c}) \in Nat
      <4>1. IsFiniteSet((T \ {x}) \ {c})
        BY <2>1, FS_Subset
      <4> QED BY <4>1, TotalType DEF SizedOn
    <3>6. sizes[x][field] \in Nat /\ sizes[c][field] \in Nat
      BY <2>1 DEF SizedOn
    <3> HIDE DEF Total
    <3> QED BY <2>2, <3>3, <3>4, <3>5, <3>6
  <2> QED BY <2>3, <2>4
<1>2. \A T \in SUBSET S : (\A U \in (SUBSET T) \ {T} : U \in P) => T \in P
  <2>1. ASSUME NEW T \in SUBSET S, \A U \in (SUBSET T) \ {T} : U \in P PROVE T \in P
    BY <1>1, <2>1
  <2> HIDE DEF P
  <2> QED BY <2>1
<1> HIDE DEF P
<1>3. P \in SUBSET (SUBSET S)
  BY DEF P
<1>4. S \in P
  BY <1>2, <1>3, SubsetInduction
<1> QED
  BY <1>4 DEF P

\* A part of a set sums up to no more than the set.
LEMMA TotalMonotone ==
    ASSUME NEW sizes, NEW field, NEW S, IsFiniteSet(S), SizedOn(sizes, field, S),
           NEW U \in SUBSET S
    PROVE  Total(sizes, field, U) <= Total(sizes, field, S)
<1> DEFINE P == {s \in SUBSET S : U \subseteq s => Total(sizes, field, U) <= Total(sizes, field, s)}
<1>0. \A s \in SUBSET S : IsFiniteSet(s) /\ SizedOn(sizes, field, s) /\ Total(sizes, field, s) \in Nat
  BY FS_Subset, TotalType DEF SizedOn
<1>1. ASSUME NEW T \in SUBSET S, \A V \in (SUBSET T) \ {T} : V \in P
      PROVE  T \in P
  <2> SUFFICES ASSUME U \subseteq T PROVE Total(sizes, field, U) <= Total(sizes, field, T)
    OBVIOUS
  <2>1. CASE U = T
    BY <1>0, <2>1
  <2>2. CASE U # T
    <3>1. PICK x \in T : x \notin U
      BY <2>2
    <3>2. Total(sizes, field, U) <= Total(sizes, field, T \ {x})
      BY <1>1, <3>1
    <3>3. Total(sizes, field, T) = sizes[x][field] + Total(sizes, field, T \ {x})
      BY <1>0, TotalTakesOut
    <3>4. /\ sizes[x][field] \in Nat /\ Total(sizes, field, T \ {x}) \in Nat
          /\ Total(sizes, field, U) \in Nat
      <4>1. T \ {x} \in SUBSET S
        OBVIOUS
      <4> QED BY <1>0, <4>1 DEF SizedOn
    <3> HIDE DEF Total
    <3> QED BY <3>2, <3>3, <3>4
  <2> QED BY <2>1, <2>2
<1> HIDE DEF P
<1>2. P \in SUBSET (SUBSET S)
  BY DEF P
<1>3. S \in P
  BY <1>1, <1>2, SubsetInduction
<1> QED
  BY <1>3 DEF P

-----------------------------------------------------------------------------
(* Placement *)

Content == {"none", "data", "old", "part"}
Places == [Vd -> Host \cup {NoHost}]
DeployRecord(c, n) ==
    [stage : {"idle", "images", "gather", "place", "move", "copy", "drop", "save"},
     capacity : {c}, need : {n}, todo : SUBSET Vd, plan : Places,
     moves : SUBSET Vd, astray : SUBSET Vd]

PlaceTypeOK ==
    /\ history \in Places /\ runtime \in Places
    /\ disk \in [Vd -> [Host -> Content]]
    /\ deploy \in DeployRecord(deploy.capacity, deploy.need)

\* Every VD that is placed has a host.
PlanInv == \A v \in Vd \ deploy.todo : plan[v] \in Host

\* A disk that is not to be moved, any more or at all, is where the plan has its VD.
Kept(v) == (\A h \in Host : disk[v][h] # "part") /\ (\E h \in Host : disk[v][h] = "data")
               => disk[v][plan[v]] = "data"

\* A disk that is to be moved has one source: where the history says, or the only other
\* host that has one.
Movable(v) ==
    /\ Remapped(v) => v \in deploy.astray \/ disk[v][history[v]] \in {"data", "part"}
    /\ ~Remapped(v) => \E h \in Host : Found(v) \ {plan[v]} = {h}

BeingMoved(v) == deploy.stage \in {"copy", "drop"} /\ v = Moving

MoveInv ==
    deploy.stage \in {"move", "copy", "drop"} =>
        /\ deploy.todo = {}
        /\ \A v \in Vd \ moves : v \in deploy.astray \/ Kept(v)
        /\ \A v \in moves : /\ Movable(v)
                            /\ ~Remapped(v) /\ ~BeingMoved(v) => disk[v][plan[v]] = "none"
        /\ ~At("move") => moves # {}
        /\ At("drop") => disk[Moving][plan[Moving]] = disk[Moving][MovesFrom(Moving)]

PlaceInv == PlaceTypeOK /\ PlanInv /\ MoveInv

LEMMA NoDeployType ==
    /\ Nowhere \in Places
    /\ NoDeploy \in DeployRecord(NoDeploy.capacity, NoDeploy.need)
    /\ NoDeploy.stage = "idle" /\ NoDeploy.todo = Vd
<1>1. Nowhere \in Places
  BY DEF Nowhere, Places
<1>2. NoDeploy \in DeployRecord(NoDeploy.capacity, NoDeploy.need)
  <2> DEFINE c == [h \in Host |-> DefaultSize]
             n == [v \in Vd |-> DefaultSize]
  <2>1. NoDeploy = [stage |-> "idle", capacity |-> c, need |-> n, todo |-> Vd,
                    plan |-> Nowhere, moves |-> {}, astray |-> {}]
    BY DEF NoDeploy
  <2> HIDE DEF c, n
  <2> QED BY <1>1, <2>1 DEF DeployRecord
<1> QED
  BY <1>1, <1>2 DEF NoDeploy

\* A deploy that is over keeps nothing.
LEMMA FailsKeepsInv ==
    ASSUME Fails, history' \in Places, runtime' \in Places, disk' \in [Vd -> [Host -> Content]]
    PROVE  PlaceInv'
<1>1. deploy' = NoDeploy
  BY DEF Fails
<1>2. PlaceTypeOK'
  BY <1>1, NoDeployType DEF PlaceTypeOK
<1>3. PlanInv'
  BY <1>1, NoDeployType DEF PlanInv
<1>4. MoveInv'
  BY <1>1, NoDeployType DEF MoveInv
<1> QED
  BY <1>2, <1>3, <1>4 DEF PlaceInv

\* What happens while no deploy is under way leaves the deploy alone.
LEMMA IdleKeepsInv ==
    ASSUME PlaceInv, deploy.stage \notin {"move", "copy", "drop"}, deploy' = deploy,
           history' \in Places, runtime' \in Places, disk' \in [Vd -> [Host -> Content]]
    PROVE  PlaceInv'
<1>1. PlaceTypeOK'
  BY DEF PlaceInv, PlaceTypeOK
<1>2. PlanInv'
  BY DEF PlaceInv, PlanInv, plan
<1>3. MoveInv'
  BY DEF MoveInv
<1> QED
  BY <1>1, <1>2, <1>3 DEF PlaceInv

LEMMA BestHostIsHost ==
    ASSUME NEW v
    PROVE  BestHost(v) \subseteq Host
<1>1. Candidates(v) \subseteq Host
  BY DEF Candidates
<1>2. Best(Candidates(v)) \subseteq Host
  BY <1>1 DEF Best
<1> QED
  BY <1>2 DEF BestHost

LEMMA WrittenType ==
    ASSUME PlaceTypeOK, NEW v \in Vd, NEW h
    PROVE  Written(v, h) \in [Host -> Content]
BY DEF PlaceTypeOK, Written, Content

\* The first of the disks still to be moved is one of them.
LEMMA MovingIsMoved ==
    ASSUME PlaceTypeOK, moves # {}
    PROVE  Moving \in moves /\ Moving \in Vd
<1> DEFINE M == moves
           id == [v \in M |-> v]
<1>1. M \in SUBSET Vd
  BY DEF PlaceTypeOK, DeployRecord, moves
<1>2. IsFiniteSet(M) /\ M \subseteq Nat
  BY <1>1, FS_Subset, PlacementAssumption
<1>3. Cardinality(M) \in Nat /\ Cardinality(M) # 0
  BY <1>2, FS_CardinalityType, FS_EmptySet
<1>4. id \in [M -> Nat] /\ \A x, y \in M : x # y => id[x] # id[y]
  BY <1>2
<1>5. \A x \in M : Before(M, id, x) = {z \in M : z < x}
  BY DEF Before
<1>6. PICK x \in M : Cardinality(Before(M, id, x)) = 0
  <2> HIDE DEF M, id
  <2>1. 0 \in Nat /\ 0 < Cardinality(M)
    BY <1>3
  <2> QED BY <1>2, <1>4, <2>1, RankReached
<1>7. Before(M, id, x) = {}
  <2> HIDE DEF M, id
  <2>1. IsFiniteSet(Before(M, id, x))
    BY <1>2, <1>4, RankBounded
  <2> QED BY <1>6, <2>1, FS_EmptySet
<1>8. \A w \in M : x <= w
  <2>1. {z \in M : z < x} = {}
    BY <1>5, <1>6, <1>7
  <2> HIDE DEF M
  <2>2. ASSUME NEW w \in M PROVE x <= w
    <3>1. ~(w < x) /\ w \in Nat /\ x \in Nat
      BY <1>2, <1>6, <2>1
    <3> QED BY <3>1
  <2> QED BY <2>2
<1>9. Moving \in moves
  BY <1>8 DEF Moving
<1> QED
  BY <1>1, <1>9

\* A step of a deploy before or after the disks are moved.
LEMMA OutOfFlight ==
    ASSUME PlaceInv, PlaceTypeOK', deploy'.stage \notin {"move", "copy", "drop"},
           deploy'.todo = deploy.todo, deploy'.plan = deploy.plan
    PROVE  PlaceInv'
<1>1. PlanInv'
  BY DEF PlaceInv, PlanInv, plan
<1>2. MoveInv'
  BY DEF MoveInv
<1> QED
  BY <1>1, <1>2 DEF PlaceInv

LEMMA ExtractKeeps == ASSUME PlaceInv, Extract PROVE PlaceInv'
<1> DEFINE x == [v \in Vd |-> Asks(v, CHOOSE s \in cache' : TRUE)]
           d == [NoDeploy EXCEPT !.stage = "images", !.need = x]
           R == [stage : {"idle", "images", "gather", "place", "move", "copy", "drop", "save"},
                 capacity : {NoDeploy.capacity}, need : {x, NoDeploy.need}, todo : SUBSET Vd,
                 plan : Places, moves : SUBSET Vd, astray : SUBSET Vd]
<1>1. deploy' = d /\ UNCHANGED <<history, disk, runtime>>
  BY DEF Extract
<1> HIDE DEF x
<1>2. NoDeploy \in R
  BY NoDeployType DEF DeployRecord
<1>3. d \in R /\ d.stage = "images" /\ d.need = x /\ d.todo = Vd /\ d.capacity = NoDeploy.capacity
  BY <1>2, NoDeployType
<1> HIDE DEF d
<1>4. d \in DeployRecord(d.capacity, d.need)
  BY <1>3 DEF DeployRecord
<1>5. PlaceTypeOK'
  BY <1>1, <1>4 DEF PlaceInv, PlaceTypeOK
<1>6. PlanInv'
  BY <1>1, <1>3 DEF PlanInv
<1>7. MoveInv'
  BY <1>1, <1>3 DEF MoveInv
<1> QED
  BY <1>5, <1>6, <1>7 DEF PlaceInv

LEMMA GatherKeeps == ASSUME PlaceInv, CheckImages \/ Gather PROVE PlaceInv'
<1>1. UNCHANGED <<history, disk, runtime>>
  BY DEF CheckImages, Gather
<1>2. PlaceTypeOK
  BY DEF PlaceInv
<1>3. CASE Fails
  BY <1>1, <1>2, <1>3, FailsKeepsInv DEF PlaceTypeOK
<1>4. CASE deploy' = [deploy EXCEPT !.stage = "gather"]
  <2>1. /\ deploy' \in DeployRecord(deploy'.capacity, deploy'.need)
        /\ deploy'.stage = "gather" /\ deploy'.todo = deploy.todo /\ deploy'.plan = deploy.plan
    BY <1>2, <1>4 DEF PlaceTypeOK, DeployRecord
  <2>2. PlaceTypeOK'
    BY <1>1, <1>2, <2>1 DEF PlaceTypeOK
  <2> QED BY <2>1, <2>2, OutOfFlight
<1>5. ASSUME NEW c \in Capacities, deploy' = [deploy EXCEPT !.stage = "place", !.capacity = c]
      PROVE  PlaceInv'
  <2> DEFINE R == [stage : {"idle", "images", "gather", "place", "move", "copy", "drop", "save"},
                   capacity : {c, deploy.capacity}, need : {deploy.need}, todo : SUBSET Vd,
                   plan : Places, moves : SUBSET Vd, astray : SUBSET Vd]
  <2>1. deploy \in R
    BY <1>2 DEF PlaceTypeOK, DeployRecord
  <2>2. deploy' \in R /\ deploy'.stage = "place" /\ deploy'.todo = deploy.todo /\ deploy'.plan = deploy.plan
    BY <1>5, <2>1
  <2>3. deploy' \in DeployRecord(deploy'.capacity, deploy'.need)
    BY <2>2 DEF DeployRecord
  <2>4. PlaceTypeOK'
    BY <1>1, <1>2, <2>3 DEF PlaceTypeOK
  <2> QED BY <2>2, <2>4, OutOfFlight
<1> QED
  BY <1>3, <1>4, <1>5 DEF CheckImages, Gather

LEMMA PlaceVdKeeps == ASSUME PlaceInv, PlaceVd PROVE PlaceInv'
<1>1. UNCHANGED <<history, disk, runtime>> /\ deploy.stage = "place"
  BY DEF PlaceVd, At
<1>2. PlaceTypeOK /\ PlanInv
  BY DEF PlaceInv
<1>3. CASE Fails
  BY <1>1, <1>2, <1>3, FailsKeepsInv DEF PlaceTypeOK
<1>4. ASSUME NEW h \in BestHost(NextVd),
             deploy' = [deploy EXCEPT !.plan[NextVd] = h, !.todo = @ \ {NextVd}]
      PROVE  PlaceInv'
  <2> DEFINE n == NextVd
             q == [deploy.plan EXCEPT ![n] = h]
  <2>1. h \in Host
    BY <1>4, BestHostIsHost
  <2>2. deploy.plan \in Places
    BY <1>2 DEF PlaceTypeOK, DeployRecord
  <2>3. q \in Places /\ \A v \in Vd : q[v] = IF v = n THEN h ELSE deploy.plan[v]
    BY <2>1, <2>2 DEF Places
  <2>4. deploy' = [deploy EXCEPT !.plan = q, !.todo = deploy.todo \ {n}]
    BY <1>4
  <2> HIDE DEF n, q
  <2>5. /\ deploy' \in DeployRecord(deploy'.capacity, deploy'.need)
        /\ deploy'.stage = "place" /\ deploy'.plan = q /\ deploy'.todo = deploy.todo \ {n}
    BY <1>1, <1>2, <2>3, <2>4 DEF PlaceTypeOK, DeployRecord
  <2>6. PlaceTypeOK'
    BY <1>1, <1>2, <2>5 DEF PlaceTypeOK
  <2>7. PlanInv'
    BY <1>2, <2>1, <2>3, <2>5 DEF PlanInv, plan
  <2>8. MoveInv'
    BY <2>5 DEF MoveInv
  <2> QED BY <2>6, <2>7, <2>8 DEF PlaceInv
<1> QED
  BY <1>3, <1>4 DEF PlaceVd

\* A disk that _find_existing_overlay_hosts found on one host only.
LEMMA FoundOnce ==
    ASSUME NEW v \in Vd, ~(Cardinality(Found(v)) > 1), NEW h \in Found(v)
    PROVE  Found(v) = {h}
<1>1. Found(v) \in SUBSET Host
  BY DEF Found
<1>2. IsFiniteSet(Found(v))
  BY <1>1, FS_Subset, PlacementAssumption
<1>3. Cardinality(Found(v)) \in Nat /\ Cardinality(Found(v)) # 0
  BY <1>2, FS_CardinalityType, FS_EmptySet
<1>4. Cardinality(Found(v)) = 1
  BY <1>3
<1>5. PICK x : Found(v) = {x}
  BY <1>2, <1>4, FS_Singleton
<1> QED
  BY <1>5

LEMMA PrepareKeeps == ASSUME PlaceInv, Prepare PROVE PlaceInv'
<1>1. UNCHANGED <<history, disk, runtime>> /\ deploy.todo = {}
  BY DEF Prepare
<1>2. PlaceTypeOK /\ PlanInv
  BY DEF PlaceInv
<1>3. CASE Fails
  BY <1>1, <1>2, <1>3, FailsKeepsInv DEF PlaceTypeOK
<1>4. ASSUME \A v \in Vd : ~Refused(v),
             deploy' = [deploy EXCEPT !.stage = "move", !.moves = {v \in Vd : Migrates(v)},
                                      !.astray = {v \in Vd : Astray(v)}]
      PROVE  PlaceInv'
  <2> DEFINE M == {v \in Vd : Migrates(v)}
             A == {v \in Vd : Astray(v)}
  <2>1. M \in SUBSET Vd /\ A \in SUBSET Vd
    OBVIOUS
  <2> HIDE DEF M, A
  <2>2. deploy' = [deploy EXCEPT !.stage = "move", !.moves = M, !.astray = A]
    BY <1>4 DEF M, A
  <2>3. /\ deploy' \in DeployRecord(deploy'.capacity, deploy'.need)
        /\ deploy'.stage = "move" /\ deploy'.plan = deploy.plan /\ deploy'.todo = deploy.todo
        /\ deploy'.moves = M /\ deploy'.astray = A
    BY <1>2, <2>1, <2>2 DEF PlaceTypeOK, DeployRecord
  <2>4. PlaceTypeOK'
    BY <1>1, <1>2, <2>3 DEF PlaceTypeOK
  <2>5. PlanInv'
    BY <1>2, <2>3 DEF PlanInv, plan
  <2>6. \A v \in Vd : /\ Remapped(v)' = Remapped(v)
                      /\ Found(v)' = Found(v)
                      /\ Kept(v)' = Kept(v)
                      /\ plan'[v] = plan[v]
    BY <1>1, <2>3 DEF Remapped, Found, HasContent, Kept, plan
  <2>7. ASSUME NEW v \in Vd \ M PROVE Kept(v)
    <3>1. ~Remapped(v) /\ Found(v) \subseteq {plan[v]}
      BY <2>7 DEF M, Migrates
    <3> QED BY <3>1 DEF Kept, Found, HasContent
  <2>8. ASSUME NEW v \in M
        PROVE  /\ Remapped(v) => v \in A \/ disk[v][history[v]] \in {"data", "part"}
               /\ ~Remapped(v) => /\ \E h \in Host : Found(v) \ {plan[v]} = {h}
                                  /\ disk[v][plan[v]] = "none"
    <3>0. v \in Vd /\ Migrates(v) /\ ~Refused(v)
      BY <1>4, <2>8 DEF M
    <3>1. CASE Remapped(v)
      <4>1. history[v] \in Host /\ disk[v][history[v]] # "none"
        BY <1>2, <3>0, <3>1 DEF PlaceTypeOK, Places, Remapped, Refused, HasContent
      <4>2. disk[v][history[v]] \in Content
        BY <1>2, <3>0, <4>1 DEF PlaceTypeOK
      <4>3. disk[v][history[v]] = "old" => v \in A
        BY <3>0, <4>1 DEF A, Astray
      <4> QED BY <3>1, <4>1, <4>2, <4>3 DEF Content
    <3>2. CASE ~Remapped(v)
      <4>1. Found(v) \ {plan[v]} # {} /\ ~(Cardinality(Found(v)) > 1)
        BY <3>0, <3>2 DEF Migrates, Refused
      <4>2. PICK h \in Found(v) : h # plan[v]
        BY <4>1
      <4>3. Found(v) = {h}
        BY <3>0, <4>1, <4>2, FoundOnce
      <4>4. h \in Host /\ Found(v) \ {plan[v]} = {h} /\ plan[v] \notin Found(v)
        BY <4>2, <4>3 DEF Found
      <4>5. plan[v] \in Host
        BY <1>1, <1>2, <3>0 DEF PlanInv
      <4>6. disk[v][plan[v]] = "none"
        BY <4>4, <4>5 DEF Found, HasContent
      <4> QED BY <3>2, <4>4, <4>6
    <3> QED BY <3>1, <3>2
  <2>9. MoveInv'
    <3>1. deploy'.stage = "move" /\ deploy'.todo = {} /\ moves' = M /\ At("move")' /\ ~At("drop")'
      BY <1>1, <2>3 DEF moves, At
    <3>2. \A v \in Vd \ M : Kept(v)'
      BY <2>6, <2>7
    <3>3. \A v \in M : Movable(v)'
      <4>1. ASSUME NEW v \in M PROVE Movable(v)'
        <5>1. v \in Vd
          BY <2>1
        <5>2. disk' = disk /\ history' = history
          BY <1>1
        <5> QED BY <2>3, <2>6, <2>8, <5>1, <5>2 DEF Movable
      <4> QED BY <4>1
    <3>4. \A v \in M : ~Remapped(v)' => disk'[v][plan'[v]] = "none"
      BY <1>1, <2>1, <2>6, <2>8
    <3> QED BY <3>1, <3>2, <3>3, <3>4 DEF MoveInv
  <2> QED BY <2>4, <2>5, <2>9 DEF PlaceInv
<1> QED
  BY <1>3, <1>4 DEF Prepare

\* The source of a move is a host, and not its target.
LEMMA SourceIsHost ==
    ASSUME PlaceTypeOK, NEW v \in Vd, Movable(v)
    PROVE  /\ MovesFrom(v) \in Host /\ MovesFrom(v) # plan[v]
           /\ Remapped(v) => MovesFrom(v) = history[v]
           /\ ~Remapped(v) => Found(v) \ {plan[v]} = {MovesFrom(v)}
<1>1. CASE Remapped(v)
  <2>1. MovesFrom(v) = history[v] /\ history[v] # NoHost /\ history[v] # plan[v]
    BY <1>1 DEF MovesFrom, Remapped
  <2>2. history[v] \in Host
    BY <2>1 DEF PlaceTypeOK, Places
  <2> QED BY <1>1, <2>1, <2>2
<1>2. CASE ~Remapped(v)
  <2>1. PICK h \in Host : Found(v) \ {plan[v]} = {h}
    BY <1>2 DEF Movable
  <2>2. \E k \in Found(v) : k # plan[v]
    BY <2>1
  <2>3. MovesFrom(v) \in Found(v) /\ MovesFrom(v) # plan[v]
    BY <1>2, <2>2 DEF MovesFrom
  <2>4. MovesFrom(v) = h
    BY <2>1, <2>3
  <2> QED BY <1>2, <2>1, <2>3, <2>4
<1> QED
  BY <1>1, <1>2

\* What is known of a VD's disk stays known while nothing is done to it.
LEMMA SameDisk ==
    ASSUME NEW v \in Vd, disk'[v] = disk[v], history' = history,
           deploy'.plan = deploy.plan, deploy'.astray = deploy.astray
    PROVE  /\ Remapped(v)' <=> Remapped(v)
           /\ Kept(v)' <=> Kept(v)
           /\ Movable(v)' <=> Movable(v)
           /\ disk'[v][plan'[v]] = disk[v][plan[v]]
<1>1. plan' = plan /\ history'[v] = history[v]
  BY DEF plan
<1>2. Found(v)' = Found(v)
  BY DEF Found, HasContent
<1>3. Remapped(v)' <=> Remapped(v)
  BY <1>1 DEF Remapped
<1>4. Kept(v)' <=> Kept(v)
  BY <1>1 DEF Kept
<1>5. Movable(v)' <=> Movable(v)
  BY <1>1, <1>2, <1>3 DEF Movable
<1> QED
  BY <1>1, <1>3, <1>4, <1>5

\* A write to the target of a move leaves its source alone.
LEMMA SourceStays ==
    ASSUME PlaceTypeOK, NEW m \in Vd, Movable(m), plan[m] \in Host, NEW c \in Content,
           disk' = [disk EXCEPT ![m][plan[m]] = c], history' = history,
           deploy'.plan = deploy.plan, deploy'.astray = deploy.astray
    PROVE  /\ Movable(m)'
           /\ MovesFrom(m)' = MovesFrom(m)
           /\ disk'[m][plan'[m]] = c
           /\ disk'[m][MovesFrom(m)] = disk[m][MovesFrom(m)]
           /\ \A v \in Vd \ {m} : disk'[v] = disk[v]
           /\ disk' \in [Vd -> [Host -> Content]]
<1>1. /\ disk' \in [Vd -> [Host -> Content]]
      /\ \A v \in Vd \ {m} : disk'[v] = disk[v]
      /\ \A h \in Host : disk'[m][h] = IF h = plan[m] THEN c ELSE disk[m][h]
  BY DEF PlaceTypeOK
<1>2. plan' = plan /\ history'[m] = history[m]
  BY DEF plan
<1>3. MovesFrom(m) \in Host /\ MovesFrom(m) # plan[m]
      /\ (Remapped(m) => MovesFrom(m) = history[m])
      /\ (~Remapped(m) => Found(m) \ {plan[m]} = {MovesFrom(m)})
  BY SourceIsHost
<1>4. Remapped(m)' <=> Remapped(m)
  BY <1>2 DEF Remapped
<1>5. Found(m)' \ {plan'[m]} = Found(m) \ {plan[m]}
  <2>1. Found(m) = {h \in Host : disk[m][h] # "none"} /\ Found(m)' = {h \in Host : disk'[m][h] # "none"}
    BY DEF Found, HasContent
  <2> QED BY <1>1, <1>2, <2>1
<1>6. Movable(m)'
  BY <1>1, <1>2, <1>3, <1>4, <1>5 DEF Movable
<1>7. MovesFrom(m)' = MovesFrom(m)
  <2>1. CASE Remapped(m)
    BY <1>2, <1>3, <1>4, <2>1 DEF MovesFrom
  <2>2. CASE ~Remapped(m)
    <3> DEFINE x == CHOOSE h \in Found(m)' : h # plan'[m]
    <3>1. \E h \in Found(m)' : h # plan'[m]
      BY <1>3, <1>5, <2>2
    <3>2. x \in Found(m)' \ {plan'[m]}
      BY <3>1
    <3>3. MovesFrom(m)' = x
      BY <1>4, <2>2 DEF MovesFrom
    <3> HIDE DEF x
    <3> QED BY <1>3, <1>5, <2>2, <3>2, <3>3
  <2> QED BY <2>1, <2>2
<1> QED
  BY <1>1, <1>2, <1>3, <1>6, <1>7

\* The target of the next copy, or of the one under way.
LEMMA MovingFacts ==
    ASSUME PlaceInv, deploy.stage \in {"move", "copy", "drop"}, moves # {}
    PROVE  Moving \in moves /\ Moving \in Vd /\ Movable(Moving) /\ plan[Moving] \in Host
<1>1. Moving \in moves /\ Moving \in Vd
  BY MovingIsMoved DEF PlaceInv
<1> QED
  BY <1>1 DEF PlaceInv, PlanInv, MoveInv

LEMMA BeginMoveKeeps == ASSUME PlaceInv, BeginMove PROVE PlaceInv'
<1>0. PICK m : m = Moving
  OBVIOUS
<1>1. /\ deploy.stage = "move" /\ moves # {} /\ deploy' = [deploy EXCEPT !.stage = "copy"]
      /\ disk' = [disk EXCEPT ![m][plan[m]] = "part"] /\ UNCHANGED <<history, runtime>>
  BY <1>0 DEF BeginMove, At
<1>2. PlaceTypeOK /\ PlanInv /\ MoveInv
  BY DEF PlaceInv
<1>3. m \in moves /\ m \in Vd /\ Movable(m) /\ plan[m] \in Host
  BY <1>0, <1>1, MovingFacts
<1>4. /\ deploy' \in DeployRecord(deploy'.capacity, deploy'.need) /\ deploy'.stage = "copy"
      /\ deploy'.plan = deploy.plan /\ deploy'.todo = deploy.todo
      /\ deploy'.moves = deploy.moves /\ deploy'.astray = deploy.astray
  BY <1>1, <1>2 DEF PlaceTypeOK, DeployRecord
<1>5. plan' = plan /\ moves' = moves /\ Moving' = m
  BY <1>0, <1>4 DEF plan, moves, Moving
<1>6. /\ Movable(m)' /\ disk' \in [Vd -> [Host -> Content]]
      /\ \A v \in Vd \ {m} : disk'[v] = disk[v]
  <2>1. "part" \in Content
    BY DEF Content
  <2> QED BY <1>1, <1>2, <1>3, <1>4, <2>1, SourceStays
<1>7. PlaceTypeOK'
  BY <1>1, <1>2, <1>4, <1>6 DEF PlaceTypeOK
<1>8. PlanInv'
  BY <1>2, <1>4, <1>5 DEF PlanInv
<1>9. \A v \in Vd \ {m} : /\ Remapped(v)' <=> Remapped(v)
                          /\ Kept(v)' <=> Kept(v)
                          /\ Movable(v)' <=> Movable(v)
                          /\ disk'[v][plan'[v]] = disk[v][plan[v]]
  BY <1>1, <1>4, <1>6, SameDisk
<1>10. MoveInv'
  <2>1. /\ deploy.todo = {}
        /\ \A v \in Vd \ moves : v \in deploy.astray \/ Kept(v)
        /\ \A v \in moves : Movable(v) /\ (~Remapped(v) => disk[v][plan[v]] = "none")
    BY <1>1, <1>2 DEF MoveInv, BeingMoved
  <2>2. deploy'.todo = {} /\ moves' # {} /\ ~At("drop")' /\ moves \subseteq Vd
    BY <1>1, <1>2, <1>4, <1>5, <2>1 DEF At, PlaceTypeOK, DeployRecord, moves
  <2>3. \A v \in Vd \ moves' : v \in deploy'.astray \/ Kept(v)'
    BY <1>3, <1>4, <1>5, <1>9, <2>1
  <2>4. \A v \in moves' : Movable(v)'
    BY <1>5, <1>6, <1>9, <2>1, <2>2
  <2>5. \A v \in moves' : ~Remapped(v)' /\ ~BeingMoved(v)' => disk'[v][plan'[v]] = "none"
    <3>1. BeingMoved(m)'
      BY <1>4, <1>5 DEF BeingMoved
    <3> QED BY <1>5, <1>9, <2>1, <2>2, <3>1
  <2> QED BY <2>2, <2>3, <2>4, <2>5 DEF MoveInv
<1> QED
  BY <1>7, <1>8, <1>10 DEF PlaceInv

LEMMA EndMoveKeeps == ASSUME PlaceInv, EndMove PROVE PlaceInv'
<1>0. PICK m : m = Moving
  OBVIOUS
<1>1. deploy.stage = "copy" /\ UNCHANGED <<history, runtime>>
  BY DEF EndMove, At
<1>2. PlaceTypeOK /\ PlanInv /\ MoveInv
  BY DEF PlaceInv
<1>3. CASE Fails /\ UNCHANGED disk
  BY <1>1, <1>2, <1>3, FailsKeepsInv DEF PlaceTypeOK
<1>4. CASE deploy' = [deploy EXCEPT !.stage = "drop"]
           /\ disk' = [disk EXCEPT ![m][plan[m]] = disk[m][MovesFrom(m)]]
  <2>0. moves # {}
    BY <1>1, <1>2 DEF MoveInv, At
  <2>1. m \in moves /\ m \in Vd /\ Movable(m) /\ plan[m] \in Host
    BY <1>0, <1>1, <2>0, MovingFacts
  <2>2. /\ deploy' \in DeployRecord(deploy'.capacity, deploy'.need) /\ deploy'.stage = "drop"
        /\ deploy'.plan = deploy.plan /\ deploy'.todo = deploy.todo
        /\ deploy'.moves = deploy.moves /\ deploy'.astray = deploy.astray
    BY <1>2, <1>4 DEF PlaceTypeOK, DeployRecord
  <2>3. plan' = plan /\ moves' = moves /\ Moving' = m
    BY <1>0, <2>2 DEF plan, moves, Moving
  <2>4. disk[m][MovesFrom(m)] \in Content
    BY <1>2, <2>1, SourceIsHost DEF PlaceTypeOK
  <2>5. /\ Movable(m)' /\ disk' \in [Vd -> [Host -> Content]]
        /\ \A v \in Vd \ {m} : disk'[v] = disk[v]
        /\ MovesFrom(m)' = MovesFrom(m)
        /\ disk'[m][plan'[m]] = disk[m][MovesFrom(m)]
        /\ disk'[m][MovesFrom(m)] = disk[m][MovesFrom(m)]
    BY <1>1, <1>2, <1>4, <2>1, <2>2, <2>4, SourceStays
  <2>6. PlaceTypeOK'
    BY <1>1, <1>2, <2>2, <2>5 DEF PlaceTypeOK
  <2>7. PlanInv'
    BY <1>2, <2>2, <2>3 DEF PlanInv
  <2>8. \A v \in Vd \ {m} : /\ Remapped(v)' <=> Remapped(v)
                            /\ Kept(v)' <=> Kept(v)
                            /\ Movable(v)' <=> Movable(v)
                            /\ disk'[v][plan'[v]] = disk[v][plan[v]]
    BY <1>1, <2>2, <2>5, SameDisk
  <2>9. MoveInv'
    <3>1. /\ deploy.todo = {}
          /\ \A v \in Vd \ moves : v \in deploy.astray \/ Kept(v)
          /\ \A v \in moves : Movable(v)
          /\ \A v \in moves \ {m} : ~Remapped(v) => disk[v][plan[v]] = "none"
      BY <1>1, <1>2, <1>0 DEF MoveInv, BeingMoved
    <3>2. deploy'.todo = {} /\ moves' # {} /\ moves \subseteq Vd
      BY <1>2, <2>0, <2>2, <2>3, <3>1 DEF PlaceTypeOK, DeployRecord, moves
    <3>3. \A v \in Vd \ moves' : v \in deploy'.astray \/ Kept(v)'
      BY <2>1, <2>2, <2>3, <2>8, <3>1
    <3>4. \A v \in moves' : Movable(v)'
      BY <2>3, <2>5, <2>8, <3>1, <3>2
    <3>5. \A v \in moves' : ~Remapped(v)' /\ ~BeingMoved(v)' => disk'[v][plan'[v]] = "none"
      <4>1. BeingMoved(m)'
        BY <2>2, <2>3 DEF BeingMoved
      <4> QED BY <2>3, <2>8, <3>1, <3>2, <4>1
    <3>6. disk'[Moving'][plan'[Moving']] = disk'[Moving'][MovesFrom(Moving)']
      <4>1. MovesFrom(Moving)' = MovesFrom(m)
        BY <2>3, <2>5 DEF MovesFrom, Remapped, Found, HasContent
      <4> QED BY <2>3, <2>5, <4>1
    <3> QED BY <3>2, <3>3, <3>4, <3>5, <3>6 DEF MoveInv
  <2> QED BY <2>6, <2>7, <2>9 DEF PlaceInv
<1> QED
  BY <1>0, <1>3, <1>4 DEF EndMove

\* The source is dropped only when the target holds what it held.
LEMMA DropKept ==
    ASSUME PlaceTypeOK, NEW m \in Vd, Movable(m), plan[m] \in Host, NEW src, src = MovesFrom(m),
           disk[m][plan[m]] = disk[m][src], m \notin deploy.astray,
           disk' = [disk EXCEPT ![m][src] = "none"], plan' = plan
    PROVE  Kept(m)'
<1>1. src \in Host /\ src # plan[m]
      /\ (Remapped(m) => src = history[m])
      /\ (~Remapped(m) => Found(m) \ {plan[m]} = {src})
  BY SourceIsHost
<1>2. \A h \in Host : disk'[m][h] = IF h = src THEN "none" ELSE disk[m][h]
  BY DEF PlaceTypeOK
<1>3. disk'[m][plan[m]] = disk[m][src]
  BY <1>1, <1>2
<1> SUFFICES ASSUME \A h \in Host : disk'[m][h] # "part", \E h \in Host : disk'[m][h] = "data"
             PROVE  disk'[m][plan[m]] = "data"
  BY DEF Kept
<1>4. CASE Remapped(m)
  <2>1. disk[m][src] \in {"data", "part"}
    BY <1>1, <1>4 DEF Movable
  <2> QED BY <1>3, <2>1
<1>5. CASE ~Remapped(m)
  <2>1. \A h \in Host \ {plan[m]} : disk'[m][h] = "none"
    BY <1>1, <1>2, <1>5 DEF Found, HasContent
  <2> QED BY <2>1
<1> QED
  BY <1>4, <1>5

LEMMA DropSourceKeeps == ASSUME PlaceInv, DropSource PROVE PlaceInv'
<1>0. PICK m : m = Moving
  OBVIOUS
<1>s. PICK src : src = MovesFrom(m)
  OBVIOUS
<1>1. deploy.stage = "drop" /\ UNCHANGED <<history, runtime>>
  BY DEF DropSource, At
<1>2. PlaceTypeOK /\ PlanInv /\ MoveInv
  BY DEF PlaceInv
<1>3. CASE Fails /\ disk' \in {disk, [disk EXCEPT ![m][src] = "part"]}
  <2>1. disk' \in [Vd -> [Host -> Content]]
    BY <1>2, <1>3 DEF PlaceTypeOK, Content
  <2> QED BY <1>1, <1>2, <1>3, <2>1, FailsKeepsInv DEF PlaceTypeOK
<1>4. CASE deploy' = [deploy EXCEPT !.stage = "move", !.moves = @ \ {m}]
           /\ disk' = [disk EXCEPT ![m][src] = "none"]
  <2>0. moves # {}
    BY <1>1, <1>2 DEF MoveInv, At
  <2>1. m \in moves /\ m \in Vd /\ Movable(m) /\ plan[m] \in Host
    BY <1>0, <1>1, <2>0, MovingFacts
  <2>2. /\ deploy' \in DeployRecord(deploy'.capacity, deploy'.need) /\ deploy'.stage = "move"
        /\ deploy'.plan = deploy.plan /\ deploy'.todo = deploy.todo
        /\ deploy'.moves = deploy.moves \ {m} /\ deploy'.astray = deploy.astray
    BY <1>2, <1>4 DEF PlaceTypeOK, DeployRecord
  <2>3. plan' = plan /\ moves' = moves \ {m}
    BY <2>2 DEF plan, moves
  <2>4. /\ disk' \in [Vd -> [Host -> Content]]
        /\ \A v \in Vd \ {m} : disk'[v] = disk[v]
    BY <1>2, <1>4 DEF PlaceTypeOK, Content
  <2>5. disk[m][plan[m]] = disk[m][src]
    BY <1>0, <1>s, <1>1, <1>2 DEF MoveInv, At
  <2>6. m \notin deploy.astray => Kept(m)'
    BY <1>s, <1>2, <1>4, <2>1, <2>3, <2>5, DropKept
  <2>7. PlaceTypeOK'
    BY <1>1, <1>2, <2>2, <2>4 DEF PlaceTypeOK
  <2>8. PlanInv'
    BY <1>2, <2>2, <2>3 DEF PlanInv
  <2>9. \A v \in Vd \ {m} : /\ Remapped(v)' <=> Remapped(v)
                            /\ Kept(v)' <=> Kept(v)
                            /\ Movable(v)' <=> Movable(v)
                            /\ disk'[v][plan'[v]] = disk[v][plan[v]]
    BY <1>1, <2>2, <2>4, SameDisk
  <2>10. MoveInv'
    <3>1. /\ deploy.todo = {}
          /\ \A v \in Vd \ moves : v \in deploy.astray \/ Kept(v)
          /\ \A v \in moves : Movable(v)
          /\ \A v \in moves \ {m} : ~Remapped(v) => disk[v][plan[v]] = "none"
      BY <1>0, <1>1, <1>2 DEF MoveInv, BeingMoved
    <3>2. deploy'.todo = {} /\ moves \subseteq Vd /\ At("move")' /\ ~At("drop")'
      BY <1>2, <2>2, <3>1 DEF PlaceTypeOK, DeployRecord, moves, At
    <3>3. \A v \in Vd \ moves' : v \in deploy'.astray \/ Kept(v)'
      BY <2>2, <2>3, <2>6, <2>9, <3>1
    <3>4. \A v \in moves' : Movable(v)' /\ (~Remapped(v)' => disk'[v][plan'[v]] = "none")
      BY <2>3, <2>9, <3>1, <3>2
    <3> QED BY <3>2, <3>3, <3>4 DEF MoveInv
  <2> QED BY <2>7, <2>8, <2>10 DEF PlaceInv
<1> QED
  BY <1>0, <1>s, <1>3, <1>4 DEF DropSource

LEMMA StartVdsKeeps == ASSUME PlaceInv, StartVds PROVE PlaceInv'
<1>1. deploy.stage = "move" /\ UNCHANGED <<history, runtime>>
  BY DEF StartVds, At
<1>2. PlaceTypeOK /\ PlanInv /\ MoveInv
  BY DEF PlaceInv
<1>3. disk' \in [Vd -> [Host -> Content]]
  <2>1. \A v \in Vd : Written(v, plan[v]) \in [Host -> Content] /\ disk[v] \in [Host -> Content]
    BY <1>2, WrittenType DEF PlaceTypeOK
  <2>2. \E ran \in SUBSET Vd : disk' = [v \in Vd |-> IF v \in ran THEN Written(v, plan[v]) ELSE disk[v]]
    <3>1. CASE disk' = [v \in Vd |-> Written(v, plan[v])]
      BY <3>1
    <3> QED BY <3>1 DEF StartVds
  <2> QED BY <2>1, <2>2
<1>4. CASE Fails
  BY <1>1, <1>2, <1>3, <1>4, FailsKeepsInv DEF PlaceTypeOK
<1>5. CASE deploy' = [deploy EXCEPT !.stage = "save"]
  <2>1. /\ deploy' \in DeployRecord(deploy'.capacity, deploy'.need)
        /\ deploy'.stage = "save" /\ deploy'.todo = deploy.todo /\ deploy'.plan = deploy.plan
    BY <1>2, <1>5 DEF PlaceTypeOK, DeployRecord
  <2>2. PlaceTypeOK'
    BY <1>1, <1>2, <1>3, <2>1 DEF PlaceTypeOK
  <2> QED BY <2>1, <2>2, OutOfFlight
<1> QED
  BY <1>4, <1>5 DEF StartVds

\* The history file holds a placement, the one before it, or nothing.
LEMMA SavedType ==
    ASSUME PlaceTypeOK, NEW places \in Places, HistorySaved(places)
    PROVE  history' \in Places
BY NoDeployType DEF HistorySaved, PlaceTypeOK

LEMMA LabKeeps ==
    ASSUME PlaceInv, Save \/ Destroy \/ CutShort \/ \E v \in Vd : RemoveVd(v) \/ StartVd(v)
    PROVE  PlaceInv'
<1>1. PlaceTypeOK
  BY DEF PlaceInv
<1>2. CASE Save
  <2>1. plan \in Places
    BY <1>1 DEF PlaceTypeOK, DeployRecord, plan
  <2>2. history' \in Places
    BY <1>1, <1>2, <2>1, SavedType DEF Save
  <2> QED BY <1>1, <1>2, <2>1, <2>2, FailsKeepsInv DEF Save, PlaceTypeOK
<1>3. CASE Destroy
  <2>1. deploy.stage = "idle"
    BY <1>3 DEF Destroy, At
  <2> QED BY <1>1, <1>3, <2>1, NoDeployType, IdleKeepsInv DEF Destroy, PlaceTypeOK
<1>4. CASE CutShort
  BY <1>1, <1>4, FailsKeepsInv DEF CutShort, PlaceTypeOK
<1>5. ASSUME NEW v \in Vd, RemoveVd(v) PROVE PlaceInv'
  <2>1. deploy.stage = "idle" /\ deploy' = deploy /\ disk' = disk
        /\ runtime' = [runtime EXCEPT ![v] = NoHost] /\ HistorySaved(runtime')
    BY <1>5 DEF RemoveVd, At
  <2>2. runtime' \in Places
    BY <1>1, <2>1 DEF PlaceTypeOK, Places
  <2>3. history' \in Places
    BY <2>1, <2>2, NoDeployType, <1>1 DEF HistorySaved, PlaceTypeOK
  <2> QED BY <1>1, <2>1, <2>2, <2>3, IdleKeepsInv DEF PlaceTypeOK
<1>6. ASSUME NEW v \in Vd, StartVd(v) PROVE PlaceInv'
  <2>1. deploy.stage = "idle" /\ deploy' = deploy /\ UNCHANGED <<history, runtime>>
        /\ disk' = [disk EXCEPT ![v] = Written(v, runtime[v])]
    BY <1>6 DEF StartVd, At
  <2>2. disk' \in [Vd -> [Host -> Content]]
    BY <1>1, <2>1, WrittenType DEF PlaceTypeOK
  <2> QED BY <1>1, <2>1, <2>2, IdleKeepsInv DEF PlaceTypeOK
<1> QED
  BY <1>2, <1>3, <1>4, <1>5, <1>6

LEMMA HotAddKeeps == ASSUME PlaceInv, NEW v \in Vd, HotAdd(v) PROVE PlaceInv'
<1>1. PlaceTypeOK
  BY DEF PlaceInv
<1>2. PICK h \in Host :
        LET added == [runtime EXCEPT ![v] = h]
            run == [disk EXCEPT ![v] = Written(v, h)]
        IN  \/ disk' = run /\ runtime' = added /\ HistorySaved(added)
            \/ disk' = disk /\ runtime' = added /\ history' \in {added, history} /\ Mishap
            \/ disk' \in {disk, run} /\ UNCHANGED runtime /\ history' \in {history, Nowhere} /\ Mishap
  BY DEF HotAdd
<1> DEFINE added == [runtime EXCEPT ![v] = h]
           run == [disk EXCEPT ![v] = Written(v, h)]
<1>3. added \in Places /\ run \in [Vd -> [Host -> Content]]
  BY <1>1, WrittenType DEF PlaceTypeOK, Places
<1>4. disk' \in {disk, run} /\ runtime' \in {runtime, added} /\ history' \in {history, added, Nowhere}
  BY <1>2 DEF HistorySaved
<1>5. deploy.stage = "idle" /\ deploy' = deploy
  BY DEF HotAdd, At
<1> HIDE DEF added, run
<1> QED
  BY <1>1, <1>3, <1>4, <1>5, NoDeployType, IdleKeepsInv DEF PlaceTypeOK

LEMMA WipeKeeps == ASSUME PlaceInv, NEW S \in SUBSET Vd, Wipe(S) PROVE PlaceInv'
<1>1. PlaceTypeOK
  BY DEF PlaceInv
<1> DEFINE without == [v \in Vd |-> IF v \in S THEN NoHost ELSE history[v]]
<1>2. without \in Places
  BY <1>1 DEF PlaceTypeOK, Places
<1>3. history' \in {history, without, Nowhere}
  BY DEF Wipe, HistorySaved
<1>4. \A lost : Erased(S, lost) \in [Vd -> [Host -> Content]]
  BY <1>1 DEF Erased, PlaceTypeOK, Content
<1>5. \E lost : disk' = Erased(S, lost)
  BY DEF Wipe
<1>6. deploy.stage = "idle" /\ deploy' = deploy /\ runtime' = runtime
  BY DEF Wipe, At
<1> HIDE DEF without
<1> QED
  BY <1>1, <1>2, <1>3, <1>4, <1>5, <1>6, NoDeployType, IdleKeepsInv DEF PlaceTypeOK

LEMMA PlaceStep == PlaceInv /\ [PlacementNext]_placeVars => PlaceInv'
<1> SUFFICES ASSUME PlaceInv, [PlacementNext]_placeVars PROVE PlaceInv'
  OBVIOUS
<1>1. CASE Extract \/ CheckImages \/ Gather \/ PlaceVd \/ Prepare
  BY <1>1, ExtractKeeps, GatherKeeps, PlaceVdKeeps, PrepareKeeps
<1>2. CASE BeginMove \/ EndMove \/ DropSource \/ StartVds
  BY <1>2, BeginMoveKeeps, EndMoveKeeps, DropSourceKeeps, StartVdsKeeps
<1>3. CASE Save \/ Destroy \/ CutShort \/ \E v \in Vd : RemoveVd(v) \/ StartVd(v)
  BY <1>3, LabKeeps
<1>4. ASSUME NEW v \in Vd, HotAdd(v) PROVE PlaceInv'
  BY <1>4, HotAddKeeps
<1>5. ASSUME NEW v \in Vd, Wipe({v}) PROVE PlaceInv'
  <2>1. {v} \in SUBSET Vd
    OBVIOUS
  <2> QED BY <1>5, <2>1, WipeKeeps
<1>6. CASE Wipe(Vd)
  <2>1. Vd \in SUBSET Vd
    OBVIOUS
  <2> QED BY <1>6, <2>1, WipeKeeps
<1>7. CASE UNCHANGED placeVars
  <2>1. /\ history' = history /\ runtime' = runtime /\ disk' = disk /\ deploy' = deploy
    BY <1>7 DEF placeVars
  <2>2. PlaceTypeOK' /\ PlanInv'
    BY <2>1 DEF PlaceInv, PlaceTypeOK, PlanInv, plan
  <2>3. MoveInv'
    BY <2>1 DEF PlaceInv, MoveInv, Kept, Movable, Remapped, Found, HasContent, BeingMoved,
                Moving, MovesFrom, At, plan, moves
  <2> QED BY <2>2, <2>3 DEF PlaceInv
<1> QED
  BY <1>1, <1>2, <1>3, <1>4, <1>5, <1>6, <1>7 DEF PlacementNext

LEMMA PlaceStarts == PlacementInit => PlaceInv
<1> SUFFICES ASSUME PlacementInit PROVE PlaceInv
  OBVIOUS
<1>1. PlaceTypeOK
  <2>1. history \in Places /\ runtime \in Places /\ deploy = NoDeploy
    BY NoDeployType DEF PlacementInit
  <2>2. disk \in [Vd -> [Host -> Content]]
    BY DEF PlacementInit, Content
  <2> QED BY <2>1, <2>2, NoDeployType DEF PlaceTypeOK
<1>2. PlanInv /\ MoveInv
  BY NoDeployType DEF PlacementInit, PlanInv, MoveInv
<1> QED
  BY <1>1, <1>2 DEF PlaceInv

\* A deploy starts no VD away from its latest disk, for every topology, every set of hosts
\* and every history of failed deploys, removals, additions and wipes: once
\* _prepare_local_sticky has passed, a disk lies on the host of the plan or has one source,
\* a copy leaves the source as it is, and the source is dropped when both are the same.
\* The exceptions are those of StartsOnItsDisk: torn copies and outdated histories.
THEOREM DisksArriveFirst == PlacementSpec => []StartsOnItsDisk
<1>1. PlaceInv => StartsOnItsDisk
  <2> SUFFICES ASSUME PlaceInv, deploy.stage = "move", NEW v \in Vd \ deploy.astray,
                      \A h \in Host : disk[v][h] # "part", \E h \in Host : disk[v][h] = "data"
               PROVE  disk[v][IF v \in moves THEN MovesFrom(v) ELSE plan[v]] = "data"
    BY DEF StartsOnItsDisk, At
  <2>1. PlaceTypeOK /\ MoveInv
    BY DEF PlaceInv
  <2>2. CASE v \notin moves
    BY <2>1, <2>2 DEF MoveInv, Kept
  <2>3. CASE v \in moves
    <3>1. Movable(v) /\ (~Remapped(v) => disk[v][plan[v]] = "none")
      BY <2>1, <2>3 DEF MoveInv, BeingMoved
    <3>2. /\ MovesFrom(v) \in Host
          /\ Remapped(v) => MovesFrom(v) = history[v]
          /\ ~Remapped(v) => Found(v) \ {plan[v]} = {MovesFrom(v)}
      BY <2>1, <3>1, SourceIsHost
    <3>3. CASE Remapped(v)
      <4>1. disk[v][history[v]] \in {"data", "part"} /\ history[v] \in Host
        BY <3>1, <3>2, <3>3 DEF Movable
      <4> QED BY <2>3, <3>2, <3>3, <4>1
    <3>4. CASE ~Remapped(v)
      <4>1. PICK k \in Host : disk[v][k] = "data"
        OBVIOUS
      <4>2. k \in Found(v) \ {plan[v]}
        BY <3>1, <3>4, <4>1 DEF Found, HasContent
      <4>3. k = MovesFrom(v)
        BY <3>2, <3>4, <4>2
      <4> QED BY <2>3, <4>1, <4>3
    <3> QED BY <2>3, <3>3, <3>4
  <2> QED BY <2>2, <2>3
<1> QED
  BY <1>1, PlaceStarts, PlaceStep, PTL DEF PlacementSpec

-----------------------------------------------------------------------------
(* The plan: resources                                                     *)

SizeInv == cache \subseteq Sizes /\ deploy.need \in [Vd -> Sizes] /\ deploy.capacity \in [Host -> Sizes]

\* Before the VDs are placed the plan is empty; while they are, no host is asked for more
\* than it reported, and as long as what the history gives to the hosts fits, it is what
\* the plan follows.
RoomInv ==
    /\ deploy.stage \in {"idle", "images", "gather"} => deploy.todo = Vd /\ deploy.plan = Nowhere
    /\ deploy.stage = "place" =>
         /\ \A v \in deploy.todo : plan[v] = NoHost
         /\ \A h \in Host, f \in {"cpu", "ram"} : Remaining(h, f) >= 0
         /\ HistoryFits => \A v \in Vd \ deploy.todo : plan[v] = history[v]

LEMMA EmptyPlan ==
    ASSUME deploy' = NoDeploy, cache' \subseteq Sizes
    PROVE  SizeInv' /\ RoomInv'
<1> DEFINE c == [h \in Host |-> DefaultSize]
           n == [v \in Vd |-> DefaultSize]
<1>1. c \in [Host -> Sizes] /\ n \in [Vd -> Sizes]
  BY PlacementAssumption
<1> HIDE DEF c, n
<1>2. NoDeploy.capacity = c /\ NoDeploy.need = n /\ NoDeploy.plan = Nowhere
  BY DEF NoDeploy, c, n
<1>3. NoDeploy.stage = "idle" /\ NoDeploy.todo = Vd
  BY NoDeployType
<1> QED
  BY <1>1, <1>2, <1>3 DEF SizeInv, RoomInv

\* The resources of a VD: those its data asks for, or those of its image.
LEMMA ExtractSizes == ASSUME PlaceInv, SizeInv, Extract PROVE SizeInv' /\ RoomInv'
<1>1. PICK s : s = CHOOSE x \in cache' : TRUE
  OBVIOUS
<1>2. cache' \subseteq Sizes /\ cache' # {}
  BY PlacementAssumption DEF Extract, SizeInv, LaunchSizes
<1>3. s \in Sizes
  BY <1>1, <1>2
<1> DEFINE n == [v \in Vd |-> Asks(v, s)]
           d == [NoDeploy EXCEPT !.stage = "images", !.need = n]
           R == [stage : {"idle", "images"}, capacity : {NoDeploy.capacity},
                 need : {n, NoDeploy.need}, todo : SUBSET Vd, plan : {NoDeploy.plan},
                 moves : SUBSET Vd, astray : SUBSET Vd]
<1>4. n \in [Vd -> Sizes]
  BY <1>3, PlacementAssumption DEF Asks
<1>5. deploy' = d
  BY <1>1 DEF Extract
<1> HIDE DEF n
<1>6. NoDeploy \in R
  BY NoDeployType DEF DeployRecord
<1>7. d.stage = "images" /\ d.need = n /\ d.todo = Vd /\ d.capacity = NoDeploy.capacity
      /\ d.plan = NoDeploy.plan
  BY <1>6, NoDeployType
<1> HIDE DEF d
<1>8. NoDeploy.capacity \in [Host -> Sizes]
  BY PlacementAssumption DEF NoDeploy
<1>9. NoDeploy.plan = Nowhere
  BY DEF NoDeploy
<1> QED
  BY <1>2, <1>4, <1>5, <1>7, <1>8, <1>9 DEF SizeInv, RoomInv

LEMMA GatherRoom ==
    ASSUME PlaceInv, SizeInv, RoomInv, CheckImages \/ Gather PROVE SizeInv' /\ RoomInv'
<1>1. /\ cache' = cache /\ cache' \subseteq Sizes
      /\ deploy \in DeployRecord(deploy.capacity, deploy.need)
      /\ deploy.todo = Vd /\ deploy.plan = Nowhere
  BY DEF CheckImages, Gather, At, SizeInv, RoomInv, PlaceInv, PlaceTypeOK
<1>2. CASE Fails
  BY <1>1, <1>2, EmptyPlan DEF Fails
<1>3. CASE deploy' = [deploy EXCEPT !.stage = "gather"]
  <2>1. deploy'.stage = "gather" /\ deploy'.todo = deploy.todo /\ deploy'.plan = deploy.plan
        /\ deploy'.need = deploy.need /\ deploy'.capacity = deploy.capacity
    BY <1>1, <1>3 DEF DeployRecord
  <2> QED BY <1>1, <2>1 DEF SizeInv, RoomInv
<1>4. ASSUME NEW c \in Capacities, deploy' = [deploy EXCEPT !.stage = "place", !.capacity = c]
      PROVE  SizeInv' /\ RoomInv'
  <2>1. deploy'.stage = "place" /\ deploy'.todo = Vd /\ deploy'.plan = Nowhere
        /\ deploy'.need = deploy.need /\ deploy'.capacity = c
    BY <1>1, <1>4 DEF DeployRecord
  <2>2. c \in [Host -> Sizes]
    BY PlacementAssumption
  <2>3. SizeInv'
    BY <1>1, <2>1, <2>2 DEF SizeInv
  <2>4. \A v \in Vd : plan'[v] = NoHost
    BY <2>1 DEF plan, Nowhere
  <2>5. ASSUME NEW h \in Host, NEW f \in {"cpu", "ram"} PROVE Remaining(h, f)' >= 0
    <3>1. Placed(h)' = {}
      BY <2>4, PlacementAssumption DEF Placed
    <3>2. Remaining(h, f)' = c[h][f] - Total(need', f, {})
      BY <2>1, <3>1 DEF Remaining
    <3>3. Total(need', f, {}) = 0
      BY FS_EmptySet, TotalPicks
    <3>4. c[h][f] \in Nat
      BY <2>2 DEF Sizes
    <3> QED BY <3>2, <3>3, <3>4
  <2> QED BY <2>1, <2>3, <2>4, <2>5 DEF RoomInv
<1> QED
  BY <1>2, <1>3, <1>4 DEF CheckImages, Gather

\* The VDs are sorted by weight, then as in the topology: the first one exists.
LEMMA NextVdIsNext ==
    ASSUME PlaceInv, SizeInv, deploy.todo # {}
    PROVE  NextVd \in deploy.todo
<1> DEFINE D == deploy.todo
           Above(v, w) == Weight(v) > Weight(w) \/ (Weight(v) = Weight(w) /\ v < w)
           First(v, T) == \A w \in T \ {v} : Above(v, w)
           P == {T \in SUBSET D : T # {} => \E v \in T : First(v, T)}
<1>1. D \in SUBSET Vd /\ D \subseteq Nat /\ IsFiniteSet(D)
  <2>1. D \in SUBSET Vd
    BY DEF PlaceInv, PlaceTypeOK, DeployRecord
  <2> QED BY <2>1, FS_Subset, PlacementAssumption
<1>2. \A v \in D : v \in Nat /\ Weight(v) \in Nat
  <2>1. ASSUME NEW v \in D PROVE Weight(v) \in Nat
    <3>1. need[v].cpu \in Nat /\ need[v].ram \in Nat
      BY <1>1 DEF SizeInv, need, Sizes
    <3>2. \A a, b \in Nat : a * b \in Nat
      OBVIOUS
    <3> QED BY <3>1, <3>2 DEF Weight
  <2> QED BY <1>1, <2>1
<1> HIDE DEF D
<1>3. ASSUME NEW T \in SUBSET D, \A U \in (SUBSET T) \ {T} : U \in P PROVE T \in P
  <2> SUFFICES ASSUME T # {} PROVE \E v \in T : First(v, T)
    OBVIOUS
  <2>1. PICK x \in T : TRUE
    OBVIOUS
  <2>2. CASE T = {x}
    BY <2>2
  <2>3. CASE T # {x}
    <3>1. T \ {x} \in P /\ T \ {x} # {}
      BY <1>3, <2>1, <2>3
    <3>2. PICK y \in T \ {x} : First(y, T \ {x})
      BY <3>1
    <3>3. x \in D /\ y \in D /\ x # y /\ x \in Nat /\ y \in Nat /\ Weight(x) \in Nat /\ Weight(y) \in Nat
      BY <1>2, <2>1, <3>2
    <3>4. CASE Above(y, x)
      <4>1. \A w \in T \ {y} : Above(y, w)
        <5> HIDE DEF Above
        <5> QED BY <3>2, <3>4
      <4> QED BY <3>2, <4>1
    <3>5. CASE ~Above(y, x)
      <4>1. Above(x, y)
        BY <3>3, <3>5
      <4>2. ASSUME NEW w \in T \ {x} PROVE Above(x, w)
        <5>1. CASE w = y
          BY <4>1, <5>1
        <5>2. CASE w # y
          <6>1. Above(y, w)
            <7> HIDE DEF Above
            <7> QED BY <3>2, <5>2
          <6>2. w \in Nat /\ Weight(w) \in Nat
            BY <1>2
          <6> QED BY <3>3, <4>1, <6>1, <6>2
        <5> QED BY <5>1, <5>2
      <4>3. First(x, T)
        BY <4>2
      <4> QED BY <2>1, <4>3
    <3> QED BY <3>4, <3>5
  <2> QED BY <2>2, <2>3
<1>4. D \in P
  <2> HIDE DEF P
  <2>1. P \in SUBSET (SUBSET D)
    BY DEF P
  <2> QED BY <1>1, <1>3, <2>1, SubsetInduction
<1>5. \E v \in D : First(v, D)
  BY <1>4 DEF D
<1> QED
  BY <1>5 DEF NextVd, D

\* The hosts a VD may be placed on have room for it.
LEMMA BestHostFits ==
    ASSUME NEW v, NEW h \in BestHost(v)
    PROVE  h \in Host /\ CanFit(v, h)
<1>1. \A k \in Candidates(v) : k \in Host /\ CanFit(v, k)
  BY DEF Candidates
<1>2. \A k \in Best(Candidates(v)) : k \in Candidates(v)
  BY DEF Best
<1> QED
  BY <1>1, <1>2 DEF BestHost

\* What the VDs that are placed on a host, and the next one, ask of it is no more than
\* what the history gives to it.
LEMMA HistoryHostFits ==
    ASSUME PlaceInv, SizeInv, RoomInv, At("place"), HistoryFits, NEW n \in deploy.todo
    PROVE  history[n] \in Host /\ CanFit(n, history[n])
<1> DEFINE k == history[n]
           S == {v \in Vd : history[v] = k}
<1>1. n \in Vd /\ history \in Places
  BY DEF PlaceInv, PlaceTypeOK, DeployRecord
<1>2. k \in Host
  BY <1>1 DEF HistoryFits, Places
<1>3. S \in SUBSET Vd /\ IsFiniteSet(S) /\ n \in S
  BY <1>1, FS_Subset, PlacementAssumption
<1>4. Placed(k) \in SUBSET (S \ {n})
  <2>1. /\ \A v \in deploy.todo : plan[v] = NoHost
        /\ \A v \in Vd \ deploy.todo : plan[v] = history[v]
    BY DEF RoomInv, At
  <2> QED BY <1>2, <2>1, PlacementAssumption DEF Placed
<1> HIDE DEF S
<1>5. ASSUME NEW f \in {"cpu", "ram"} PROVE need[n][f] <= Remaining(k, f)
  <2> DEFINE t(T) == Total(need, f, T)
  <2>1. \A v \in Vd : need[v][f] \in Nat
    BY DEF SizeInv, need, Sizes
  <2>2. IsFiniteSet(S \ {n}) /\ SizedOn(need, f, S) /\ SizedOn(need, f, S \ {n})
    BY <1>3, <2>1, FS_Subset DEF SizedOn
  <2>3. t(S) = need[n][f] + t(S \ {n})
    BY <1>3, <2>2, TotalTakesOut
  <2>4. t(Placed(k)) <= t(S \ {n})
    BY <1>4, <2>2, TotalMonotone
  <2>5. t(S) <= deploy.capacity[k][f]
    BY <1>2 DEF HistoryFits, S
  <2>6. t(S \ {n}) \in Nat /\ need[n][f] \in Nat
    BY <1>1, <2>1, <2>2, TotalType
  <2>7. t(Placed(k)) \in Nat
    <3>1. IsFiniteSet(Placed(k)) /\ SizedOn(need, f, Placed(k))
      BY <1>4, <2>2, FS_Subset DEF SizedOn
    <3> QED BY <3>1, TotalType
  <2>8. deploy.capacity[k][f] \in Nat
    BY <1>2 DEF SizeInv, Sizes
  <2>9. Remaining(k, f) = deploy.capacity[k][f] - t(Placed(k))
    BY DEF Remaining
  <2> HIDE DEF t, k
  <2> QED BY <2>3, <2>4, <2>5, <2>6, <2>7, <2>8, <2>9
<1> QED
  BY <1>2, <1>5 DEF CanFit

LEMMA PlaceVdRoom == ASSUME PlaceInv, SizeInv, RoomInv, PlaceVd PROVE SizeInv' /\ RoomInv'
<1>1. /\ At("place") /\ deploy.todo # {} /\ cache' = cache /\ history' = history
      /\ deploy \in DeployRecord(deploy.capacity, deploy.need) /\ history \in Places
  BY DEF PlaceVd, PlaceInv, PlaceTypeOK
<1>2. CASE Fails
  BY <1>1, <1>2, EmptyPlan DEF Fails, SizeInv
<1>3. ASSUME NEW h \in BestHost(NextVd),
             deploy' = [deploy EXCEPT !.plan[NextVd] = h, !.todo = @ \ {NextVd}]
      PROVE  SizeInv' /\ RoomInv'
  <2>0. PICK n : n = NextVd
    OBVIOUS
  <2> DEFINE q == [deploy.plan EXCEPT ![n] = h]
  <2>1. n \in deploy.todo /\ n \in Vd
    BY <1>1, <2>0, NextVdIsNext DEF DeployRecord
  <2>2. h \in Host /\ CanFit(n, h)
    BY <1>3, <2>0, BestHostFits
  <2>3. \A v \in Vd : q[v] = IF v = n THEN h ELSE deploy.plan[v]
    BY <1>1, <2>1 DEF DeployRecord, Places
  <2>4. deploy' = [deploy EXCEPT !.plan = q, !.todo = deploy.todo \ {n}]
    BY <1>3, <2>0
  <2> HIDE DEF q
  <2>5. /\ deploy'.stage = "place" /\ deploy'.plan = q /\ deploy'.todo = deploy.todo \ {n}
        /\ deploy'.need = deploy.need /\ deploy'.capacity = deploy.capacity
    BY <1>1, <2>4 DEF DeployRecord, At
  <2>6. SizeInv'
    BY <1>1, <2>5 DEF SizeInv
  <2>7. need' = need /\ \A v \in Vd : plan'[v] = IF v = n THEN h ELSE plan[v]
    BY <2>3, <2>5 DEF need, plan
  <2>8. \A v \in deploy.todo : plan[v] = NoHost
    BY <1>1 DEF RoomInv, At
  <2>9. \A v \in deploy'.todo : plan'[v] = NoHost
    <3>1. deploy.todo \in SUBSET Vd
      BY <1>1 DEF DeployRecord
    <3> QED BY <2>5, <2>7, <2>8, <3>1
  <2>10. ASSUME NEW k \in Host, NEW f \in {"cpu", "ram"} PROVE Remaining(k, f)' >= 0
    <3>0. Remaining(k, f) >= 0 /\ plan[n] # k
      BY <1>1, <2>1, <2>8, PlacementAssumption DEF RoomInv, At
    <3>1. Remaining(k, f)' = deploy.capacity[k][f] - Total(need, f, Placed(k)')
      BY <2>5, <2>7 DEF Remaining
    <3>2. CASE k # h
      <4>1. Placed(k)' = Placed(k)
        BY <2>1, <2>7, <3>0, <3>2 DEF Placed
      <4> QED BY <3>0, <3>1, <4>1 DEF Remaining
    <3>3. CASE k = h
      <4>1. Placed(k)' \ {n} = Placed(k) /\ n \in Placed(k)' /\ Placed(k)' \in SUBSET Vd
        BY <2>1, <2>7, <3>0, <3>3 DEF Placed
      <4>2. IsFiniteSet(Placed(k)') /\ IsFiniteSet(Placed(k))
        BY <4>1, FS_Subset, PlacementAssumption DEF Placed
      <4>3. \A v \in Vd : need[v][f] \in Nat
        BY DEF SizeInv, need, Sizes
      <4>4. SizedOn(need, f, Placed(k)') /\ SizedOn(need, f, Placed(k))
        BY <4>1, <4>3 DEF SizedOn
      <4>5. Total(need, f, Placed(k)') = need[n][f] + Total(need, f, Placed(k))
        BY <4>1, <4>2, <4>4, TotalTakesOut
      <4>6. Total(need, f, Placed(k)) \in Nat /\ need[n][f] \in Nat /\ deploy.capacity[k][f] \in Nat
        BY <2>1, <4>2, <4>3, <4>4, TotalType DEF SizeInv, Sizes
      <4>7. need[n][f] <= deploy.capacity[k][f] - Total(need, f, Placed(k))
        BY <2>2, <3>3 DEF CanFit, Remaining
      <4> HIDE DEF Total
      <4> QED BY <3>1, <4>5, <4>6, <4>7
    <3> QED BY <3>2, <3>3
  <2>11. ASSUME HistoryFits', NEW v \in Vd \ deploy'.todo PROVE plan'[v] = history'[v]
    <3>1. HistoryFits
      BY <1>1, <2>5, <2>7, <2>11 DEF HistoryFits
    <3>2. CASE v = n
      <4>1. history[n] \in Host /\ CanFit(n, history[n])
        BY <1>1, <2>1, <3>1, HistoryHostFits
      <4>2. h = history[n]
        BY <1>3, <2>0, <4>1 DEF BestHost
      <4> QED BY <1>1, <2>7, <3>2, <4>2
    <3>3. CASE v # n
      <4>1. plan[v] = history[v]
        BY <1>1, <2>5, <2>11, <3>1, <3>3 DEF RoomInv, At
      <4> QED BY <1>1, <2>7, <3>3, <4>1
    <3> QED BY <3>2, <3>3
  <2> QED BY <2>5, <2>6, <2>9, <2>10, <2>11 DEF RoomInv
<1> QED
  BY <1>2, <1>3 DEF PlaceVd

\* After the plan, a deploy keeps what the hosts reported and the VDs ask for.
LEMMA LaterRoom ==
    ASSUME PlaceInv, SizeInv, RoomInv,
           Prepare \/ BeginMove \/ EndMove \/ DropSource \/ StartVds \/ Save \/ CutShort
    PROVE  SizeInv' /\ RoomInv'
<1>1. cache' = cache /\ cache' \subseteq Sizes
      /\ deploy \in DeployRecord(deploy.capacity, deploy.need)
  BY DEF Prepare, BeginMove, EndMove, DropSource, StartVds, Save, CutShort, SizeInv, PlaceInv,
         PlaceTypeOK
<1>2. CASE Fails
  BY <1>1, <1>2, EmptyPlan DEF Fails
<1>3. ASSUME deploy'.stage \in {"move", "copy", "drop", "save"},
             deploy'.need = deploy.need, deploy'.capacity = deploy.capacity
      PROVE  SizeInv' /\ RoomInv'
  BY <1>1, <1>3 DEF SizeInv, RoomInv
<1>4. CASE Prepare
  <2> DEFINE M == {v \in Vd : Migrates(v)}
             A == {v \in Vd : Astray(v)}
  <2>1. Fails \/ deploy' = [deploy EXCEPT !.stage = "move", !.moves = M, !.astray = A]
    BY <1>4 DEF Prepare
  <2> HIDE DEF M, A
  <2> QED BY <1>1, <1>2, <1>3, <2>1 DEF DeployRecord
<1>5. CASE BeginMove
  BY <1>1, <1>3, <1>5 DEF BeginMove, DeployRecord
<1>6. CASE EndMove
  BY <1>1, <1>2, <1>3, <1>6 DEF EndMove, DeployRecord
<1>7. CASE DropSource
  BY <1>1, <1>2, <1>3, <1>7 DEF DropSource, DeployRecord
<1>8. CASE StartVds
  BY <1>1, <1>2, <1>3, <1>8 DEF StartVds, DeployRecord
<1> QED
  BY <1>2, <1>4, <1>5, <1>6, <1>7, <1>8 DEF Save, CutShort, Prepare, BeginMove, EndMove, DropSource,
     StartVds

\* Whatever happens between the deploys leaves the empty plan alone.
LEMMA IdleRoom ==
    ASSUME SizeInv, RoomInv, cache' = cache, deploy' = deploy, At("idle") \/ history' = history
    PROVE  SizeInv' /\ RoomInv'
<1>1. SizeInv'
  BY DEF SizeInv
<1>2. need' = need /\ plan' = plan /\ (deploy'.stage = "place" => history' = history)
  BY DEF need, plan, At
<1>3. \A h \in Host, f \in {"cpu", "ram"} : Remaining(h, f)' = Remaining(h, f)
  BY <1>2 DEF Remaining, Placed
<1>4. deploy'.stage = "place" => (HistoryFits' => HistoryFits)
  BY <1>2 DEF HistoryFits
<1> QED
  BY <1>1, <1>2, <1>3, <1>4 DEF RoomInv

LEMMA RoomStep == PlaceInv /\ SizeInv /\ RoomInv /\ [PlacementNext]_placeVars => SizeInv' /\ RoomInv'
<1> SUFFICES ASSUME PlaceInv, SizeInv, RoomInv, [PlacementNext]_placeVars
             PROVE  SizeInv' /\ RoomInv'
  OBVIOUS
<1>1. CASE Extract \/ CheckImages \/ Gather \/ PlaceVd
  BY <1>1, ExtractSizes, GatherRoom, PlaceVdRoom
<1>2. CASE Prepare \/ BeginMove \/ EndMove \/ DropSource \/ StartVds \/ Save \/ CutShort
  BY <1>2, LaterRoom
<1>3. CASE Destroy \/ (\E v \in Vd : RemoveVd(v) \/ StartVd(v) \/ HotAdd(v) \/ Wipe({v})) \/ Wipe(Vd)
  <2>1. cache' = cache /\ deploy' = deploy /\ (At("idle") \/ history' = history)
    BY <1>3 DEF Destroy, RemoveVd, StartVd, HotAdd, Wipe
  <2> QED BY <2>1, IdleRoom
<1>4. CASE UNCHANGED placeVars
  <2>1. cache' = cache /\ deploy' = deploy /\ history' = history
    BY <1>4 DEF placeVars
  <2> QED BY <2>1, IdleRoom
<1> QED
  BY <1>1, <1>2, <1>3, <1>4 DEF PlacementNext

\* A complete plan of compute_schedule asks no host for more than it reported, and leaves
\* every VD where the history has it as long as the hosts can hold that, for every lab,
\* every set of hosts, every size of the VDs and whatever the hosts report: in the order of
\* the weights, the VDs placed on a host so far and the next one are among those that the
\* history gives to it, so that they fit when those do.
THEOREM PlansKeepHistory == PlacementSpec => []PlanKeepsHistory
<1>1. PlacementInit => SizeInv /\ RoomInv
  <2> SUFFICES ASSUME PlacementInit PROVE SizeInv /\ RoomInv
    OBVIOUS
  <2>1. deploy = NoDeploy /\ cache = {}
    BY DEF PlacementInit
  <2> DEFINE c == [h \in Host |-> DefaultSize]
             n == [v \in Vd |-> DefaultSize]
  <2>2. c \in [Host -> Sizes] /\ n \in [Vd -> Sizes]
    BY PlacementAssumption
  <2> HIDE DEF c, n
  <2>3. NoDeploy.capacity = c /\ NoDeploy.need = n /\ NoDeploy.plan = Nowhere
    BY DEF NoDeploy, c, n
  <2> QED BY <2>1, <2>2, <2>3, NoDeployType DEF SizeInv, RoomInv
<1>2. PlaceInv /\ SizeInv /\ RoomInv => PlanKeepsHistory
  <2> SUFFICES ASSUME PlaceInv, SizeInv, RoomInv, deploy.stage = "place", deploy.todo = {}
               PROVE  /\ \A h \in Host, f \in {"cpu", "ram"} : Remaining(h, f) >= 0
                      /\ HistoryFits => plan = history
    BY DEF PlanKeepsHistory, At
  <2>1. plan \in Places /\ history \in Places
    BY DEF PlaceInv, PlaceTypeOK, DeployRecord, plan
  <2>2. HistoryFits => \A v \in Vd : plan[v] = history[v]
    BY DEF RoomInv
  <2>3. HistoryFits => plan = history
    BY <2>1, <2>2 DEF Places
  <2> QED BY <2>3 DEF RoomInv
<1> QED
  BY <1>1, <1>2, PlaceStarts, PlaceStep, RoomStep, PTL DEF PlacementSpec

-----------------------------------------------------------------------------
(* The services together *)

LEMMA ServicesStartAlone ==
    ServicesInit => BuildInit /\ RelayInit /\ SyncInit /\ PlacementInit /\ AddressInit
BY DEF ServicesInit

LEMMA ServicesMoveAlone ==
    ASSUME [ServicesNext]_servicesVars
    PROVE  /\ [BuildNext]_buildVars /\ [RelayNext]_relayVars /\ [SyncNext]_syncVars
           /\ [PlacementNext]_placeVars /\ [AddressNext]_addrVars
<1>1. CASE UNCHANGED servicesVars
  BY <1>1 DEF servicesVars
<1>2. CASE ServicesNext
  BY <1>2 DEF ServicesNext
<1> QED BY <1>1, <1>2

\* A behaviour of the services is one of each of them: the steps of the others stutter.
THEOREM ServicesImplementTheirParts ==
    ServicesSpec => /\ BuildSpec /\ RelaySpec /\ SyncSpec
                    /\ PlacementSpec /\ AddressSpec
BY ServicesStartAlone, ServicesMoveAlone, PTL
   DEF ServicesSpec, BuildSpec, RelaySpec, SyncSpec, PlacementSpec, AddressSpec

\* What was proved of the parts is true of the services together: builds, consoles, image
\* passes, disks, plans and addresses.
THEOREM ServicesAreSafe ==
    ServicesSpec => /\ []ActiveIsWorkedOn /\ []SuccessHasImage /\ []DirectoryIsClean
                    /\ BuildsImplementJobs /\ []OneUpstream /\ []OutputIsUnbroken
                    /\ []ChangeIsNoticed /\ []StartsOnItsDisk
                    /\ []PlanKeepsHistory /\ AddressesStay
BY ServicesImplementTheirParts, ActiveJobsAreWorkedOn, SuccessesHaveImages, DirectoryStaysClean,
   ServiceImplementsJobs, ConsoleIsSingle, OutputStaysUnbroken, ChangesAreNoticed,
   DisksArriveFirst, PlansKeepHistory, AddressesAreSticky
=============================================================================
