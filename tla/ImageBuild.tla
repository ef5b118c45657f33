----------------------------- MODULE ImageBuild -----------------------------
(***************************************************************************)
(* The image build service (src/src/image-build): the jobs of its API, the *)
(* build script that a job runs in a process of its own, and what a        *)
(* restart makes of all that.  Logs are left out.                          *)
(*                                                                         *)
(* Nothing serialises jobs: two of them may build in one vrnetlab          *)
(* directory at the same time.  A source is an upload (its directory has a *)
(* random name, so it is used by one upload only) or a remote reference.   *)
(***************************************************************************)
EXTENDS Naturals, FiniteSets, FiniteSetsExt

CONSTANTS
    BuildJob,   \* identifiers of jobs, each used once (secrets.token_hex)
    Upload,     \* sources that are uploaded files
    Remote,     \* sources that are references of remote images
    Kind,       \* kinds of devices
    KindClass,  \* KindClass[k]: "self", "native" or "vrnetlab"
    Patchable,  \* kinds that have a module in patches/
    VrDir,      \* VrDir[k]: the directory of k below the vrnetlab root, or "none"
    FileName,   \* FileName[u]: the name of an uploaded file
    Fits,       \* Fits[k]: names that match the glob and the version of k
    MaxRestarts \* bound on restarts

ASSUME BuildAssumption ==
    /\ KindClass \in [Kind -> {"self", "native", "vrnetlab"}]
    /\ Patchable \subseteq Kind
    /\ Upload \cap Remote = {}
    /\ MaxRestarts \in Nat

VARIABLES
    upload,     \* upload[u]: "none", "torn" (the client went away), "stored" or "gone"
    req,        \* req[j]: kind and source of the job, the arguments of its process
    job,        \* job[j]: the status of j in _jobs, or "none"
    saved,      \* saved[j]: the status in the state file, or "none"
    task,       \* task[j]: "new" (not begun), "awaits" (its process) or "none"
    proc,       \* proc[j]: where the process of j is, its exit, or "none"
    broken,     \* (auxiliary) jobs a write of which failed since the service started
    used,       \* identifiers of jobs that were created
    copied,     \* files <<directory, name>> in the vrnetlab tree
    leftover,   \* those of them that no process will remove any more
    image,      \* tags the docker daemon has
    restarts

buildVars == <<upload, req, job, saved, task, proc, broken, used, copied, leftover, image, restarts>>

NoSource == "none"
Source == Upload \cup Remote \cup {NoSource}
Active == {"queued", "running"}
Ended == {"success", "failed"}
NoRequest == [kind |-> "none", source |-> NoSource]

-----------------------------------------------------------------------------
(* Requests.                                                               *)

\* _validate_image_filename with _makefile_version_for: the name matches the
\* glob of the kind and lets its Makefile extract a version.
FilenameFits(k, s) == s \in Upload /\ FileName[s] \in Fits[k]

\* _validate_image_format.  A kind without a directory is let through here and
\* refused by the script.
Accepted(k, s) ==
    CASE KindClass[k] = "self" -> s = NoSource
      [] KindClass[k] = "native" -> s # NoSource
      [] OTHER -> s \in Upload /\ (VrDir[k] = "none" \/ FilenameFits(k, s))

\* A client knows the path of an upload that was answered; nothing checks that
\* the file still exists when a job is created.
Known(s) == s \in Upload => upload[s] \in {"stored", "gone"}

UploadImage(u) ==
    /\ upload[u] = "none"
    /\ \E end \in {"stored", "torn"} : upload' = [upload EXCEPT ![u] = end]
    /\ UNCHANGED <<req, job, saved, task, proc, broken, used, copied, leftover, image, restarts>>

\* create_job: the job enters _jobs, _save_job may raise, and only then the
\* task is made.
CreateJob(j, k, s) ==
    /\ j \notin used /\ used' = used \cup {j}
    /\ Known(s) /\ Accepted(k, s)
    /\ req' = [req EXCEPT ![j] = [kind |-> k, source |-> s]]
    /\ job' = [job EXCEPT ![j] = "queued"]
    /\ \/ /\ saved' = [saved EXCEPT ![j] = "queued"]
          /\ task' = [task EXCEPT ![j] = "new"]
          /\ UNCHANGED broken
       \/ broken' = broken \cup {j} /\ UNCHANGED <<saved, task>>
    /\ UNCHANGED <<upload, proc, copied, leftover, image, restarts>>

\* clear_jobs: finished jobs leave the table and their files are removed, one
\* after the other; a file that cannot be removed ends the request.
Clearable == {j \in BuildJob : job[j] \in Ended}

ClearJobs ==
    /\ Clearable # {}
    /\ \E gone, stuck \in SUBSET Clearable :
         /\ IF stuck = {} THEN gone = Clearable ELSE \E j \in Clearable \ gone : stuck = {j}
         /\ job' = [j \in BuildJob |-> IF j \in gone \cup stuck THEN "none" ELSE job[j]]
         /\ saved' = [j \in BuildJob |-> IF j \in gone THEN "none" ELSE saved[j]]
    /\ UNCHANGED <<upload, req, task, proc, broken, used, copied, leftover, image, restarts>>

-----------------------------------------------------------------------------
(* The task of a job and the build script it runs.                         *)

HasPatch(j) == req[j].kind \in Patchable

\* KIND_VRNETLAB_DIR and the copy of the source in the directory of the kind.
Dest(j) == <<VrDir[req[j].kind], FileName[req[j].source]>>

\* _docker_tag_for: the tag of a vrnetlab build comes from directory and name,
\* that of a pulled image is its reference.
Tag(j) == CASE KindClass[req[j].kind] = "self" -> <<VrDir[req[j].kind], "self">>
            [] KindClass[req[j].kind] = "native" -> <<"remote", req[j].source>>
            [] OTHER -> Dest(j)

Patched(tag) == <<tag[1], tag[2], "dnlab">>

\* make docker-image builds every matching file of the directory (external);
\* self-building kinds have no file.
MakeTags(j) == IF KindClass[req[j].kind] = "vrnetlab"
               THEN {f \in copied : f[1] = VrDir[req[j].kind]}
               ELSE {Tag(j)}

SourceMissing(j) == req[j].source \in Upload /\ upload[req[j].source] # "stored"

\* _cleanup_uploaded_source removes the directory of an upload.
Cleaned(s) == IF s \in Upload THEN [upload EXCEPT ![s] = "gone"] ELSE upload

\* The end of _run_job.  The status, the `finally` with its _save_job and the
\* cleanup of the source follow one another without an await; if the write fails
\* the source stays.
Ends(j, end, written) ==
    /\ job' = [job EXCEPT ![j] = end]
    /\ saved' = IF written THEN [saved EXCEPT ![j] = end] ELSE saved
    /\ upload' = IF written THEN Cleaned(req[j].source) ELSE upload
    /\ task' = [task EXCEPT ![j] = "none"]
    /\ broken' = IF written /\ end \in Ended THEN broken ELSE broken \cup {j}

\* The task begins: the status, its save and the first line of the log are before
\* the `try`, and a write that fails ends the task with nothing else done.
RunJob(j) ==
    /\ task[j] = "new"
    /\ job' = [job EXCEPT ![j] = "running"]
    /\ \/ /\ saved' = [saved EXCEPT ![j] = "running"]
          /\ task' = [task EXCEPT ![j] = "awaits"]
          /\ UNCHANGED broken
       \/ /\ saved' \in {saved, [saved EXCEPT ![j] = "running"]}
          /\ task' = [task EXCEPT ![j] = "none"]
          /\ broken' = broken \cup {j}
    /\ UNCHANGED <<upload, req, proc, used, copied, leftover, image, restarts>>

StartProcess(j) ==
    /\ task[j] = "awaits" /\ proc[j] = "none"
    /\ proc' = [proc EXCEPT ![j] = "check"]
    /\ UNCHANGED <<upload, req, job, saved, task, broken, used, copied, leftover, image, restarts>>

\* The output has ended and the process has its exit status.
JobEnds(j) ==
    /\ task[j] = "awaits" /\ proc[j] \in Ended
    /\ \E written \in BOOLEAN : Ends(j, proc[j], written)
    /\ proc' = [proc EXCEPT ![j] = "none"]
    /\ UNCHANGED <<req, used, copied, leftover, image, restarts>>

\* `except Exception`: the process cannot be started, a line of output is too
\* long or cannot be appended to the log.  The handler leaves the process alone
\* and may fail itself, with the job still running.
JobFails(j) ==
    /\ task[j] = "awaits"
    /\ \E end \in {"failed", "running"}, written \in BOOLEAN : Ends(j, end, written)
    /\ UNCHANGED <<req, proc, used, copied, leftover, image, restarts>>

\* A step of the process, which goes on when nobody reads its output any more
Goes(j, step) ==
    /\ proc' = [proc EXCEPT ![j] = step]
    /\ UNCHANGED <<upload, req, job, saved, task, broken, used, restarts>>

\* cmd_build up to the copy: the file may be gone, the kind without directory,
\* the name taken in the directory.
CheckSource(j) ==
    /\ proc[j] = "check"
    /\ IF KindClass[req[j].kind] # "vrnetlab"
       THEN Goes(j, "make")
       ELSE IF SourceMissing(j) \/ VrDir[req[j].kind] = "none" \/ Dest(j) \in copied
            THEN Goes(j, "failed")
            ELSE Goes(j, "copy")
    /\ UNCHANGED <<copied, leftover, image>>

\* shutil.copy2: the file appears at once and is complete later; the source can
\* be gone by now.  A copy that fails half way (a full disk) is before the `try`
\* whose `finally` removes it.
StartCopy(j) ==
    /\ proc[j] = "copy"
    /\ IF SourceMissing(j)
       THEN Goes(j, "failed") /\ UNCHANGED copied
       ELSE Goes(j, "copying") /\ copied' = copied \cup {Dest(j)}
    /\ UNCHANGED <<leftover, image>>

EndCopy(j) ==
    /\ proc[j] = "copying"
    /\ \/ Goes(j, "make") /\ UNCHANGED leftover
       \/ Goes(j, "failed") /\ leftover' = leftover \cup (copied \cap {Dest(j)})
    /\ UNCHANGED <<copied, image>>

\* (mutant) the copy is removed on the way to the patch only
MakeCleansOnSuccess(j) ==
    /\ proc[j] = "make"
    /\ \/ /\ Goes(j, "patch") /\ image' = image \cup MakeTags(j)
          /\ copied' = IF KindClass[req[j].kind] = "vrnetlab" THEN copied \ {Dest(j)} ELSE copied
       \/ Goes(j, "failed") /\ UNCHANGED <<copied, image>>
    /\ UNCHANGED leftover

\* make (or docker pull) may fail, and may succeed without having built anything,
\* which a self-building kind checks at once; in each case the copy is removed, or
\* only warned about.
Make(j) ==
    LET mine == IF KindClass[req[j].kind] = "vrnetlab" THEN {Dest(j)} ELSE {}
    IN /\ proc[j] = "make"
       /\ \/ copied' = copied \ mine /\ leftover' = leftover \ mine
          \/ mine # {} /\ UNCHANGED copied /\ leftover' = leftover \cup (mine \cap copied)
       /\ \/ image' = image \cup MakeTags(j)
          \/ KindClass[req[j].kind] # "native" /\ image' = image
       /\ \/ IF HasPatch(j) THEN Goes(j, "patch")
             ELSE /\ KindClass[req[j].kind] = "self" => Tag(j) \in image'
                  /\ Goes(j, "success")
          \/ image' = image /\ Goes(j, "failed")

\* (mutant) the exit status of apply.py is ignored
ApplyUnchecked(j) ==
    /\ proc[j] = "patch" /\ Goes(j, "drop")
    /\ UNCHANGED <<copied, leftover, image>>

\* _require_built_image, and again _image_exists_locally in apply.py.
ImageBuilt(j) == Tag(j) \in image

\* The image is there, apply.py extracts and patches its files and builds the
\* patched tag; each part may fail.
ApplyPatch(j) ==
    /\ proc[j] = "patch"
    /\ \/ /\ ImageBuilt(j)
          /\ image' = image \cup {Patched(Tag(j))}
          /\ Goes(j, "drop")
       \/ Goes(j, "failed") /\ UNCHANGED image
    /\ UNCHANGED <<copied, leftover>>

\* docker rmi of the source tag (check=False), then the process ends with 0.
DropTag(j) ==
    /\ proc[j] = "drop"
    /\ image' \in {image, image \ {Tag(j)}}
    /\ Goes(j, "success")
    /\ UNCHANGED <<copied, leftover>>

-----------------------------------------------------------------------------
(* The service dies and starts again: _load_jobs.                          *)

\* (mutant) a job that was queued is loaded as it is
RunningOnly == {j \in BuildJob : saved[j] = "running"}

\* (mutant) every job that is loaded counts as interrupted
EveryLoaded == {j \in BuildJob : saved[j] # "none"}

Interrupted == {j \in BuildJob : saved[j] \in Active}

\* On shutdown the tasks that have begun are cancelled: they kill their process
\* and clean up the source unless a write fails.  A crash gives them no chance.
\* A load that cannot write what it finds keeps the service down until the next.
Cancelled == {j \in BuildJob : task[j] = "awaits"}

Restart ==
    /\ restarts < MaxRestarts /\ restarts' = restarts + 1
    /\ \E clean \in SUBSET Cancelled :
         upload' = [u \in Upload |-> IF \E j \in clean : req[j].source = u THEN "gone" ELSE upload[u]]
    /\ leftover' = copied
    /\ task' = [j \in BuildJob |-> "none"]
    /\ proc' = [j \in BuildJob |-> "none"]
    /\ saved' = [j \in BuildJob |-> IF j \in Interrupted THEN "failed" ELSE saved[j]]
    /\ job' = saved'
    /\ broken' = {}
    /\ UNCHANGED <<req, used, copied, image>>

-----------------------------------------------------------------------------
BuildInit ==
    /\ upload = [u \in Upload |-> "none"]
    /\ req = [j \in BuildJob |-> NoRequest]
    /\ job = [j \in BuildJob |-> "none"]
    /\ saved = [j \in BuildJob |-> "none"]
    /\ task = [j \in BuildJob |-> "none"]
    /\ proc = [j \in BuildJob |-> "none"]
    /\ broken = {} /\ used = {} /\ restarts = 0
    /\ copied = {} /\ leftover = {} /\ image = {}

BuildNext ==
    \/ \E u \in Upload : UploadImage(u)
    \/ \E j \in BuildJob, k \in Kind, s \in Source : CreateJob(j, k, s)
    \/ ClearJobs
    \/ \E j \in BuildJob :
         \/ RunJob(j) \/ StartProcess(j) \/ JobEnds(j) \/ JobFails(j)
         \/ CheckSource(j) \/ StartCopy(j) \/ EndCopy(j) \/ Make(j) \/ ApplyPatch(j) \/ DropTag(j)
    \/ Restart

BuildSpec == BuildInit /\ [][BuildNext]_buildVars

-----------------------------------------------------------------------------
(* Properties.                                                             *)

\* A job that the table shows as queued or running is worked on, and only such a
\* job is.  The exceptions are the jobs a write of which failed: nobody finishes
\* them and clear_jobs keeps them, until a restart, which leaves no job active,
\* whatever the files said.
ActiveIsWorkedOn ==
    \A j \in BuildJob : /\ task[j] # "none" => job[j] \in Active /\ saved[j] \in Active
                        /\ job[j] \in Active /\ task[j] = "none" => j \in broken

\* A job of a patchable kind that reports success has left its patched image,
\* although make may build nothing and another job may remove the tag it patches.
SuccessHasImage ==
    \A j \in BuildJob : job[j] = "success" /\ HasPatch(j) => Patched(Tag(j)) \in image

\* "the vrnetlab directory must not stay dirty": a copy in it belongs to a build
\* under way.  The exceptions (leftover) are a copy that failed itself, one that could
\* not be removed and one whose process was killed by a restart.
DirectoryIsClean ==
    \A f \in copied \ leftover : \E j \in BuildJob :
        proc[j] \in {"copying", "make"} /\ req[j].source \in Upload /\ Dest(j) = f

\* The state file, as a client may rely on it: a job that was cleared, or whose
\* first record could not be written, is known no more; one whose end could not
\* be written is open again.
Recorded == [j \in BuildJob |->
    CASE saved[j] = "none" /\ j \in used             -> "forgotten"
      [] saved[j] = "running" /\ job[j] \notin Active -> "unwritten"
      [] OTHER                                        -> saved[j]]

Jobs == INSTANCE BuildJobs WITH Job <- BuildJob, status <- Recorded

\* The service implements BuildJobs: what the state file says of a finished job is
\* final.  No restart, late task or second job turns it into another outcome, an
\* interrupted job is failed and never taken up again, and a cleared job stays away.
BuildsImplementJobs == Jobs!JobsSpec
=============================================================================
