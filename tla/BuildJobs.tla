----------------------------- MODULE BuildJobs -----------------------------
(***************************************************************************)
(* Asynchronous capsule builds of the Manager                              *)
(* (src/kx_manager/services/build_jobs.py and builder.py) and the Builder  *)
(* process each one runs (src/kx_builder/package.py).                      *)
(*                                                                         *)
(* The Manager is organised like OperationJobs: an event loop, a pool of   *)
(* workers (here KX_CAPSULE_BUILD_CONCURRENCY of them) and one heartbeat   *)
(* thread per started job share the job files.  What is different: the     *)
(* work is done by a subprocess of the worker, which writes a progress     *)
(* file of its own, tags its Docker images in the host's one image store,  *)
(* writes the capsule in place, and does not end with the Manager.         *)
(*                                                                         *)
(* The Docker tags depend on APP_VERSION only, so one variable stands for  *)
(* them.  A log is reduced to the kinds of lines the worker writes; the    *)
(* lines of the heartbeat and of the Builder are left out.  A build of a   *)
(* prepared staging directory, which has no images to build, is not here.  *)
(***************************************************************************)
EXTENDS Integers, Sequences, FiniteSets

CONSTANTS
    Jobs,         \* job identifiers (uuid4); a job also names the source it builds
    Workers,      \* threads of the executor
    Paths,        \* output capsule files
    Watched,      \* bound: jobs whose progress page is opened
    None,         \* "no job"
    MaxRestarts,  \* bound: how often the Manager process is killed
    MaxTimeouts,  \* bound: how many builds exceed timeout_seconds
    MaxFaults     \* bound: how many writes of these files fail

ASSUME JobsAssumption == None \notin Jobs /\ Watched \subseteq Jobs
ASSUME BoundsAssumption ==
    MaxRestarts \in Nat /\ MaxTimeouts \in Nat /\ MaxFaults \in Nat

VARIABLES
    job,      \* job[j]: the persisted <j>.json
    request,  \* request[j]: what the operator asked for, path and kind of build
    log,      \* log[j]: kinds of lines in <j>.log
    latest,   \* content of latest-job.txt
    loop,     \* the event loop's current request
    queue,    \* the executor's work queue
    worker,   \* worker[w]: a thread of the executor
    beat,     \* beat[j]: the heartbeat thread of j
    stopped,  \* jobs whose stop_event is set
    builder,  \* builder[j]: the Builder process of j
    file,     \* file[j]: progress in <j>.progress.json, 0 when there is none
    tag,      \* the job whose images the Docker tags name
    saved,    \* saved[j]: whose images the staging directory of j holds
    out,      \* out[p]: the capsule file p
    restarts, timeouts, faults

manager == <<loop, queue, worker, beat, stopped>>
records == <<job, request, log, latest>>
build == <<builder, file, tag, saved, out>>
bounds == <<restarts, timeouts, faults>>
vars == <<job, request, log, latest, loop, queue, worker, beat, stopped,
          builder, file, tag, saved, out, restarts, timeouts, faults>>

-----------------------------------------------------------------------------
ActiveStatuses == {"queued", "running"}
FinalStatuses == {"succeeded", "failed", "interrupted"}
\* "force" is a build with --force; "rebuild" deletes the output file first.
Kinds == {"build", "force", "rebuild"}

Absent == [status |-> "absent", progress |-> 0]
NoFile == [of |-> None, images |-> None, whole |-> FALSE]
IdleLoop == [at |-> "idle", job |-> None, status |-> "absent", progress |-> 0,
             lines |-> {}]
IdleWorker == [at |-> "idle", job |-> None, caught |-> FALSE, seen |-> 0]
Begun(j) == [at |-> "begin", job |-> j, caught |-> FALSE, seen |-> 0]

Live == {"start", "images", "export", "package", "compress", "writing", "verify"}

Larger(a, b) == IF a >= b THEN a ELSE b
\* Mutant of Merged: the builder's 100 is shown.
MergedUnclamped(status, progress, p) ==
    IF status \in ActiveStatuses THEN Larger(progress, p) ELSE progress
\* _merge_builder_progress: the builder's progress counts while the job is active.
Merged(status, progress, p) ==
    IF status \in ActiveStatuses
    THEN Larger(progress, IF p > 99 THEN 99 ELSE p)
    ELSE progress

Active(j) == job[j].status \in ActiveStatuses
Final(j) == job[j].status \in FinalStatuses
Exists(p) == out[p] # NoFile
Shown(j) == Merged(job[j].status, job[j].progress, file[j])

Init ==
    /\ job = [j \in Jobs |-> Absent]
    /\ request \in [Jobs -> [path : Paths, kind : Kinds]]
    /\ log = [j \in Jobs |-> {}]
    /\ latest = None
    /\ loop = IdleLoop
    /\ queue = <<>>
    /\ worker = [w \in Workers |-> IdleWorker]
    /\ beat = [j \in Jobs |-> "off"]
    /\ stopped = {}
    /\ builder = [j \in Jobs |-> "off"]
    /\ file = [j \in Jobs |-> 0]
    /\ tag = None
    /\ saved = [j \in Jobs |-> None]
    /\ out = [p \in Paths |-> NoFile]
    /\ restarts = 0 /\ timeouts = 0 /\ faults = 0

\* append_job_log
AppendLog(j, line) == log' = [log EXCEPT ![j] = @ \cup {line}]

\* A write that the system refuses leaves the file as it was.
Fault == faults < MaxFaults /\ faults' = faults + 1

-----------------------------------------------------------------------------
(* The event loop: create_build_job, then get_build_job for the page.      *)

CreateJob(j) ==
    /\ loop.at = "idle"
    /\ job[j] = Absent
    /\ \/ /\ job' = [job EXCEPT ![j] = [status |-> "queued", progress |-> 1]]
          /\ loop' = [loop EXCEPT !.at = "log", !.job = j]
          /\ UNCHANGED faults
       \/ Fault /\ UNCHANGED <<job, loop>>
    /\ UNCHANGED <<request, log, latest, queue, worker, beat, stopped, build,
                   restarts, timeouts>>

\* A refused write ends the request with an error; the job file stays, queued.
CreateLog ==
    /\ loop.at = "log"
    /\ \/ /\ AppendLog(loop.job, "queued")
          /\ loop' = [loop EXCEPT !.at = "latest"]
          /\ UNCHANGED faults
       \/ Fault /\ loop' = IdleLoop /\ UNCHANGED log
    /\ UNCHANGED <<job, request, latest, queue, worker, beat, stopped, build,
                   restarts, timeouts>>

CreateLatest ==
    /\ loop.at = "latest"
    /\ \/ /\ latest' = loop.job
          /\ loop' = [loop EXCEPT !.at = "submit"]
          /\ UNCHANGED faults
       \/ Fault /\ loop' = IdleLoop /\ UNCHANGED latest
    /\ UNCHANGED <<job, request, log, queue, worker, beat, stopped, build,
                   restarts, timeouts>>

CreateSubmit ==
    /\ loop.at = "submit"
    /\ queue' = Append(queue, loop.job)
    /\ loop' = IdleLoop
    /\ UNCHANGED <<records, worker, beat, stopped, build, bounds>>

PageReadJob(j) ==
    /\ j \in Watched
    /\ loop.at = "idle"
    /\ job[j] # Absent
    /\ loop' = [IdleLoop EXCEPT !.at = "merge", !.job = j, !.status = job[j].status,
                                !.progress = job[j].progress]
    /\ UNCHANGED <<records, queue, worker, beat, stopped, build, bounds>>

PageMerge ==
    /\ loop.at = "merge"
    /\ loop' = [loop EXCEPT !.at = "page",
                            !.progress = Merged(loop.status, @, file[loop.job])]
    /\ UNCHANGED <<records, queue, worker, beat, stopped, build, bounds>>

PageReadLog ==
    /\ loop.at = "page"
    /\ loop' = [loop EXCEPT !.at = "reply", !.lines = log[loop.job]]
    /\ UNCHANGED <<records, queue, worker, beat, stopped, build, bounds>>

PageReply ==
    /\ loop.at = "reply"
    /\ loop' = IdleLoop
    /\ UNCHANGED <<records, queue, worker, beat, stopped, build, bounds>>

-----------------------------------------------------------------------------
(* A worker: _run_job and, between Launch and the result, build_capsule or *)
(* rebuild_capsule.                                                        *)

Go(w, place) == worker' = [worker EXCEPT ![w].at = place]
\* What the try block raises goes to the except block, what that one raises to
\* the finally block.
Raise(w) ==
    worker' = [worker EXCEPT ![w].at = IF worker[w].caught THEN "finally" ELSE "logfailed",
                             ![w].caught = TRUE]

TakeJob(w) ==
    /\ worker[w].at = "idle"
    /\ queue # <<>>
    /\ worker' = [worker EXCEPT ![w] = Begun(Head(queue))]
    /\ queue' = Tail(queue)
    /\ UNCHANGED <<records, loop, beat, stopped, build, bounds>>

\* _update_job with these fields: the worker goes on, or the write raises.
Record(w, fields, next) ==
    /\ \/ /\ job' = [job EXCEPT ![worker[w].job] = fields]
          /\ Go(w, next)
          /\ UNCHANGED faults
       \/ Fault /\ Raise(w) /\ UNCHANGED job
    /\ UNCHANGED <<request, log, latest, loop, queue, beat, stopped, build,
                   restarts, timeouts>>

\* append_job_log of the job's worker: it goes on, or the write raises.
Note(w, line, next) ==
    /\ \/ AppendLog(worker[w].job, line) /\ Go(w, next) /\ UNCHANGED faults
       \/ Fault /\ Raise(w) /\ UNCHANGED log
    /\ UNCHANGED <<job, request, latest, loop, queue, stopped, build, restarts, timeouts>>

BeginJob(w) ==
    /\ worker[w].at = "begin"
    /\ Record(w, [status |-> "running", progress |-> 2], "check")

\* Mutant of Preflight: a build without Docker goes on.
PreflightIgnored(w, ok) ==
    /\ worker[w].at = "check"
    /\ Note(w, "checked", IF ok THEN "progress" ELSE "logcomplete")
    /\ UNCHANGED beat

\* _docker_preflight between its two log lines.
Preflight(w, ok) ==
    /\ worker[w].at = "check"
    /\ Note(w, "checked", IF ok THEN "progress" ELSE "refuse")
    /\ UNCHANGED beat

\* `docker info` cannot be run for another reason than a missing docker.
PreflightRaises(w) ==
    /\ worker[w].at = "check"
    /\ Raise(w)
    /\ UNCHANGED <<records, loop, queue, beat, stopped, build, bounds>>

\* Mutant of RecordRefused: the refused build just returns.
RefusedUnrecorded(w) ==
    /\ worker[w].at = "refuse"
    /\ Go(w, "finally")
    /\ UNCHANGED <<records, loop, queue, beat, stopped, build, bounds>>

RecordRefused(w) ==
    /\ worker[w].at = "refuse"
    /\ Record(w, [status |-> "failed", progress |-> 2], "finally")

RecordBuilder(w) ==
    /\ worker[w].at = "progress"
    /\ Record(w, [status |-> "running", progress |-> 5], "announce")

\* The heartbeat thread is started once the line is written.
AnnounceJob(w) ==
    /\ worker[w].at = "announce"
    /\ Note(w, "starting", "launch")
    /\ beat' = IF worker'[w].at = "launch"
               THEN [beat EXCEPT ![worker[w].job] = "waiting"] ELSE beat

\* rebuild_capsule unlinks the output before build_capsule looks at the request.
Deleted(j) ==
    IF request[j].kind = "rebuild"
    THEN [out EXCEPT ![request[j].path] = NoFile] ELSE out

\* The subprocess starts, cannot be started (uv missing: a failed result), or
\* the request is refused by an exception, after the deletion or before it.
Launch(w) ==
    LET j == worker[w].job IN
    /\ worker[w].at = "launch"
    /\ \/ /\ out' = Deleted(j)
          /\ builder' = [builder EXCEPT ![j] = "start"]
          /\ Go(w, "wait")
       \/ out' = Deleted(j) /\ Go(w, "logfailed") /\ UNCHANGED builder
       \/ out' \in {out, Deleted(j)} /\ Raise(w) /\ UNCHANGED builder
    /\ UNCHANGED <<records, loop, queue, beat, stopped, file, tag, saved, bounds>>

\* Mutant of BuilderReturns: the file's existence is enough.
ReturnsIfExists(w) ==
    LET j == worker[w].job IN
    /\ worker[w].at = "wait"
    /\ builder[j] \notin Live
    /\ Go(w, IF Exists(request[j].path) THEN "logcomplete" ELSE "logfailed")
    /\ UNCHANGED <<records, loop, queue, beat, stopped, build, bounds>>

\* ok = command.ok and capsule_file.exists()
BuilderReturns(w) ==
    LET j == worker[w].job IN
    /\ worker[w].at = "wait"
    /\ builder[j] \notin Live
    /\ Go(w, IF builder[j] = "ok" /\ Exists(request[j].path)
             THEN "logcomplete" ELSE "logfailed")
    /\ UNCHANGED <<records, loop, queue, beat, stopped, build, bounds>>

\* subprocess.run kills the process it started, `uv run`; the Builder below it
\* dies with it, goes on, or (where run waits for its pipes) has ended meanwhile.
BuildTimesOut(w) ==
    LET j == worker[w].job IN
    /\ worker[w].at = "wait"
    /\ timeouts < MaxTimeouts
    /\ timeouts' = timeouts + 1
    /\ Go(w, "logfailed")
    /\ \/ UNCHANGED builder
       \/ builder[j] \in Live /\ builder' = [builder EXCEPT ![j] = "failed"]
    /\ UNCHANGED <<records, loop, queue, beat, stopped, file, tag, saved, out,
                   restarts, faults>>

LogComplete(w) ==
    /\ worker[w].at = "logcomplete"
    /\ Note(w, "complete", "succeed")
    /\ UNCHANGED beat

RecordSucceeded(w) ==
    /\ worker[w].at = "succeed"
    /\ Record(w, [status |-> "succeeded", progress |-> 100], "finally")

\* The except block writes the status without a progress; the other branch asks
\* get_build_job for it first.
LogFailed(w) ==
    /\ worker[w].at = "logfailed"
    /\ Note(w, "failed", IF worker[w].caught THEN "fail" ELSE "read")
    /\ UNCHANGED beat

\* Mutant of ReadProgress: the job file alone is read.
ReadJobFileOnly(w) ==
    /\ worker[w].at = "read"
    /\ worker' = [worker EXCEPT ![w].at = "fail",
                                ![w].seen = Larger(5, job[worker[w].job].progress)]
    /\ UNCHANGED <<records, loop, queue, beat, stopped, build, bounds>>

ReadProgress(w) ==
    /\ worker[w].at = "read"
    /\ worker' = [worker EXCEPT ![w].at = "fail",
                                ![w].seen = Larger(5, Shown(worker[w].job))]
    /\ UNCHANGED <<records, loop, queue, beat, stopped, build, bounds>>

RecordFailed(w) ==
    LET p == IF worker[w].caught THEN job[worker[w].job].progress ELSE worker[w].seen IN
    /\ worker[w].at = "fail"
    /\ Record(w, [status |-> "failed", progress |-> p], "finally")

StopHeartbeat(w) ==
    /\ worker[w].at = "finally"
    /\ stopped' = stopped \cup {worker[w].job}
    /\ worker' = [worker EXCEPT ![w] = IdleWorker]
    /\ UNCHANGED <<records, loop, queue, beat, build, bounds>>

-----------------------------------------------------------------------------
(* The heartbeat thread: _heartbeat.                                       *)

HeartbeatCheck(j) ==
    /\ beat[j] = "waiting"
    /\ beat' = [beat EXCEPT ![j] = IF j \notin stopped /\ Active(j)
                                   THEN "stamping" ELSE "off"]
    /\ UNCHANGED <<records, loop, queue, worker, stopped, build, bounds>>

\* Mutant of HeartbeatStamp: it writes back the record it read before the lock.
StampStale(j) ==
    /\ beat[j] = "stamping"
    /\ beat' = [beat EXCEPT ![j] = "waiting"]
    /\ job' = [job EXCEPT ![j].status = "running"]
    /\ UNCHANGED <<request, log, latest, loop, queue, worker, stopped, build, bounds>>

\* _update_job re-reads the file under the lock and changes heartbeat_at only;
\* a failed write ends the thread.
HeartbeatStamp(j) ==
    /\ beat[j] = "stamping"
    /\ \/ beat' = [beat EXCEPT ![j] = "waiting"] /\ UNCHANGED faults
       \/ beat' = [beat EXCEPT ![j] = "off"] /\ Fault
    /\ UNCHANGED <<records, loop, queue, worker, stopped, build, restarts, timeouts>>

-----------------------------------------------------------------------------
(* The Builder process of a job: main.run and build_package.               *)

\* _build_progress_event, best effort: what it raises is swallowed.
Report(j, p) ==
    \/ file' = [file EXCEPT ![j] = p] /\ UNCHANGED faults
    \/ Fault /\ UNCHANGED file

Step(j, from, to) ==
    /\ builder[j] = from
    /\ builder' = [builder EXCEPT ![j] = to]
    /\ UNCHANGED <<records, manager, restarts, timeouts>>

Forced(j) == request[j].kind # "build"

\* _validate_build_request refuses an existing output; then the staging begins.
BuilderStarts(j) ==
    /\ Forced(j) \/ ~Exists(request[j].path)
    /\ Step(j, "start", "images")
    /\ Report(j, 10)
    /\ UNCHANGED <<tag, saved, out>>

\* Mutant of BuilderTags: an image that exists is not built again, as for those
\* that are pulled.
TagsOnce(j) ==
    /\ Step(j, "images", "export")
    /\ tag' = IF tag = None THEN j ELSE tag
    /\ Report(j, 65)
    /\ UNCHANGED <<saved, out>>

\* docker build --tag <app version>
BuilderTags(j) ==
    /\ Step(j, "images", "export")
    /\ tag' = j
    /\ Report(j, 65)
    /\ UNCHANGED <<saved, out>>

\* docker save of the tag, then metadata, checksums and signature.
BuilderExports(j) ==
    /\ Step(j, "export", "package")
    /\ saved' = [saved EXCEPT ![j] = tag]
    /\ Report(j, 91)
    /\ UNCHANGED <<tag, out>>

\* package_capsule looks at the output again, and unlinks it before it knows that
\* there is a zstd to write the new one with.
BuilderPackages(j) ==
    /\ Forced(j) \/ ~Exists(request[j].path)
    /\ Step(j, "package", "compress")
    /\ out' = [out EXCEPT ![request[j].path] = NoFile]
    /\ Report(j, 94)
    /\ UNCHANGED <<tag, saved>>

\* compress_tar_to_kxcap unlinks what is there now and writes in place.
BuilderOpensOutput(j) ==
    /\ Step(j, "compress", "writing")
    /\ out' = [out EXCEPT ![request[j].path] =
                 [of |-> j, images |-> saved[j], whole |-> FALSE]]
    /\ UNCHANGED <<file, tag, saved, faults>>

\* A file that was unlinked meanwhile is finished where nobody finds it.
BuilderWritesOutput(j) ==
    /\ Step(j, "writing", "verify")
    /\ out' = [out EXCEPT ![request[j].path] =
                 IF @.of = j THEN [of |-> j, images |-> @.images, whole |-> TRUE] ELSE @]
    /\ Report(j, 98)
    /\ UNCHANGED <<tag, saved>>

\* _verify_packaged_capsule needs a whole archive, whoever wrote it.
BuilderVerifies(j) ==
    /\ out[request[j].path].whole
    /\ Step(j, "verify", "ok")
    /\ Report(j, 100)
    /\ UNCHANGED <<tag, saved, out>>

\* A guard above does not hold, a docker command or a file operation fails, or
\* the archive does not verify (which reports 99).
BuilderFails(j) ==
    /\ builder[j] \in Live
    /\ Step(j, builder[j], "failed")
    /\ IF builder[j] = "verify" THEN Report(j, 99) ELSE UNCHANGED <<file, faults>>
    /\ UNCHANGED <<tag, saved, out>>

-----------------------------------------------------------------------------
\* The Manager is killed and started again.  Its threads and queue are gone; the
\* job files, the log files and the Builder processes are not.
RestartManager ==
    /\ restarts < MaxRestarts
    /\ restarts' = restarts + 1
    /\ loop' = IdleLoop
    /\ queue' = <<>>
    /\ worker' = [w \in Workers |-> IdleWorker]
    /\ beat' = [j \in Jobs |-> "off"]
    /\ stopped' = {}
    /\ UNCHANGED <<records, build, timeouts, faults>>

Create == CreateLog \/ CreateLatest \/ CreateSubmit
ReadPage == PageMerge \/ PageReadLog \/ PageReply
RunJob(w) ==
    \/ TakeJob(w) \/ BeginJob(w)
    \/ (\E ok \in BOOLEAN : Preflight(w, ok)) \/ PreflightRaises(w)
    \/ RecordRefused(w) \/ RecordBuilder(w) \/ AnnounceJob(w) \/ Launch(w)
    \/ BuilderReturns(w) \/ LogComplete(w) \/ RecordSucceeded(w)
    \/ LogFailed(w) \/ ReadProgress(w) \/ RecordFailed(w) \/ StopHeartbeat(w)
Heartbeat(j) == HeartbeatCheck(j) \/ HeartbeatStamp(j)
Build(j) ==
    \/ BuilderStarts(j) \/ BuilderTags(j) \/ BuilderExports(j) \/ BuilderPackages(j)
    \/ BuilderOpensOutput(j) \/ BuilderWritesOutput(j) \/ BuilderVerifies(j)
    \/ BuilderFails(j)

Next ==
    \/ \E j \in Jobs : CreateJob(j) \/ PageReadJob(j) \/ Heartbeat(j) \/ Build(j)
    \/ Create
    \/ ReadPage
    \/ \E w \in Workers : RunJob(w) \/ BuildTimesOut(w)
    \/ RestartManager

Spec == Init /\ [][Next]_vars

\* The threads are scheduled.  A Builder ends: its docker commands have timeouts
\* and the rest of its work is finite.
Fairness ==
    /\ WF_vars(Create)
    /\ WF_vars(ReadPage)
    /\ \A w \in Workers : WF_vars(RunJob(w))
    /\ \A j \in Jobs : WF_vars(Build(j)) /\ WF_vars(Heartbeat(j))

FairSpec == Spec /\ Fairness

-----------------------------------------------------------------------------
(* Properties.                                                             *)

Places == {"idle", "begin", "check", "refuse", "progress", "announce", "launch",
           "wait", "logcomplete", "succeed", "logfailed", "read", "fail", "finally"}
Lines == {"queued", "checked", "starting", "complete", "failed"}
Statuses == {"absent"} \cup ActiveStatuses \cup FinalStatuses
Loops == {"idle", "log", "latest", "submit", "merge", "page", "reply"}

\* The variables hold values of their types; a worker that is not idle has a job.
TypeOK ==
    /\ job \in [Jobs -> [status : Statuses, progress : 0..100]]
    /\ request \in [Jobs -> [path : Paths, kind : Kinds]]
    /\ log \in [Jobs -> SUBSET Lines]
    /\ latest \in Jobs \cup {None}
    /\ loop \in [at : Loops, job : Jobs \cup {None}, status : Statuses,
                 progress : 0..100, lines : SUBSET Lines]
    /\ loop.at # "idle" => loop.job \in Jobs
    /\ queue \in Seq(Jobs)
    /\ worker \in [Workers -> [at : Places, job : Jobs \cup {None},
                               caught : BOOLEAN, seen : 0..100]]
    /\ \A w \in Workers : worker[w].at # "idle" => worker[w].job \in Jobs
    /\ beat \in [Jobs -> {"off", "waiting", "stamping"}]
    /\ stopped \in SUBSET Jobs
    /\ builder \in [Jobs -> Live \cup {"off", "ok", "failed"}]
    /\ file \in [Jobs -> 0..100]
    /\ tag \in Jobs \cup {None}
    /\ saved \in [Jobs -> Jobs \cup {None}]
    /\ out \in [Paths -> [of : Jobs \cup {None}, images : Jobs \cup {None},
                          whole : BOOLEAN]]
    /\ restarts \in 0..MaxRestarts
    /\ timeouts \in 0..MaxTimeouts
    /\ faults \in 0..MaxFaults

\* A recorded outcome stays, whatever a late heartbeat, a Builder that outlived
\* its worker, a failed write or a restart does afterwards (_heartbeat, _update_job).
FinalIsFinal ==
    [][\A j \in Jobs : Final(j) => job'[j] = job[j]]_vars

\* What _run_job records is backed by what happened: a success by a Builder that
\* verified its archive and a line in the log, a failure by a line in the log,
\* and one without the word "failed" by a preflight before any Builder.
Backed(j) ==
    /\ job[j].status = "succeeded" => builder[j] = "ok" /\ "complete" \in log[j]
    /\ job[j].status = "failed" =>
          \/ "failed" \in log[j]
          \/ "checked" \in log[j] /\ builder[j] = "off"
OutcomeIsBacked == \A j \in Jobs : Backed(j)

\* A build is started at most once and gets at most one outcome, and a success is
\* one of a Builder that verified its archive (JobContract), although Builders
\* outlive their timeouts and their Manager.
Contract == INSTANCE JobContract WITH
    status <- [j \in Jobs |-> job[j].status],
    done <- [j \in Jobs |-> builder[j] = "ok"]
KeepsContract == Contract!Spec

\* A page is put together from three files read one after the other; it shows
\* 100% for a success only, and an outcome together with its log line.
PageIsHonest ==
    loop.at = "reply" =>
        /\ loop.progress = 100 => loop.status = "succeeded"
        /\ loop.status = "succeeded" => "complete" \in loop.lines
        /\ loop.status = "failed" => loop.lines \cap {"checked", "failed"} # {}

\* The progress of a build never moves back while it is active, nor when its
\* Builder's result is recorded as a failure; an exception, or a Builder left
\* behind by a timeout, may take it back.
Caught(j) == \E w \in Workers : worker[w].job = j /\ worker[w].caught
ProgressMovesOn ==
    [][\A j \in Jobs :
         Active(j)' \/ (timeouts = 0 /\ ~Caught(j)) => Shown(j)' >= Shown(j)]_vars

\* With one worker, and as long as no Manager was killed and no build timed out, a
\* build that is recorded as succeeded has left a whole capsule of its own at
\* its path, with the images of its own source (README.md, "Capsule builds are
\* serialized by default").
Undisturbed ==
    /\ \A v, w \in Workers : v = w
    /\ restarts = 0 /\ timeouts = 0
Own(j) == [of |-> j, images |-> j, whole |-> TRUE]
SuccessIsOwnCapsule ==
    [][\A j \in Jobs :
         Undisturbed /\ job[j].status # "succeeded" /\ job'[j].status = "succeeded"
             => out[request[j].path] = Own(j)]_vars

\* A job that was handed to the executor reaches an outcome and its heartbeat
\* ends, unless the Manager is killed, a build times out or a write fails; the
\* heartbeat of a job ends in any case.
JobsFinish ==
    \A j \in Jobs :
        (job[j].status = "queued" \/ beat[j] # "off")
            ~> (beat[j] = "off" /\ (Final(j) \/ restarts + timeouts + faults > 0))

-----------------------------------------------------------------------------
(* What documents promise and the code does not keep (README, Divergences); *)
(* no run checks these.                                                    *)

\* "Builds are intentionally serialized": no more Builders than workers.  Fails
\* when the Manager is restarted during a build.
BuildsSerialised ==
    Cardinality({j \in Jobs : builder[j] \in Live}) <= Cardinality(Workers)

\* A capsule file holds the images of the source it was built from
\* (_export_runtime_image_archives).  Fails with two workers.
ImagesAreOwn ==
    \A p \in Paths : out[p].whole => out[p].images = out[p].of
=============================================================================
