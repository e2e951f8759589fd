--------------------------- MODULE OperationJobs ---------------------------
(***************************************************************************)
(* The Manager's persistent background jobs for Droplet uploads and        *)
(* deployments (src/kx_manager/services/operation_jobs.py).                *)
(*                                                                         *)
(* Three kinds of threads share the job files:                             *)
(*  - the event loop of the web server, which creates jobs and renders the *)
(*    progress page (one request at a time);                               *)
(*  - the single worker of the ThreadPoolExecutor, which runs a job;       *)
(*  - one heartbeat daemon thread per started job.                         *)
(* <job>.json and <job>.log survive a Manager restart; the executor's      *)
(* queue, the worker and the heartbeats do not.                            *)
(*                                                                         *)
(* A job file is reduced to its status and progress, a log file to the     *)
(* kinds of lines it holds.  An _update_job is one step: it runs under     *)
(* _job_write_lock and replaces the file atomically.  It may also fail     *)
(* (os.replace or the temporary file refused by the system), and so may a  *)
(* line appended to a log and the write of latest-job.txt: that raises in  *)
(* the caller and leaves the file as it was.                               *)
(***************************************************************************)
EXTENDS Integers, Sequences

CONSTANTS
    Jobs,        \* job identifiers (uuid4)
    None,        \* "no job"
    Percent,     \* progress values an operation reports to progress_callback
    MaxRestarts, \* bound: how often the Manager process is killed
    MaxFaults    \* bound: how many writes of these files fail

ASSUME JobsAssumption == None \notin Jobs
ASSUME PercentAssumption == Percent \subseteq 0..100
ASSUME BoundsAssumption == MaxRestarts \in Nat /\ MaxFaults \in Nat

VARIABLES
    job,      \* job[j]: the persisted <j>.json
    log,      \* log[j]: kinds of lines in <j>.log
    latest,   \* content of latest-job.txt
    claimed,  \* claimed[j]: the operation answered ok
    loop,     \* the event loop's current request
    queue,    \* the executor's work queue
    worker,   \* the executor's only thread
    beat,     \* beat[j]: the heartbeat thread of j
    stopped,  \* jobs whose stop_event is set
    restarts, faults  \* used up of MaxRestarts and MaxFaults

persistent == <<job, log, latest, claimed>>
vars == <<job, log, latest, claimed, loop, queue, worker, beat, stopped,
          restarts, faults>>

-----------------------------------------------------------------------------
ActiveStatuses == {"queued", "running"}
FinalStatuses == {"succeeded", "failed", "interrupted"}
Absent == [status |-> "absent", progress |-> 0]

Larger(a, b) == IF a >= b THEN a ELSE b
\* max(0, min(99, int(progress))): only a success shows 100
Clamp(p) == IF p > 99 THEN 99 ELSE p

Active(j) == job[j].status \in ActiveStatuses
Final(j) == job[j].status \in FinalStatuses

IdleLoop == [at |-> "idle", job |-> None, status |-> "absent", lines |-> {}]
IdleWorker == [at |-> "idle", job |-> None, caught |-> FALSE]

Init ==
    /\ job = [j \in Jobs |-> Absent]
    /\ log = [j \in Jobs |-> {}]
    /\ latest = None
    /\ claimed = [j \in Jobs |-> FALSE]
    /\ loop = IdleLoop
    /\ queue = <<>>
    /\ worker = IdleWorker
    /\ beat = [j \in Jobs |-> "off"]
    /\ stopped = {}
    /\ restarts = 0
    /\ faults = 0

\* append_job_log
AppendLog(j, line) == log' = [log EXCEPT ![j] = @ \cup {line}]

\* A write raises and the file keeps its content: any file, a job file.
Fault == faults < MaxFaults /\ faults' = faults + 1
WriteFault == Fault /\ UNCHANGED job

-----------------------------------------------------------------------------
(* The event loop: create_operation_job.  A creation is four effects in    *)
(* this order: job file, log line, latest-job.txt, executor.               *)

CreateJob(j) ==
    /\ loop.at = "idle"
    /\ job[j] = Absent
    /\ \/ /\ job' = [job EXCEPT ![j] = [status |-> "queued", progress |-> 1]]
          /\ loop' = [loop EXCEPT !.at = "log", !.job = j]
          /\ UNCHANGED faults
       \/ /\ WriteFault
          /\ UNCHANGED loop
    /\ UNCHANGED <<log, latest, claimed, queue, worker, beat, stopped, restarts>>

\* A failed write ends the request with an error; the job file stays, queued.
CreateLog ==
    /\ loop.at = "log"
    /\ \/ /\ AppendLog(loop.job, "queued")
          /\ loop' = [loop EXCEPT !.at = "latest"]
          /\ UNCHANGED faults
       \/ Fault /\ loop' = IdleLoop /\ UNCHANGED log
    /\ UNCHANGED <<job, latest, claimed, queue, worker, beat, stopped, restarts>>

CreateLatest ==
    /\ loop.at = "latest"
    /\ \/ /\ latest' = loop.job
          /\ loop' = [loop EXCEPT !.at = "submit"]
          /\ UNCHANGED faults
       \/ Fault /\ loop' = IdleLoop /\ UNCHANGED latest
    /\ UNCHANGED <<job, log, claimed, queue, worker, beat, stopped, restarts>>

CreateSubmit ==
    /\ loop.at = "submit"
    /\ queue' = Append(queue, loop.job)
    /\ loop' = IdleLoop
    /\ UNCHANGED <<persistent, worker, beat, stopped, restarts, faults>>

(* get_operation_job for the progress page: the job file, then its log.    *)

PageReadJob(j) ==
    /\ loop.at = "idle"
    /\ job[j] # Absent
    /\ loop' = [at |-> "page", job |-> j, status |-> job[j].status, lines |-> {}]
    /\ UNCHANGED <<persistent, queue, worker, beat, stopped, restarts, faults>>

PageReadLog ==
    /\ loop.at = "page"
    /\ loop' = [loop EXCEPT !.at = "reply", !.lines = log[loop.job]]
    /\ UNCHANGED <<persistent, queue, worker, beat, stopped, restarts, faults>>

PageReply ==
    /\ loop.at = "reply"
    /\ loop' = IdleLoop
    /\ UNCHANGED <<persistent, queue, worker, beat, stopped, restarts, faults>>

-----------------------------------------------------------------------------
(* The worker: _run_job.                                                   *)

Go(place) == worker' = [worker EXCEPT !.at = place]
\* What the try block raises goes to the except block, what that one raises to
\* the finally block.
Raise ==
    worker' = [worker EXCEPT !.at = IF worker.caught THEN "finally" ELSE "logfailed",
                             !.caught = TRUE]

TakeJob ==
    /\ worker.at = "idle"
    /\ queue # <<>>
    /\ worker' = [at |-> "begin", job |-> Head(queue), caught |-> FALSE]
    /\ queue' = Tail(queue)
    /\ UNCHANGED <<persistent, loop, beat, stopped, restarts, faults>>

BeginJob ==
    /\ worker.at = "begin"
    /\ \/ /\ job' = [job EXCEPT ![worker.job] = [status |-> "running", progress |-> 2]]
          /\ Go("announce")
          /\ UNCHANGED faults
       \/ WriteFault /\ Raise
    /\ UNCHANGED <<log, latest, claimed, loop, queue, beat, stopped, restarts>>

\* The log line, then heartbeat.start().
AnnounceJob ==
    /\ worker.at = "announce"
    /\ \/ /\ AppendLog(worker.job, "starting")
          /\ beat' = [beat EXCEPT ![worker.job] = "waiting"]
          /\ Go("operate")
          /\ UNCHANGED faults
       \/ Fault /\ Raise /\ UNCHANGED <<log, beat>>
    /\ UNCHANGED <<job, latest, claimed, loop, queue, stopped, restarts>>

\* progress_callback.  deploy._report_progress swallows what it raises, so a
\* failed write of the file, or of the report's log line (no line kept here),
\* loses that and nothing else.
ReportProgress(p) ==
    /\ worker.at = "operate"
    /\ \/ /\ job' = [job EXCEPT ![worker.job].progress = Clamp(p)]
          /\ UNCHANGED faults
       \/ WriteFault
    /\ UNCHANGED <<log, latest, claimed, loop, queue, worker, beat, stopped, restarts>>

\* Mutant of OperationReturns: the success is recorded before it is logged.
ReturnUnlogged(ok) ==
    /\ worker.at = "operate"
    /\ claimed' = [claimed EXCEPT ![worker.job] = ok]
    /\ Go(IF ok THEN "succeed" ELSE "logfailed")
    /\ UNCHANGED <<job, log, latest, loop, queue, beat, stopped, restarts, faults>>

\* Mutant of OperationReturns: any result counts as a success.
ReturnUnchecked(ok) ==
    /\ worker.at = "operate"
    /\ claimed' = [claimed EXCEPT ![worker.job] = ok]
    /\ Go("logcomplete")
    /\ UNCHANGED <<job, log, latest, loop, queue, beat, stopped, restarts, faults>>

\* The deploy function answers ok or not, whatever it did on the Droplet: a
\* plan-only deployment answers ok and does nothing, a failed one may have
\* changed it.
OperationReturns(ok) ==
    /\ worker.at = "operate"
    /\ claimed' = [claimed EXCEPT ![worker.job] = ok]
    /\ Go(IF ok THEN "logcomplete" ELSE "logfailed")
    /\ UNCHANGED <<job, log, latest, loop, queue, beat, stopped, restarts, faults>>

\* The deploy function, or building its request, raises.
OperationRaises ==
    /\ worker.at = "operate"
    /\ Raise
    /\ UNCHANGED <<persistent, loop, queue, beat, stopped, restarts, faults>>

\* append_job_log(line), then the next place; a failed write raises.
LogThen(line, next) ==
    /\ \/ AppendLog(worker.job, line) /\ Go(next) /\ UNCHANGED faults
       \/ Fault /\ Raise /\ UNCHANGED log
    /\ UNCHANGED <<job, latest, claimed, loop, queue, beat, stopped, restarts>>

LogComplete == worker.at = "logcomplete" /\ LogThen("complete", "succeed")

\* A failed write of the success is caught like any other exception of the job.
RecordSucceeded ==
    /\ worker.at = "succeed"
    /\ \/ /\ job' = [job EXCEPT ![worker.job] = [status |-> "succeeded", progress |-> 100]]
          /\ Go("finally")
          /\ UNCHANGED faults
       \/ WriteFault /\ Raise
    /\ UNCHANGED <<log, latest, claimed, loop, queue, beat, stopped, restarts>>

\* Mutants of LogFailed: the line is lost; the status is not written.
LogNothing ==
    /\ worker.at = "logfailed"
    /\ Go("fail")
    /\ UNCHANGED <<persistent, loop, queue, beat, stopped, restarts, faults>>
LogOnly == worker.at = "logfailed" /\ LogThen("failed", "finally")

LogFailed == worker.at = "logfailed" /\ LogThen("failed", "fail")

\* max(2, current progress).
RecordFailed ==
    /\ worker.at = "fail"
    /\ \/ /\ job' = [job EXCEPT ![worker.job] =
                        [status |-> "failed", progress |-> Larger(2, @.progress)]]
          /\ Go("finally")
          /\ UNCHANGED faults
       \/ WriteFault /\ Raise
    /\ UNCHANGED <<log, latest, claimed, loop, queue, beat, stopped, restarts>>

\* Mutant of StopHeartbeat: the event is never set.
ForgetHeartbeat ==
    /\ worker.at = "finally"
    /\ worker' = IdleWorker
    /\ UNCHANGED <<persistent, loop, queue, beat, stopped, restarts, faults>>

StopHeartbeat ==
    /\ worker.at = "finally"
    /\ stopped' = stopped \cup {worker.job}
    /\ worker' = IdleWorker
    /\ UNCHANGED <<persistent, loop, queue, beat, restarts, faults>>

-----------------------------------------------------------------------------
(* The heartbeat thread of a job: _heartbeat.  It reads the status without *)
(* the lock and stamps heartbeat_at in a later step; _update_job re-reads  *)
(* the file under the lock, so the stamp changes no other field.           *)

HeartbeatCheck(j) ==
    /\ beat[j] = "waiting"
    /\ j \notin stopped
    /\ beat' = [beat EXCEPT ![j] = IF Active(j) THEN "stamping" ELSE "off"]
    /\ UNCHANGED <<persistent, loop, queue, worker, stopped, restarts, faults>>

\* Mutant of HeartbeatStamp: it writes back the record it read before the lock.
StampStale(j) ==
    /\ beat[j] = "stamping"
    /\ beat' = [beat EXCEPT ![j] = "waiting"]
    /\ job' = [job EXCEPT ![j].status = "running"]
    /\ UNCHANGED <<log, latest, claimed, loop, queue, worker, stopped, restarts, faults>>

\* A failed write ends the thread.
HeartbeatStamp(j) ==
    /\ beat[j] = "stamping"
    /\ \/ /\ beat' = [beat EXCEPT ![j] = "waiting"]
          /\ UNCHANGED <<job, faults>>
       \/ /\ WriteFault
          /\ beat' = [beat EXCEPT ![j] = "off"]
    /\ UNCHANGED <<log, latest, claimed, loop, queue, worker, stopped, restarts>>

HeartbeatEnds(j) ==
    /\ beat[j] = "waiting"
    /\ j \in stopped
    /\ beat' = [beat EXCEPT ![j] = "off"]
    /\ UNCHANGED <<persistent, loop, queue, worker, stopped, restarts, faults>>

-----------------------------------------------------------------------------
\* The Manager is killed and started again: the module creates a new executor
\* on demand and looks at no existing job.
RestartManager ==
    /\ restarts < MaxRestarts
    /\ restarts' = restarts + 1
    /\ loop' = IdleLoop
    /\ queue' = <<>>
    /\ worker' = IdleWorker
    /\ beat' = [j \in Jobs |-> "off"]
    /\ stopped' = {}
    /\ UNCHANGED <<persistent, faults>>

ReadPage == PageReadLog \/ PageReply
Create == CreateLog \/ CreateLatest \/ CreateSubmit
RunJob == \/ TakeJob \/ BeginJob \/ AnnounceJob
          \/ \E ok \in BOOLEAN : OperationReturns(ok)
          \/ OperationRaises
          \/ LogComplete \/ RecordSucceeded
          \/ LogFailed \/ RecordFailed \/ StopHeartbeat
Heartbeat(j) == HeartbeatCheck(j) \/ HeartbeatStamp(j) \/ HeartbeatEnds(j)

Next ==
    \/ \E j \in Jobs : CreateJob(j) \/ PageReadJob(j) \/ Heartbeat(j)
    \/ Create
    \/ ReadPage
    \/ RunJob
    \/ \E p \in Percent : ReportProgress(p)
    \/ RestartManager

Spec == Init /\ [][Next]_vars

\* The event loop, the worker and the heartbeats are threads the system
\* schedules.  The operation itself returns: every SSH and HTTP call it makes
\* has a timeout, and its reports are finitely many.
Fairness ==
    /\ WF_vars(Create)
    /\ WF_vars(ReadPage)
    /\ WF_vars(RunJob)
    /\ \A j \in Jobs : WF_vars(Heartbeat(j))

FairSpec == Spec /\ Fairness

-----------------------------------------------------------------------------
(* Properties.                                                             *)

Places == {"idle", "begin", "announce", "operate", "logcomplete", "succeed",
           "logfailed", "fail", "finally"}
Lines == {"queued", "starting", "complete", "failed"}
Statuses == {"absent"} \cup ActiveStatuses \cup FinalStatuses

\* The variables hold values of their types; a worker that is not idle has a job.
TypeOK ==
    /\ job \in [Jobs -> [status : Statuses, progress : 0..100]]
    /\ log \in [Jobs -> SUBSET Lines]
    /\ latest \in Jobs \cup {None}
    /\ claimed \in [Jobs -> BOOLEAN]
    /\ loop \in [at : {"idle", "log", "latest", "submit", "page", "reply"},
                 job : Jobs \cup {None}, status : Statuses, lines : SUBSET Lines]
    /\ loop.at # "idle" => loop.job \in Jobs
    /\ queue \in Seq(Jobs)
    /\ worker \in [at : Places, job : Jobs \cup {None}, caught : BOOLEAN]
    /\ worker.at # "idle" => worker.job \in Jobs
    /\ beat \in [Jobs -> {"off", "waiting", "stamping"}]
    /\ stopped \in SUBSET Jobs
    /\ restarts \in 0..MaxRestarts
    /\ faults \in 0..MaxFaults

\* A final status is the last one: no late heartbeat, report, write fault or
\* restart replaces it, although three threads write the same file.
FinalIsFinal ==
    [][\A j \in Jobs : Final(j) => job'[j] = job[j]]_vars

\* The job file never runs ahead of the log, though writes of either may fail:
\* a job it calls succeeded is one whose operation answered ok and whose log has
\* the line of the outcome; a failed one has its line, too.
OutcomeIsLogged ==
    \A j \in Jobs :
        /\ job[j].status = "succeeded" => claimed[j] /\ "complete" \in log[j]
        /\ job[j].status = "failed" => "failed" \in log[j]

\* The page joins two files read at different times, and still a page that says
\* SUCCEEDED or FAILED shows the log line of that outcome.
PageShowsOutcome ==
    loop.at = "reply" =>
        /\ loop.status = "succeeded" => "complete" \in loop.lines
        /\ loop.status = "failed" => "failed" \in loop.lines

\* A job is started at most once and gets at most one outcome, and a success is
\* one the operation claimed (JobContract), whatever the three threads, failed
\* writes and restarts do between its two ends in different files.
Contract == INSTANCE JobContract WITH
    status <- [j \in Jobs |-> job[j].status],
    done <- claimed
KeepsContract == Contract!Spec

\* The threads that will still move job j on: its creation, the executor's
\* queue or the worker.
Owned(j) ==
    \/ loop.job = j /\ loop.at \in {"log", "latest", "submit"}
    \/ \E i \in 1..Len(queue) : queue[i] = j
    \/ worker.job = j

\* Unless the Manager was killed or a write failed, an active job is one that
\* some thread will still move on.
ActiveIsOwned ==
    restarts = 0 /\ faults = 0 => \A j \in Jobs : Active(j) => Owned(j)

\* A created job gets its outcome and its heartbeat thread ends, unless a write
\* fails or the Manager is killed; a heartbeat thread ends in any case.
JobsFinish ==
    \A j \in Jobs :
        (Active(j) \/ beat[j] # "off")
            ~> (beat[j] = "off" /\ (Final(j) \/ restarts + faults > 0))

\* What the progress page and FINAL_STATUSES promise across a Manager restart:
\* a job shown as active is one something still works on.
ActiveSurvivesRestart ==
    faults = 0 => \A j \in Jobs : Active(j) => Owned(j)
=============================================================================
