-------------------------- MODULE BuildJobsProofs --------------------------
(***************************************************************************)
(* Proofs about BuildJobs, for any number of jobs, workers, paths,         *)
(* restarts, timeouts and failed writes.  As in OperationJobs a job is in  *)
(* one place at a time; here it also has a Builder process, which starts   *)
(* once and may outlive the place.  The capsule theorem adds what a single *)
(* undisturbed worker knows of its Builder's tag, staging and output.      *)
(***************************************************************************)
EXTENDS BuildJobs, FiniteSetTheorems, TLAPS

USE JobsAssumption, BoundsAssumption

-----------------------------------------------------------------------------
(* The types of the variables that most steps change, and the parts of the *)
(* steps that change them.                                                 *)

File == [status : Statuses, progress : 0..100]
Thread == [at : Places, job : Jobs \cup {None}, caught : BOOLEAN, seen : 0..100]
Stages == Live \cup {"off", "ok", "failed"}
WorkersTyped ==
    /\ worker \in [Workers -> Thread]
    /\ \A w \in Workers : worker[w].at # "idle" => worker[w].job \in Jobs

\* The parts of TypeOK, by the names used below.
LEMMA Typed ==
    TypeOK => /\ job \in [Jobs -> File] /\ WorkersTyped /\ builder \in [Jobs -> Stages]
              /\ log \in [Jobs -> SUBSET Lines] /\ file \in [Jobs -> 0..100]
              /\ faults \in 0..MaxFaults
BY DEF TypeOK, File, WorkersTyped, Thread, Stages

\* A thread that goes to another place (Go) is a thread.
LEMMA ThreadAt ==
    ASSUME NEW t \in Thread, NEW p \in Places
    PROVE  [t EXCEPT !.at = p] \in Thread
BY DEF Thread

\* A thread whose worker raised (Raise) is a thread.
LEMMA ThreadRaised ==
    ASSUME NEW t \in Thread, NEW p \in {"finally", "logfailed"}
    PROVE  [t EXCEPT !.at = p, !.caught = TRUE] \in Thread
BY DEF Thread, Places

\* Replacing the state of one worker, with its job, keeps the workers typed.
LEMMA MovedTyped ==
    ASSUME WorkersTyped, NEW w \in Workers, worker[w].job \in Jobs, NEW t \in Thread,
           t.job = worker[w].job, worker' = [worker EXCEPT ![w] = t]
    PROVE  WorkersTyped'
BY DEF WorkersTyped

\* The state of a worker that took a job is a thread with that job.
LEMMA ThreadBegun ==
    ASSUME NEW j \in Jobs
    PROVE  Begun(j) \in Thread /\ Begun(j).job = j
BY DEF Begun, Thread, Places

\* Files: the output is deleted by a rebuild, and finished by its writer.
Archive == [of : Jobs \cup {None}, images : Jobs \cup {None}, whole : BOOLEAN]

\* rebuild_capsule's deletion leaves files.
LEMMA DeletedTyped ==
    ASSUME out \in [Paths -> Archive], NEW j \in Jobs, request[j].path \in Paths
    PROVE  Deleted(j) \in [Paths -> Archive]
BY DEF Deleted, NoFile, Archive

\* The worker moves on and keeps its job, or raises.
LEMMA GoTyped ==
    ASSUME WorkersTyped, NEW w \in Workers, worker[w].job \in Jobs, NEW p \in Places,
           Go(w, p) \/ Raise(w)
    PROVE  WorkersTyped'
<1> DEFINE t == worker[w]
           u == [t EXCEPT !.at = p]
           q == IF t.caught THEN "finally" ELSE "logfailed"
           r == [t EXCEPT !.at = q, !.caught = TRUE]
<1>0. q \in {"finally", "logfailed"} OBVIOUS
<1> HIDE DEF q
<1>1. t \in Thread BY DEF WorkersTyped
<1>2. u \in Thread /\ r \in Thread BY <1>0, <1>1, ThreadAt, ThreadRaised
<1>3. u.job = t.job /\ r.job = t.job BY <1>1 DEF Thread
<1>4. worker' = [worker EXCEPT ![w] = u] \/ worker' = [worker EXCEPT ![w] = r]
  BY <1>1 DEF Go, Raise, WorkersTyped, Thread, q
<1> HIDE DEF t, u, r
<1>5. CASE worker' = [worker EXCEPT ![w] = u]
  BY <1>2, <1>3, <1>5, MovedTyped DEF t
<1>6. CASE worker' = [worker EXCEPT ![w] = r]
  BY <1>2, <1>3, <1>6, MovedTyped DEF t
<1> QED BY <1>4, <1>5, <1>6

\* append_job_log adds one of the lines.
LEMMA AppendTyped ==
    ASSUME log \in [Jobs -> SUBSET Lines], NEW j \in Jobs, NEW l \in Lines, AppendLog(j, l)
    PROVE  log' \in [Jobs -> SUBSET Lines]
BY DEF AppendLog

\* A progress event leaves a percentage in the file, or is lost.
LEMMA ReportTyped ==
    ASSUME file \in [Jobs -> 0..100], faults \in 0..MaxFaults, NEW j \in Jobs,
           NEW p \in 0..100, Report(j, p)
    PROVE  file' \in [Jobs -> 0..100] /\ faults' \in 0..MaxFaults
BY DEF Report, Fault

\* A step of the Builder goes to a stage.
LEMMA StepTyped ==
    ASSUME builder \in [Jobs -> Stages], NEW j \in Jobs, NEW a, NEW b \in Stages,
           Step(j, a, b)
    PROVE  builder' \in [Jobs -> Stages]
BY DEF Step

\* _update_job keeps the types: the file or the faults change, the worker moves.
LEMMA RecordTyped ==
    ASSUME TypeOK, NEW w \in Workers, worker[w].job \in Jobs, NEW f \in File,
           NEW next \in Places, Record(w, f, next)
    PROVE  TypeOK'
<1>1. job' \in [Jobs -> File] /\ faults' \in 0..MaxFaults
  <2>1. job \in [Jobs -> File] /\ faults \in 0..MaxFaults BY Typed
  <2>2. CASE job' = [job EXCEPT ![worker[w].job] = f] /\ UNCHANGED faults
    BY <2>1, <2>2
  <2>3. CASE Fault /\ UNCHANGED job
    BY <2>1, <2>3 DEF Fault
  <2> QED BY <2>2, <2>3 DEF Record
<1>2. WorkersTyped'
  BY Typed, GoTyped DEF Record
<1>3. QED
  BY <1>1, <1>2 DEF Record, TypeOK, File, Thread, WorkersTyped, build

\* append_job_log keeps the types: the log or the faults change, the worker moves.
LEMMA NoteTyped ==
    ASSUME TypeOK, NEW w \in Workers, worker[w].job \in Jobs, NEW l \in Lines,
           NEW next \in Places, Note(w, l, next),
           beat' \in [Jobs -> {"off", "waiting", "stamping"}]
    PROVE  TypeOK'
<1>1. log' \in [Jobs -> SUBSET Lines] /\ faults' \in 0..MaxFaults
  <2>1. CASE AppendLog(worker[w].job, l) /\ UNCHANGED faults
    BY <2>1, Typed, AppendTyped
  <2>2. CASE Fault /\ UNCHANGED log
    BY <2>2, Typed DEF Fault
  <2> QED BY <2>1, <2>2 DEF Note
<1>2. WorkersTyped'
  BY Typed, GoTyped DEF Note
<1> QED BY <1>1, <1>2 DEF Note, TypeOK, WorkersTyped, Thread, build

\* What a page shows of a progress is a percentage.
LEMMA MergedTyped ==
    ASSUME NEW s, NEW p \in 0..100, NEW q \in 0..100
    PROVE  Merged(s, p, q) \in 0..100
BY DEF Merged, Larger

\* The initial values have their types.
LEMMA InitTypes == Init => TypeOK
BY DEF Init, TypeOK, Absent, NoFile, IdleLoop, IdleWorker, Statuses, Lines, Places,
       Loops, ActiveStatuses, FinalStatuses

\* Every step keeps every variable in its type.
LEMMA NextTypes == TypeOK /\ [Next]_vars => TypeOK'
<1> SUFFICES ASSUME TypeOK, [Next]_vars PROVE TypeOK'
    OBVIOUS
<1>1. ASSUME NEW j \in Jobs, CreateJob(j) PROVE TypeOK'
  <2>1. job' \in [Jobs -> File] /\ faults' \in 0..MaxFaults
    BY <1>1, Typed DEF CreateJob, Fault, File, Statuses, ActiveStatuses
  <2>2. loop' = [loop EXCEPT !.at = "log", !.job = j] \/ UNCHANGED loop
    BY <1>1 DEF CreateJob
  <2>3. loop' \in [at : Loops, job : Jobs \cup {None}, status : Statuses,
                  progress : 0..100, lines : SUBSET Lines]
    <3>1. CASE loop' = [loop EXCEPT !.at = "log", !.job = j]
      BY <3>1 DEF TypeOK, Loops
    <3>2. CASE UNCHANGED loop
      BY <3>2 DEF TypeOK
    <3> QED BY <2>2, <3>1, <3>2
  <2>4. loop'.at # "idle" => loop'.job \in Jobs
    BY <2>2 DEF TypeOK
  <2> QED BY <1>1, <2>1, <2>3, <2>4 DEF CreateJob, TypeOK, File, build
<1>2. CASE PageMerge
  <2>1. Merged(loop.status, loop.progress, file[loop.job]) \in 0..100
    BY <1>2, MergedTyped DEF PageMerge, TypeOK
  <2> QED BY <1>2, <2>1 DEF PageMerge, TypeOK, Loops, records, build, bounds
<1>3. ASSUME NEW w \in Workers, TakeJob(w) PROVE TypeOK'
  <2> DEFINE t == Begun(Head(queue))
  <2>1. Head(queue) \in Jobs /\ Tail(queue) \in Seq(Jobs)
    BY <1>3 DEF TakeJob, TypeOK
  <2>2. t \in Thread /\ t.job \in Jobs
    BY <2>1, ThreadBegun
  <2>3. WorkersTyped'
    BY <1>3, <2>2, Typed DEF TakeJob, WorkersTyped
  <2> QED BY <1>3, <2>1, <2>3 DEF TakeJob, TypeOK, WorkersTyped, Thread, records, build, bounds
<1>4. ASSUME NEW w \in Workers, BeginJob(w) PROVE TypeOK'
  <2>1. /\ [status |-> "running", progress |-> 2] \in File
        /\ "check" \in Places
        /\ worker[w].job \in Jobs
    BY <1>4 DEF BeginJob, TypeOK, File, Statuses, ActiveStatuses, FinalStatuses, Places
  <2> QED BY <1>4, <2>1, RecordTyped DEF BeginJob
<1>5. ASSUME NEW w \in Workers, NEW ok \in BOOLEAN, Preflight(w, ok) PROVE TypeOK'
  <2>1. worker[w].job \in Jobs /\ "checked" \in Lines /\ {"progress", "refuse"} \subseteq Places
    BY <1>5 DEF Preflight, TypeOK, Lines, Places
  <2>2. beat' \in [Jobs -> {"off", "waiting", "stamping"}]
    BY <1>5 DEF Preflight, TypeOK
  <2> QED BY <1>5, <2>1, <2>2, NoteTyped DEF Preflight
<1>6. ASSUME NEW w \in Workers, RecordRefused(w) PROVE TypeOK'
  <2>1. /\ [status |-> "failed", progress |-> 2] \in File
        /\ "finally" \in Places
        /\ worker[w].job \in Jobs
    BY <1>6 DEF RecordRefused, TypeOK, File, Statuses, ActiveStatuses, FinalStatuses, Places
  <2> QED BY <1>6, <2>1, RecordTyped DEF RecordRefused
<1>7. ASSUME NEW w \in Workers, RecordBuilder(w) PROVE TypeOK'
  <2>1. /\ [status |-> "running", progress |-> 5] \in File
        /\ "announce" \in Places
        /\ worker[w].job \in Jobs
    BY <1>7 DEF RecordBuilder, TypeOK, File, Statuses, ActiveStatuses, FinalStatuses, Places
  <2> QED BY <1>7, <2>1, RecordTyped DEF RecordBuilder
<1>8. ASSUME NEW w \in Workers, AnnounceJob(w) PROVE TypeOK'
  <2>1. worker[w].job \in Jobs /\ "starting" \in Lines /\ {"launch"} \subseteq Places
    BY <1>8 DEF AnnounceJob, TypeOK, Lines, Places
  <2>2. beat' \in [Jobs -> {"off", "waiting", "stamping"}]
    BY <1>8, <2>1 DEF AnnounceJob, TypeOK
  <2> QED BY <1>8, <2>1, <2>2, NoteTyped DEF AnnounceJob
<1>9. ASSUME NEW w \in Workers, Launch(w) PROVE TypeOK'
  <2>1. worker[w].job \in Jobs /\ {"wait", "logfailed"} \subseteq Places
    BY <1>9 DEF Launch, TypeOK, Places
  <2>2. WorkersTyped'
    BY <1>9, <2>1, Typed, GoTyped DEF Launch
  <2>3. builder' \in [Jobs -> Stages]
    BY <1>9, <2>1, Typed DEF Launch, Stages, Live
  <2>4. Deleted(worker[w].job) \in [Paths -> Archive] /\ out \in [Paths -> Archive]
    BY <2>1, DeletedTyped DEF TypeOK, Archive
  <2>5. out' \in [Paths -> Archive]
    BY <1>9, <2>4 DEF Launch
  <2> QED BY <1>9, <2>2, <2>3, <2>5
          DEF Launch, TypeOK, WorkersTyped, Thread, Stages, Archive, records, bounds
<1>10. ASSUME NEW w \in Workers, BuilderReturns(w) PROVE TypeOK'
  <2>1. worker[w].job \in Jobs /\ {"logcomplete", "logfailed"} \subseteq Places
    BY <1>10 DEF BuilderReturns, TypeOK, Places
  <2>2. WorkersTyped'
    BY <1>10, <2>1, Typed, GoTyped DEF BuilderReturns
  <2> QED BY <1>10, <2>2 DEF BuilderReturns, TypeOK, WorkersTyped, Thread, records, build, bounds
<1>11. ASSUME NEW w \in Workers, BuildTimesOut(w) PROVE TypeOK'
  <2>1. worker[w].job \in Jobs /\ "logfailed" \in Places
    BY <1>11 DEF BuildTimesOut, TypeOK, Places
  <2>2. WorkersTyped'
    BY <1>11, <2>1, Typed, GoTyped DEF BuildTimesOut
  <2>3. builder' \in [Jobs -> Stages]
    BY <1>11, <2>1, Typed DEF BuildTimesOut, Stages
  <2>4. timeouts' \in 0..MaxTimeouts
    BY <1>11 DEF BuildTimesOut, TypeOK
  <2> QED BY <1>11, <2>2, <2>3, <2>4
          DEF BuildTimesOut, TypeOK, WorkersTyped, Thread, Stages, records
<1>12. ASSUME NEW w \in Workers, LogComplete(w) PROVE TypeOK'
  <2>1. worker[w].job \in Jobs /\ "complete" \in Lines /\ {"succeed"} \subseteq Places
    BY <1>12 DEF LogComplete, TypeOK, Lines, Places
  <2>2. beat' \in [Jobs -> {"off", "waiting", "stamping"}]
    BY <1>12 DEF LogComplete, TypeOK
  <2> QED BY <1>12, <2>1, <2>2, NoteTyped DEF LogComplete
<1>13. ASSUME NEW w \in Workers, RecordSucceeded(w) PROVE TypeOK'
  <2>1. /\ [status |-> "succeeded", progress |-> 100] \in File
        /\ "finally" \in Places
        /\ worker[w].job \in Jobs
    BY <1>13 DEF RecordSucceeded, TypeOK, File, Statuses, ActiveStatuses, FinalStatuses, Places
  <2> QED BY <1>13, <2>1, RecordTyped DEF RecordSucceeded
<1>14. ASSUME NEW w \in Workers, LogFailed(w) PROVE TypeOK'
  <2>1. worker[w].job \in Jobs /\ "failed" \in Lines /\ {"fail", "read"} \subseteq Places
    BY <1>14 DEF LogFailed, TypeOK, Lines, Places
  <2>2. beat' \in [Jobs -> {"off", "waiting", "stamping"}]
    BY <1>14 DEF LogFailed, TypeOK
  <2> QED BY <1>14, <2>1, <2>2, NoteTyped DEF LogFailed
<1>15. ASSUME NEW w \in Workers, ReadProgress(w) PROVE TypeOK'
  <2> DEFINE j == worker[w].job
             seen == Larger(5, Shown(j))
             t == [worker[w] EXCEPT !.at = "fail", !.seen = seen]
  <2>1. j \in Jobs /\ worker[w] \in Thread
    BY <1>15, Typed DEF ReadProgress, WorkersTyped
  <2>2. job[j].progress \in 0..100 /\ file[j] \in 0..100
    BY <2>1, Typed DEF File
  <2>3. Shown(j) \in 0..100
    BY <2>2, MergedTyped DEF Shown
  <2>4. seen \in 0..100
    BY <2>3 DEF Larger
  <2>5. t \in Thread /\ t.job = j
    BY <2>1, <2>4 DEF Thread, Places
  <2>6. worker' = [worker EXCEPT ![w] = t]
    BY <1>15, Typed DEF ReadProgress, WorkersTyped, Thread
  <2>7. WorkersTyped'
    BY <2>1, <2>5, <2>6, Typed, MovedTyped
  <2> QED BY <1>15, <2>7 DEF ReadProgress, TypeOK, WorkersTyped, Thread, records, build, bounds
<1>16. ASSUME NEW w \in Workers, RecordFailed(w) PROVE TypeOK'
  <2> DEFINE j == worker[w].job
             p == IF worker[w].caught THEN job[j].progress ELSE worker[w].seen
             f == [status |-> "failed", progress |-> p]
  <2>1. f \in File /\ "finally" \in Places /\ j \in Jobs
    BY <1>16 DEF RecordFailed, TypeOK, File, Statuses, FinalStatuses, Places
  <2>2. Record(w, f, "finally")
    BY <1>16 DEF RecordFailed
  <2> QED BY <2>1, <2>2, RecordTyped
<1>17. ASSUME NEW j \in Jobs, HeartbeatStamp(j) PROVE TypeOK'
  <2>1. \/ beat' = [beat EXCEPT ![j] = "waiting"] /\ UNCHANGED faults
        \/ beat' = [beat EXCEPT ![j] = "off"] /\ Fault
    BY <1>17 DEF HeartbeatStamp
  <2>2. beat' \in [Jobs -> {"off", "waiting", "stamping"}]
    BY <2>1 DEF TypeOK
  <2>3. faults' \in 0..MaxFaults
    BY <2>1, Typed DEF Fault
  <2> QED BY <1>17, <2>2, <2>3 DEF HeartbeatStamp, TypeOK, records, build
<1>18. ASSUME NEW j \in Jobs, BuilderStarts(j) PROVE TypeOK'
  <2>1. builder' \in [Jobs -> Stages]
    BY <1>18, Typed, StepTyped DEF BuilderStarts, Stages, Live
  <2>2. file' \in [Jobs -> 0..100] /\ faults' \in 0..MaxFaults
    BY <1>18, Typed, ReportTyped DEF BuilderStarts
  <2> QED BY <1>18, <2>1, <2>2 DEF BuilderStarts, Step, TypeOK, Stages, records, manager
<1>19. ASSUME NEW j \in Jobs, BuilderTags(j) PROVE TypeOK'
  <2>1. builder' \in [Jobs -> Stages]
    BY <1>19, Typed, StepTyped DEF BuilderTags, Stages, Live
  <2>2. file' \in [Jobs -> 0..100] /\ faults' \in 0..MaxFaults
    BY <1>19, Typed, ReportTyped DEF BuilderTags
  <2> QED BY <1>19, <2>1, <2>2 DEF BuilderTags, Step, TypeOK, Stages, records, manager
<1>20. ASSUME NEW j \in Jobs, BuilderExports(j) PROVE TypeOK'
  <2>1. builder' \in [Jobs -> Stages]
    BY <1>20, Typed, StepTyped DEF BuilderExports, Stages, Live
  <2>2. file' \in [Jobs -> 0..100] /\ faults' \in 0..MaxFaults
    BY <1>20, Typed, ReportTyped DEF BuilderExports
  <2> QED BY <1>20, <2>1, <2>2 DEF BuilderExports, Step, TypeOK, Stages, records, manager
<1>21. ASSUME NEW j \in Jobs, BuilderPackages(j) PROVE TypeOK'
  <2>1. builder' \in [Jobs -> Stages]
    BY <1>21, Typed, StepTyped DEF BuilderPackages, Stages, Live
  <2>2. file' \in [Jobs -> 0..100] /\ faults' \in 0..MaxFaults
    BY <1>21, Typed, ReportTyped DEF BuilderPackages
  <2>3. out' \in [Paths -> Archive]
    BY <1>21 DEF BuilderPackages, TypeOK, NoFile, Archive
  <2> QED BY <1>21, <2>1, <2>2, <2>3
          DEF BuilderPackages, Step, TypeOK, Stages, Archive, records, manager
<1>22. ASSUME NEW j \in Jobs, BuilderOpensOutput(j) PROVE TypeOK'
  <2>1. builder' \in [Jobs -> Stages]
    BY <1>22, Typed, StepTyped DEF BuilderOpensOutput, Stages, Live
  <2>3. out' \in [Paths -> [of : Jobs \cup {None}, images : Jobs \cup {None}, whole : BOOLEAN]]
    BY <1>22 DEF BuilderOpensOutput, TypeOK
  <2> QED BY <1>22, <2>1, <2>3 DEF BuilderOpensOutput, Step, TypeOK, Stages, records, manager
<1>23. ASSUME NEW j \in Jobs, BuilderWritesOutput(j) PROVE TypeOK'
  <2>1. builder' \in [Jobs -> Stages]
    BY <1>23, Typed, StepTyped DEF BuilderWritesOutput, Stages, Live
  <2>2. file' \in [Jobs -> 0..100] /\ faults' \in 0..MaxFaults
    BY <1>23, Typed, ReportTyped DEF BuilderWritesOutput
  <2> DEFINE a == out[request[j].path]
  <2>3. out \in [Paths -> Archive] /\ request[j].path \in Paths
    BY DEF TypeOK, Archive
  <2>4. (IF a.of = j THEN [of |-> j, images |-> a.images, whole |-> TRUE] ELSE a) \in Archive
    BY <2>3 DEF Archive
  <2>5. out' \in [Paths -> Archive]
    BY <1>23, <2>3, <2>4 DEF BuilderWritesOutput
  <2> QED BY <1>23, <2>1, <2>2, <2>5
          DEF BuilderWritesOutput, Step, TypeOK, Stages, Archive, records, manager
<1>24. ASSUME NEW j \in Jobs, BuilderVerifies(j) PROVE TypeOK'
  <2>1. builder' \in [Jobs -> Stages]
    BY <1>24, Typed, StepTyped DEF BuilderVerifies, Stages, Live
  <2>2. file' \in [Jobs -> 0..100] /\ faults' \in 0..MaxFaults
    BY <1>24, Typed, ReportTyped DEF BuilderVerifies
  <2> QED BY <1>24, <2>1, <2>2 DEF BuilderVerifies, Step, TypeOK, Stages, records, manager
<1>25. ASSUME NEW j \in Jobs, BuilderFails(j) PROVE TypeOK'
  <2>1. builder' \in [Jobs -> Stages]
    BY <1>25, Typed, StepTyped DEF BuilderFails, Stages
  <2>2. file' \in [Jobs -> 0..100] /\ faults' \in 0..MaxFaults
    BY <1>25, Typed, ReportTyped DEF BuilderFails
  <2> QED BY <1>25, <2>1, <2>2 DEF BuilderFails, Step, TypeOK, Stages, records, manager
<1>26. CASE RestartManager
  <2>1. WorkersTyped'
    BY <1>26 DEF RestartManager, WorkersTyped, IdleWorker, Thread, Places
  <2>2. restarts' \in 0..MaxRestarts
    BY <1>26 DEF RestartManager, TypeOK
  <2> QED BY <1>26, <2>1, <2>2
          DEF RestartManager, TypeOK, WorkersTyped, Thread, IdleLoop, Loops, Statuses,
              records, build
<1>27. ASSUME NEW j \in Jobs, PageReadJob(j) PROVE TypeOK'
  BY <1>27 DEF PageReadJob, TypeOK, IdleLoop, Loops, records, build, bounds
<1>28. CASE CreateLog
  <2>1. CASE AppendLog(loop.job, "queued") /\ loop' = [loop EXCEPT !.at = "latest"]
             /\ UNCHANGED faults
    BY <1>28, <2>1 DEF CreateLog, TypeOK, AppendLog, Lines, Loops, build
  <2>2. CASE Fault /\ loop' = IdleLoop /\ UNCHANGED log
    BY <1>28, <2>2 DEF CreateLog, Fault, TypeOK, IdleLoop, Loops, Statuses, build
  <2> QED BY <1>28, <2>1, <2>2 DEF CreateLog
<1>29. CASE CreateLatest
  <2>1. CASE latest' = loop.job /\ loop' = [loop EXCEPT !.at = "submit"] /\ UNCHANGED faults
    BY <1>29, <2>1 DEF CreateLatest, TypeOK, Loops, build
  <2>2. CASE Fault /\ loop' = IdleLoop /\ UNCHANGED latest
    <3>1. faults' \in 0..MaxFaults
      BY <2>2, Typed DEF Fault
    <3>2. /\ loop' \in [at : Loops, job : Jobs \cup {None}, status : Statuses,
                        progress : 0..100, lines : SUBSET Lines]
          /\ loop'.at = "idle"
      BY <2>2 DEF IdleLoop, Loops, Statuses
    <3>3. UNCHANGED <<job, request, log, latest, queue, worker, beat, stopped,
                      builder, file, tag, saved, out, restarts, timeouts>>
      BY <1>29, <2>2 DEF CreateLatest, build
    <3> QED BY <3>1, <3>2, <3>3 DEF TypeOK
  <2> QED BY <1>29, <2>1, <2>2 DEF CreateLatest
<1>30. CASE CreateSubmit
  <2>1. /\ loop' \in [at : Loops, job : Jobs \cup {None}, status : Statuses,
                      progress : 0..100, lines : SUBSET Lines]
        /\ loop'.at = "idle"
    BY <1>30 DEF CreateSubmit, IdleLoop, Loops, Statuses
  <2>2. queue' \in Seq(Jobs)
    BY <1>30 DEF CreateSubmit, TypeOK
  <2>3. UNCHANGED <<job, request, log, latest, worker, beat, stopped, builder, file,
                    tag, saved, out, restarts, timeouts, faults>>
    BY <1>30 DEF CreateSubmit, records, build, bounds
  <2> QED BY <2>1, <2>2, <2>3 DEF TypeOK
<1>31. CASE PageReadLog
  BY <1>31 DEF PageReadLog, TypeOK, Loops, records, build, bounds
<1>32. CASE PageReply
  <2>1. /\ loop' \in [at : Loops, job : Jobs \cup {None}, status : Statuses,
                      progress : 0..100, lines : SUBSET Lines]
        /\ loop'.at = "idle"
    BY <1>32 DEF PageReply, IdleLoop, Loops, Statuses
  <2>2. UNCHANGED <<job, request, log, latest, queue, worker, beat, stopped, builder,
                    file, tag, saved, out, restarts, timeouts, faults>>
    BY <1>32 DEF PageReply, records, build, bounds
  <2> QED BY <2>1, <2>2 DEF TypeOK
<1>33. ASSUME NEW w \in Workers, StopHeartbeat(w) PROVE TypeOK'
  BY <1>33 DEF StopHeartbeat, TypeOK, IdleWorker, Places, records, build, bounds
<1>34. ASSUME NEW j \in Jobs, HeartbeatCheck(j) PROVE TypeOK'
  BY <1>34 DEF HeartbeatCheck, TypeOK, records, build, bounds
<1>35. CASE UNCHANGED vars
  BY <1>35 DEF vars, TypeOK
<1>36. ASSUME NEW w \in Workers, PreflightRaises(w) PROVE TypeOK'
  <2>1. worker[w].job \in Jobs /\ "check" \in Places
    BY <1>36 DEF PreflightRaises, TypeOK, Places
  <2>2. WorkersTyped'
    BY <1>36, <2>1, Typed, GoTyped DEF PreflightRaises
  <2> QED BY <1>36, <2>2
          DEF PreflightRaises, TypeOK, WorkersTyped, Thread, records, build, bounds
<1>37. QED
  BY <1>1, <1>2, <1>3, <1>4, <1>5, <1>6, <1>7, <1>8, <1>9, <1>10, <1>11, <1>12,
     <1>13, <1>14, <1>15, <1>16, <1>17, <1>18, <1>19, <1>20, <1>21, <1>22,
     <1>23, <1>24, <1>25, <1>26, <1>27, <1>28, <1>29, <1>30, <1>31, <1>32,
     <1>33, <1>34, <1>35, <1>36
     DEF Next, Create, ReadPage, RunJob, Heartbeat, Build

\* Type correctness of the job records, the threads, the Builders and the files.
THEOREM TypeCorrect == Spec => []TypeOK
<1>1. Init => TypeOK BY InitTypes
<1>2. TypeOK /\ [Next]_vars => TypeOK' BY NextTypes
<1>3. QED BY <1>1, <1>2, PTL DEF Spec

-----------------------------------------------------------------------------
(* A job is in one place at a time.                                        *)

Creating == loop.at \in {"log", "latest", "submit"}
Before == {"begin", "check", "refuse", "progress", "announce", "launch"}
Fresh(j) == job[j].status = "queued" /\ builder[j] = "off"

\* A job waits in the executor's queue at most once, and not yet started.
QueueInv ==
    /\ \A i \in 1..Len(queue) : Fresh(queue[i])
    /\ \A i, k \in 1..Len(queue) : queue[i] = queue[k] => i = k

\* A job being created is in no other place.
LoopInv ==
    Creating =>
        /\ Fresh(loop.job)
        /\ \A i \in 1..Len(queue) : queue[i] # loop.job
        /\ \A w \in Workers : worker[w].job # loop.job

\* A worker's job left the queue, is its alone, and has no outcome until the
\* finally block; its Builder starts where the worker starts it.
Held(w) ==
    /\ worker[w].at = "idle" => worker[w].job = None
    /\ \A i \in 1..Len(queue) : queue[i] # worker[w].job
    /\ \A v \in Workers :
          worker[v].job = worker[w].job => worker[w].job = None \/ v = w
    /\ worker[w].at = "begin" => Fresh(worker[w].job)
    /\ worker[w].at \in Before => builder[worker[w].job] = "off"
    /\ worker[w].at \notin {"idle", "finally"} => Active(worker[w].job)
    /\ worker[w].at = "finally" => job[worker[w].job].status # "absent"
WorkerInv == \A w \in Workers : Held(w)

\* A job that was never created has no Builder.
AbsentInv == \A j \in Jobs : job[j].status = "absent" => builder[j] = "off"

PlaceInv == QueueInv /\ LoopInv /\ WorkerInv /\ AbsentInv

\* What the worker has seen before it writes an outcome.
Seen(w) ==
    /\ worker[w].at \in {"logcomplete", "succeed"} => builder[worker[w].job] = "ok"
    /\ worker[w].at = "succeed" => "complete" \in log[worker[w].job]
    /\ worker[w].at \in {"read", "fail"} => "failed" \in log[worker[w].job]
    /\ worker[w].at = "refuse" => "checked" \in log[worker[w].job]
OutcomeInv == OutcomeIsBacked /\ \A w \in Workers : Seen(w)

\* A step of a worker that touches its own job only and keeps it active, or leaves
\* it to the finally block.
LEMMA MovePlaces ==
    ASSUME TypeOK, PlaceInv, NEW w \in Workers, worker[w].at \notin {"idle", "finally"},
           UNCHANGED <<queue, loop>>,
           \A k \in Jobs : k # worker[w].job => job'[k] = job[k] /\ builder'[k] = builder[k],
           \A v \in Workers : v # w => worker'[v] = worker[v],
           worker'[w].job = worker[w].job, worker'[w].at \notin {"idle", "begin"},
           worker'[w].at \in Before => builder'[worker[w].job] = "off",
           worker'[w].at # "finally" => job'[worker[w].job].status \in ActiveStatuses,
           job'[worker[w].job].status # "absent"
    PROVE  PlaceInv'
<1>1. /\ worker[w].job \in Jobs
      /\ \A i \in 1..Len(queue) : queue[i] \in Jobs
      /\ Creating => loop.job \in Jobs
      /\ \A v \in Workers : worker[v].at # "idle" => worker[v].job \in Jobs
  BY DEF TypeOK, Creating
<1>2. /\ \A i \in 1..Len(queue) : queue[i] # worker[w].job
      /\ \A v \in Workers : worker[v].job = worker[w].job => v = w
  BY <1>1 DEF PlaceInv, WorkerInv, Held
<1>3. QueueInv'
  BY <1>1, <1>2 DEF PlaceInv, QueueInv, Fresh
<1>4. LoopInv'
  <2>1. Creating => loop.job # worker[w].job
    BY DEF PlaceInv, LoopInv
  <2>2. \A v \in Workers : worker'[v].job = worker[v].job
    OBVIOUS
  <2> QED BY <1>1, <2>1, <2>2 DEF PlaceInv, LoopInv, Fresh, Creating
<1>5. WorkerInv'
  <2> SUFFICES ASSUME NEW u \in Workers PROVE Held(u)'
    BY DEF WorkerInv
  <2>1. \A v \in Workers : worker'[v].job = worker[v].job
    OBVIOUS
  <2>2. CASE u = w
    BY <1>2, <2>1, <2>2 DEF Held, Active
  <2>3. CASE u # w
    <3>1. worker'[u] = worker[u]
      BY <2>3
    <3>2. worker[u].at # "idle" =>
             /\ worker[u].job \in Jobs /\ worker[u].job # worker[w].job
             /\ job'[worker[u].job] = job[worker[u].job]
             /\ builder'[worker[u].job] = builder[worker[u].job]
      BY <1>1, <1>2, <2>3
    <3>3. worker[u].at = "begin" \/ worker[u].at \in Before => worker[u].at # "idle"
      BY DEF Before
    <3> QED BY <2>1, <3>1, <3>2, <3>3 DEF PlaceInv, WorkerInv, Held, Fresh, Active
  <2> QED BY <2>2, <2>3
<1>6. AbsentInv'
  BY <1>1 DEF PlaceInv, AbsentInv
<1> QED BY <1>3, <1>4, <1>5, <1>6 DEF PlaceInv

\* _update_job by a worker: the status it writes goes with the place it goes to.
LEMMA RecordPlaces ==
    ASSUME TypeOK, PlaceInv, NEW w \in Workers, worker[w].at \notin {"idle", "finally"},
           NEW f, f.status \in {"running", "succeeded", "failed"},
           NEW next \in Places \ {"idle", "begin"}, Record(w, f, next),
           next \in Before => builder[worker[w].job] = "off",
           next = "finally" \/ f.status = "running"
    PROVE  PlaceInv'
<1>1. worker[w].job \in Jobs /\ Active(worker[w].job)
  BY DEF TypeOK, PlaceInv, WorkerInv, Held
<1>2. UNCHANGED <<queue, loop, builder>>
  BY DEF Record, build
<1>3. \A k \in Jobs : k # worker[w].job => job'[k] = job[k]
  BY DEF Record, TypeOK
<1>4. \A v \in Workers : v # w => worker'[v] = worker[v]
  BY DEF Record, Go, Raise, TypeOK
<1>5. \/ /\ job'[worker[w].job] = f
         /\ worker'[w].job = worker[w].job /\ worker'[w].at = next
      \/ /\ job'[worker[w].job] = job[worker[w].job]
         /\ worker'[w].job = worker[w].job /\ worker'[w].at \in {"finally", "logfailed"}
  BY <1>1 DEF Record, Go, Raise, TypeOK
<1> QED BY <1>1, <1>2, <1>3, <1>4, <1>5, MovePlaces DEF Active, ActiveStatuses, Before

\* A worker that goes on with its job, or raises, without touching the job's file.
LEMMA GoPlaces ==
    ASSUME TypeOK, PlaceInv, NEW w \in Workers, worker[w].at \notin {"idle", "finally"},
           UNCHANGED <<job, queue, loop, builder>>, NEW next \in Places \ {"idle", "begin"},
           Go(w, next) \/ Raise(w),
           next \in Before => builder[worker[w].job] = "off"
    PROVE  PlaceInv'
<1>1. worker[w].job \in Jobs /\ Active(worker[w].job)
  BY DEF TypeOK, PlaceInv, WorkerInv, Held
<1>2. \A v \in Workers : v # w => worker'[v] = worker[v]
  BY DEF Go, Raise, TypeOK
<1>3. worker'[w].job = worker[w].job /\ worker'[w].at \in {next, "finally", "logfailed"}
  BY DEF Go, Raise, TypeOK
<1> QED BY <1>1, <1>2, <1>3, MovePlaces DEF Active, ActiveStatuses, Before

\* Every step keeps each job in one place.
LEMMA NextPlaces == TypeOK /\ PlaceInv /\ [Next]_vars => PlaceInv'
<1> SUFFICES ASSUME TypeOK, PlaceInv, [Next]_vars PROVE PlaceInv'
    OBVIOUS
<1>1. ASSUME NEW j \in Jobs, CreateJob(j) PROVE PlaceInv'
  <2>1. CASE Fault /\ UNCHANGED <<job, loop>>
    BY <1>1, <2>1 DEF CreateJob, build, TypeOK, PlaceInv, QueueInv, LoopInv, WorkerInv, Held, AbsentInv, Creating, Before, Fresh, Active, ActiveStatuses
  <2>2. CASE /\ job' = [job EXCEPT ![j] = [status |-> "queued", progress |-> 1]]
             /\ loop' = [loop EXCEPT !.at = "log", !.job = j]
    <3>1. job[j].status = "absent" /\ builder[j] = "off"
      BY <1>1 DEF CreateJob, Absent, PlaceInv, AbsentInv
    <3>2. \A i \in 1..Len(queue) : queue[i] # j
      BY <3>1 DEF PlaceInv, QueueInv, Fresh
    <3>6. \A w \in Workers : worker[w].job # j
      <4> SUFFICES ASSUME NEW w \in Workers, worker[w].job = j PROVE FALSE
        OBVIOUS
      <4>1. worker[w].at # "idle"
        BY DEF PlaceInv, WorkerInv, Held
      <4> QED BY <3>1, <4>1 DEF PlaceInv, WorkerInv, Held, Active, ActiveStatuses
    <3>3. QueueInv' /\ LoopInv'
      BY <1>1, <2>2, <3>1, <3>2, <3>6 DEF CreateJob, build, TypeOK, PlaceInv, QueueInv, LoopInv, WorkerInv, Held, AbsentInv, Creating, Before, Fresh, Active, ActiveStatuses
    <3>4. WorkerInv'
      BY <1>1, <2>2, <3>1, <3>2, <3>6 DEF CreateJob, build, TypeOK, PlaceInv, QueueInv, LoopInv, WorkerInv, Held, AbsentInv, Creating, Before, Fresh, Active, ActiveStatuses
    <3>5. AbsentInv'
      <4>1. UNCHANGED builder /\ job'[j].status = "queued"
        BY <1>1, <2>2 DEF CreateJob, build, TypeOK
      <4>2. \A k \in Jobs : k # j => job'[k] = job[k]
        BY <2>2
      <4> QED BY <3>1, <4>1, <4>2 DEF PlaceInv, AbsentInv
    <3> QED BY <3>3, <3>4, <3>5 DEF PlaceInv
  <2> QED BY <1>1, <2>1, <2>2 DEF CreateJob
<1>2. ASSUME NEW w \in Workers, BeginJob(w) PROVE PlaceInv'
  <2>1. /\ worker[w].at \notin {"idle", "finally"}
        /\ "check" \in Places \ {"idle", "begin"}
        /\ "check" \in Before => builder[worker[w].job] = "off"
    BY <1>2 DEF BeginJob, Places, Before, PlaceInv, WorkerInv, Held
  <2> QED BY <1>2, <2>1, RecordPlaces DEF BeginJob
<1>3. ASSUME NEW w \in Workers, RecordRefused(w) PROVE PlaceInv'
  <2>1. /\ worker[w].at \notin {"idle", "finally"}
        /\ "finally" \in Places \ {"idle", "begin"}
        /\ "finally" \in Before => builder[worker[w].job] = "off"
    BY <1>3 DEF RecordRefused, Places, Before, PlaceInv, WorkerInv, Held
  <2> QED BY <1>3, <2>1, RecordPlaces DEF RecordRefused
<1>4. ASSUME NEW w \in Workers, RecordBuilder(w) PROVE PlaceInv'
  <2>1. /\ worker[w].at \notin {"idle", "finally"}
        /\ "announce" \in Places \ {"idle", "begin"}
        /\ "announce" \in Before => builder[worker[w].job] = "off"
    BY <1>4 DEF RecordBuilder, Places, Before, PlaceInv, WorkerInv, Held
  <2> QED BY <1>4, <2>1, RecordPlaces DEF RecordBuilder
<1>5. ASSUME NEW w \in Workers, Launch(w) PROVE PlaceInv'
  <2> DEFINE j == worker[w].job
  <2>1. /\ j \in Jobs /\ UNCHANGED <<job, queue, loop>>
        /\ \A i \in 1..Len(queue) : queue[i] # j
        /\ Creating => loop.job # j
        /\ Active(j)
    BY <1>5 DEF Launch, records, TypeOK, PlaceInv, LoopInv, WorkerInv, Held
  <2>2. \A k \in Jobs : k # j => builder'[k] = builder[k]
    BY <1>5 DEF Launch, TypeOK
  <2>3. \A v \in Workers : v # w => worker'[v] = worker[v]
    BY <1>5 DEF Launch, Go, Raise, TypeOK
  <2>4. worker'[w].job = j /\ worker'[w].at \in {"wait", "logfailed", "finally"}
    BY <1>5 DEF Launch, Go, Raise, TypeOK
  <2> QED BY <1>5, <2>1, <2>2, <2>3, <2>4, MovePlaces DEF Launch, Active, ActiveStatuses, Before
<1>6. ASSUME NEW w \in Workers, RecordSucceeded(w) PROVE PlaceInv'
  <2>1. /\ worker[w].at \notin {"idle", "finally"}
        /\ "finally" \in Places \ {"idle", "begin"}
        /\ "finally" \in Before => builder[worker[w].job] = "off"
    BY <1>6 DEF RecordSucceeded, Places, Before, PlaceInv, WorkerInv, Held
  <2> QED BY <1>6, <2>1, RecordPlaces DEF RecordSucceeded
<1>7. ASSUME NEW w \in Workers, RecordFailed(w) PROVE PlaceInv'
  <2> DEFINE p == IF worker[w].caught THEN job[worker[w].job].progress ELSE worker[w].seen
             f == [status |-> "failed", progress |-> p]
  <2>1. worker[w].at \notin {"idle", "finally"} /\ "finally" \in Places \ {"idle", "begin"}
    BY <1>7 DEF RecordFailed, Places
  <2>2. Record(w, f, "finally")
    BY <1>7 DEF RecordFailed
  <2>3. f.status = "failed"
    OBVIOUS
  <2> HIDE DEF f
  <2> QED BY <2>1, <2>2, <2>3, RecordPlaces DEF Before
<1>16. ASSUME NEW w \in Workers, NEW ok \in BOOLEAN, Preflight(w, ok) PROVE PlaceInv'
  <2> DEFINE next == IF ok THEN "progress" ELSE "refuse"
  <2>1. /\ worker[w].at \notin {"idle", "finally"} /\ next \in Places \ {"idle", "begin"}
        /\ next \in Before => builder[worker[w].job] = "off"
    BY <1>16 DEF Preflight, Places, Before, PlaceInv, WorkerInv, Held
  <2>2. UNCHANGED <<job, queue, loop, builder>> /\ (Go(w, next) \/ Raise(w))
    BY <1>16 DEF Preflight, Note, build
  <2> HIDE DEF next
  <2> QED BY <2>1, <2>2, GoPlaces
<1>17. ASSUME NEW w \in Workers, AnnounceJob(w) PROVE PlaceInv'
  <2> DEFINE next == "launch"
  <2>1. /\ worker[w].at \notin {"idle", "finally"} /\ next \in Places \ {"idle", "begin"}
        /\ next \in Before => builder[worker[w].job] = "off"
    BY <1>17 DEF AnnounceJob, Places, Before, PlaceInv, WorkerInv, Held
  <2>2. UNCHANGED <<job, queue, loop, builder>> /\ (Go(w, next) \/ Raise(w))
    BY <1>17 DEF AnnounceJob, Note, build
  <2> HIDE DEF next
  <2> QED BY <2>1, <2>2, GoPlaces
<1>20. ASSUME NEW w \in Workers, LogComplete(w) PROVE PlaceInv'
  <2> DEFINE next == "succeed"
  <2>1. /\ worker[w].at \notin {"idle", "finally"} /\ next \in Places \ {"idle", "begin"}
        /\ next \in Before => builder[worker[w].job] = "off"
    BY <1>20 DEF LogComplete, Places, Before, PlaceInv, WorkerInv, Held
  <2>2. UNCHANGED <<job, queue, loop, builder>> /\ (Go(w, next) \/ Raise(w))
    BY <1>20 DEF LogComplete, Note, build
  <2> HIDE DEF next
  <2> QED BY <2>1, <2>2, GoPlaces
<1>21. ASSUME NEW w \in Workers, LogFailed(w) PROVE PlaceInv'
  <2> DEFINE next == IF worker[w].caught THEN "fail" ELSE "read"
  <2>1. /\ worker[w].at \notin {"idle", "finally"} /\ next \in Places \ {"idle", "begin"}
        /\ next \in Before => builder[worker[w].job] = "off"
    BY <1>21 DEF LogFailed, Places, Before, PlaceInv, WorkerInv, Held
  <2>2. UNCHANGED <<job, queue, loop, builder>> /\ (Go(w, next) \/ Raise(w))
    BY <1>21 DEF LogFailed, Note, build
  <2> HIDE DEF next
  <2> QED BY <2>1, <2>2, GoPlaces
<1>36. ASSUME NEW w \in Workers, PreflightRaises(w) PROVE PlaceInv'
  <2>1. /\ worker[w].at = "check" /\ Raise(w) /\ "refuse" \in Places \ {"idle", "begin"}
        /\ UNCHANGED <<job, queue, loop, builder>>
        /\ builder[worker[w].job] = "off"
    BY <1>36 DEF PreflightRaises, records, build, Places, PlaceInv, WorkerInv, Held, Before
  <2> QED BY <2>1, GoPlaces
<1> USE DEF TypeOK, PlaceInv, QueueInv, LoopInv, WorkerInv, Held, AbsentInv,
            Creating, Before, Fresh, Active, ActiveStatuses
<1>8. ASSUME NEW j \in Jobs, PageReadJob(j) PROVE PlaceInv'
  BY <1>8 DEF PageReadJob, records, build, bounds, IdleLoop
<1>9. CASE CreateLog
  <2>1. UNCHANGED <<job, queue, worker, builder>>
    BY <1>9 DEF CreateLog, build
  <2>2. Creating' => Creating /\ loop'.job = loop.job
    BY <1>9 DEF CreateLog, IdleLoop
  <2>3. LoopInv'
    BY <2>1, <2>2
  <2>4. QueueInv' /\ WorkerInv' /\ AbsentInv'
    BY <2>1
  <2> QED BY <2>3, <2>4
<1>10. CASE CreateLatest
  BY <1>10 DEF CreateLatest, IdleLoop, build
<1>11. CASE CreateSubmit
  BY <1>11 DEF CreateSubmit, records, build, bounds, IdleLoop
<1>12. CASE PageMerge
  BY <1>12 DEF PageMerge, records, build, bounds
<1>13. CASE PageReadLog
  BY <1>13 DEF PageReadLog, records, build, bounds
<1>14. CASE PageReply
  BY <1>14 DEF PageReply, records, build, bounds, IdleLoop
<1>15. ASSUME NEW w \in Workers, TakeJob(w) PROVE PlaceInv'
  BY <1>15 DEF TakeJob, records, build, bounds, Begun
<1>18. ASSUME NEW w \in Workers, BuilderReturns(w) PROVE PlaceInv'
  BY <1>18 DEF BuilderReturns, Go, records, build
<1>19. ASSUME NEW w \in Workers, BuildTimesOut(w) PROVE PlaceInv'
  BY <1>19 DEF BuildTimesOut, Go, records, Live
<1>22. ASSUME NEW w \in Workers, ReadProgress(w) PROVE PlaceInv'
  BY <1>22 DEF ReadProgress, records, build, bounds
<1>23. ASSUME NEW w \in Workers, StopHeartbeat(w) PROVE PlaceInv'
  BY <1>23 DEF StopHeartbeat, records, build, bounds, IdleWorker
<1>24. ASSUME NEW j \in Jobs, HeartbeatCheck(j) PROVE PlaceInv'
  BY <1>24 DEF HeartbeatCheck, records, build, bounds
<1>25. ASSUME NEW j \in Jobs, HeartbeatStamp(j) PROVE PlaceInv'
  BY <1>25 DEF HeartbeatStamp, records, build
<1>26. ASSUME NEW j \in Jobs, BuilderStarts(j) PROVE PlaceInv'
  BY <1>26 DEF BuilderStarts, Step, records, manager
<1>27. ASSUME NEW j \in Jobs, BuilderTags(j) PROVE PlaceInv'
  BY <1>27 DEF BuilderTags, Step, records, manager
<1>28. ASSUME NEW j \in Jobs, BuilderExports(j) PROVE PlaceInv'
  BY <1>28 DEF BuilderExports, Step, records, manager
<1>29. ASSUME NEW j \in Jobs, BuilderPackages(j) PROVE PlaceInv'
  BY <1>29 DEF BuilderPackages, Step, records, manager
<1>30. ASSUME NEW j \in Jobs, BuilderOpensOutput(j) PROVE PlaceInv'
  BY <1>30 DEF BuilderOpensOutput, Step, records, manager
<1>31. ASSUME NEW j \in Jobs, BuilderWritesOutput(j) PROVE PlaceInv'
  BY <1>31 DEF BuilderWritesOutput, Step, records, manager
<1>32. ASSUME NEW j \in Jobs, BuilderVerifies(j) PROVE PlaceInv'
  BY <1>32 DEF BuilderVerifies, Step, records, manager
<1>33. ASSUME NEW j \in Jobs, BuilderFails(j) PROVE PlaceInv'
  BY <1>33 DEF BuilderFails, Step, records, manager, Live
<1>34. CASE RestartManager
  BY <1>34 DEF RestartManager, IdleLoop, IdleWorker, records, build
<1>35. CASE UNCHANGED vars
  BY <1>35 DEF vars
<1> HIDE DEF TypeOK, PlaceInv, QueueInv, LoopInv, WorkerInv, Held, AbsentInv,
             Creating, Before, Fresh, Active, ActiveStatuses
<1>37. QED
  BY <1>1, <1>2, <1>3, <1>4, <1>5, <1>6, <1>7, <1>8, <1>9, <1>10, <1>11, <1>12,
     <1>13, <1>14, <1>15, <1>16, <1>17, <1>18, <1>19, <1>20, <1>21, <1>22,
     <1>23, <1>24, <1>25, <1>26, <1>27, <1>28, <1>29, <1>30, <1>31, <1>32,
     <1>33, <1>34, <1>35, <1>36
     DEF Next, Create, ReadPage, RunJob, Heartbeat, Build

\* The places of jobs, for every behaviour.
THEOREM PlacesCorrect == Spec => [](TypeOK /\ PlaceInv)
<1>1. Init => PlaceInv
  BY DEF Init, PlaceInv, QueueInv, LoopInv, WorkerInv, Held, AbsentInv, Creating, Before,
         Absent, IdleLoop, IdleWorker
<1>2. Init => TypeOK /\ PlaceInv
  BY <1>1, InitTypes
<1>3. TypeOK /\ PlaceInv /\ [Next]_vars => (TypeOK /\ PlaceInv)'
  BY NextTypes, NextPlaces
<1>4. QED BY <1>2, <1>3, PTL DEF Spec

-----------------------------------------------------------------------------
(* Outcomes stick, and are backed by what happened.                        *)

\* No step changes the file of a job whose status is final.
LEMMA FinalStep == ASSUME TypeOK, PlaceInv, [Next]_vars, NEW k \in Jobs, Final(k)
                   PROVE  job'[k] = job[k]
<1> USE DEF TypeOK, PlaceInv, WorkerInv, Held, Active, Final, ActiveStatuses,
            FinalStatuses
<1>1. ASSUME NEW j \in Jobs, CreateJob(j) PROVE job'[k] = job[k]
  BY <1>1 DEF CreateJob, Fault, Absent
<1>2. ASSUME NEW j \in Jobs, PageReadJob(j) PROVE job'[k] = job[k]
  BY <1>2 DEF PageReadJob, records, build, bounds
<1>3. CASE CreateLog
  BY <1>3 DEF CreateLog
<1>4. CASE CreateLatest
  BY <1>4 DEF CreateLatest
<1>5. CASE CreateSubmit
  BY <1>5 DEF CreateSubmit, records, build, bounds
<1>6. CASE PageMerge
  BY <1>6 DEF PageMerge, records, build, bounds
<1>7. CASE PageReadLog
  BY <1>7 DEF PageReadLog, records, build, bounds
<1>8. CASE PageReply
  BY <1>8 DEF PageReply, records, build, bounds
<1>9. ASSUME NEW w \in Workers, TakeJob(w) PROVE job'[k] = job[k]
  BY <1>9 DEF TakeJob, records, build, bounds
<1>10. ASSUME NEW w \in Workers, BeginJob(w) PROVE job'[k] = job[k]
  BY <1>10 DEF BeginJob, Record, Fault, Go, Raise, build
<1>11. ASSUME NEW w \in Workers, NEW ok \in BOOLEAN, Preflight(w, ok) PROVE job'[k] = job[k]
  BY <1>11 DEF Preflight, Note
<1>12. ASSUME NEW w \in Workers, RecordRefused(w) PROVE job'[k] = job[k]
  BY <1>12 DEF RecordRefused, Record, Fault, Go, Raise, build
<1>13. ASSUME NEW w \in Workers, RecordBuilder(w) PROVE job'[k] = job[k]
  BY <1>13 DEF RecordBuilder, Record, Fault, Go, Raise, build
<1>14. ASSUME NEW w \in Workers, AnnounceJob(w) PROVE job'[k] = job[k]
  BY <1>14 DEF AnnounceJob, Note
<1>15. ASSUME NEW w \in Workers, Launch(w) PROVE job'[k] = job[k]
  BY <1>15 DEF Launch, records, build, bounds
<1>16. ASSUME NEW w \in Workers, BuilderReturns(w) PROVE job'[k] = job[k]
  BY <1>16 DEF BuilderReturns, records, build, bounds
<1>17. ASSUME NEW w \in Workers, BuildTimesOut(w) PROVE job'[k] = job[k]
  BY <1>17 DEF BuildTimesOut, records, build, bounds
<1>18. ASSUME NEW w \in Workers, LogComplete(w) PROVE job'[k] = job[k]
  BY <1>18 DEF LogComplete, Note
<1>19. ASSUME NEW w \in Workers, RecordSucceeded(w) PROVE job'[k] = job[k]
  BY <1>19 DEF RecordSucceeded, Record, Fault, Go, Raise, build
<1>20. ASSUME NEW w \in Workers, LogFailed(w) PROVE job'[k] = job[k]
  BY <1>20 DEF LogFailed, Note
<1>21. ASSUME NEW w \in Workers, ReadProgress(w) PROVE job'[k] = job[k]
  BY <1>21 DEF ReadProgress, records, build, bounds
<1>22. ASSUME NEW w \in Workers, RecordFailed(w) PROVE job'[k] = job[k]
  BY <1>22 DEF RecordFailed, Record, Fault, Go, Raise, build
<1>23. ASSUME NEW w \in Workers, StopHeartbeat(w) PROVE job'[k] = job[k]
  BY <1>23 DEF StopHeartbeat, records, build, bounds
<1>24. ASSUME NEW j \in Jobs, HeartbeatCheck(j) PROVE job'[k] = job[k]
  BY <1>24 DEF HeartbeatCheck, records, build, bounds
<1>25. ASSUME NEW j \in Jobs, HeartbeatStamp(j) PROVE job'[k] = job[k]
  BY <1>25 DEF HeartbeatStamp, records, build, bounds
<1>26. ASSUME NEW j \in Jobs, BuilderStarts(j) PROVE job'[k] = job[k]
  BY <1>26 DEF BuilderStarts, Step, records, manager
<1>27. ASSUME NEW j \in Jobs, BuilderTags(j) PROVE job'[k] = job[k]
  BY <1>27 DEF BuilderTags, Step, records, manager
<1>28. ASSUME NEW j \in Jobs, BuilderExports(j) PROVE job'[k] = job[k]
  BY <1>28 DEF BuilderExports, Step, records, manager
<1>29. ASSUME NEW j \in Jobs, BuilderPackages(j) PROVE job'[k] = job[k]
  BY <1>29 DEF BuilderPackages, Step, records, manager
<1>30. ASSUME NEW j \in Jobs, BuilderOpensOutput(j) PROVE job'[k] = job[k]
  BY <1>30 DEF BuilderOpensOutput, Step, records, manager
<1>31. ASSUME NEW j \in Jobs, BuilderWritesOutput(j) PROVE job'[k] = job[k]
  BY <1>31 DEF BuilderWritesOutput, Step, records, manager
<1>32. ASSUME NEW j \in Jobs, BuilderVerifies(j) PROVE job'[k] = job[k]
  BY <1>32 DEF BuilderVerifies, Step, records, manager
<1>33. ASSUME NEW j \in Jobs, BuilderFails(j) PROVE job'[k] = job[k]
  BY <1>33 DEF BuilderFails, Step, records, manager
<1>34. CASE RestartManager
  BY <1>34 DEF RestartManager, records, build, bounds
<1>35. CASE UNCHANGED vars
  BY <1>35 DEF vars
<1> HIDE DEF TypeOK, PlaceInv, WorkerInv, Held, Active, Final, ActiveStatuses,
             FinalStatuses
<1>36. ASSUME NEW w \in Workers, PreflightRaises(w) PROVE job'[k] = job[k]
  BY <1>36 DEF PreflightRaises, records
<1>37. QED
  BY <1>1, <1>2, <1>3, <1>4, <1>5, <1>6, <1>7, <1>8, <1>9, <1>10, <1>11, <1>12,
     <1>13, <1>14, <1>15, <1>16, <1>17, <1>18, <1>19, <1>20, <1>21, <1>22,
     <1>23, <1>24, <1>25, <1>26, <1>27, <1>28, <1>29, <1>30, <1>31, <1>32,
     <1>33, <1>34, <1>35, <1>36
     DEF Next, Create, ReadPage, RunJob, Heartbeat, Build

\* FinalIsFinal: no heartbeat, surviving Builder, failed write or restart replaces
\* an outcome (_update_job and _heartbeat of build_jobs.py).
THEOREM OutcomesStick == Spec => FinalIsFinal
<1>1. TypeOK /\ PlaceInv /\ [Next]_vars => [\A j \in Jobs : Final(j) => job'[j] = job[j]]_vars
  BY FinalStep
<1>2. QED BY <1>1, PlacesCorrect, PTL DEF Spec, FinalIsFinal

\* A step that touches one job, and the worker that has it, is judged by that job.
LEMMA MoveOutcome ==
    ASSUME TypeOK, PlaceInv, OutcomeInv, NEW w \in Workers, worker[w].at # "idle",
           NEW j \in Jobs, worker[w].job = j,
           \A k \in Jobs : k # j => /\ job'[k] = job[k]
                                    /\ builder'[k] = builder[k]
                                    /\ log'[k] = log[k],
           \A v \in Workers : v # w => worker'[v] = worker[v],
           Backed(j)', Seen(w)'
    PROVE  OutcomeInv'
<1>1. \A k \in Jobs : Backed(k)'
  BY DEF OutcomeInv, OutcomeIsBacked, Backed
<1>2. ASSUME NEW v \in Workers, v # w PROVE Seen(v)'
  <2>1. CASE worker[v].at = "idle"
    BY <1>2, <2>1 DEF Seen
  <2>2. CASE worker[v].at # "idle"
    <3>1. worker[v].job \in Jobs /\ worker[v].job # j
      BY <1>2, <2>2 DEF TypeOK, PlaceInv, WorkerInv, Held
    <3> QED BY <1>2, <3>1 DEF OutcomeInv, Seen
  <2> QED BY <2>1, <2>2
<1> QED BY <1>1, <1>2 DEF OutcomeInv, OutcomeIsBacked

\* The writes of _run_job: what is recorded, and what becomes of a refused write.
LEMMA RecordOutcome ==
    ASSUME TypeOK, PlaceInv, OutcomeInv, NEW w \in Workers, worker[w].at # "idle",
           NEW j \in Jobs, worker[w].job = j, NEW f,
           NEW next \in {"check", "announce", "finally"}, Record(w, f, next),
           \/ f.status = "running"
           \/ f.status = "succeeded" /\ builder[j] = "ok" /\ "complete" \in log[j]
           \/ f.status = "failed" /\ "failed" \in log[j]
           \/ f.status = "failed" /\ "checked" \in log[j] /\ builder[j] = "off"
    PROVE  OutcomeInv'
<1>1. UNCHANGED <<log, builder>>
  BY DEF Record, build
<1>2. /\ \A k \in Jobs : k # j => job'[k] = job[k]
      /\ \A v \in Workers : v # w => worker'[v] = worker[v]
  BY DEF Record, Go, Raise, TypeOK
<1>3. CASE job' = [job EXCEPT ![j] = f] /\ Go(w, next)
  <2>1. job'[j] = f
    BY <1>3 DEF TypeOK
  <2>2. worker'[w].at = next
    BY <1>3 DEF Go, TypeOK
  <2>3. Backed(j)'
    BY <1>1, <2>1 DEF Backed
  <2>4. Seen(w)'
    BY <2>2 DEF Seen
  <2> QED BY <1>1, <1>2, <2>3, <2>4, MoveOutcome
<1>4. CASE Raise(w) /\ UNCHANGED job
  <2>1. Backed(j)'
    BY <1>1, <1>4 DEF OutcomeInv, OutcomeIsBacked, Backed
  <2>2. Seen(w)'
    BY <1>4 DEF Raise, TypeOK, Seen
  <2> QED BY <1>1, <1>2, <1>4, <2>1, <2>2, MoveOutcome
<1> QED BY <1>3, <1>4 DEF Record

\* A worker that writes a line to its job's log and goes on, or raises.
LEMMA GoOutcome ==
    ASSUME TypeOK, PlaceInv, OutcomeInv, NEW w \in Workers,
           worker[w].at \notin {"idle", "finally"}, UNCHANGED <<job, builder>>,
           NEW l, UNCHANGED log \/ AppendLog(worker[w].job, l), NEW next,
           (Go(w, next) /\ Seen(w)') \/ Raise(w)
    PROVE  OutcomeInv'
<1>0. worker[w].at # "idle" /\ worker[w].job \in Jobs
  BY DEF TypeOK
<1> PICK j \in Jobs : j = worker[w].job
  BY <1>0
<1>1. /\ worker[w].job = j
      /\ \A k \in Jobs : k # j => job'[k] = job[k] /\ builder'[k] = builder[k]
                                 /\ log'[k] = log[k]
  BY DEF AppendLog, TypeOK
<1>2. job[j].status \in ActiveStatuses
  BY DEF PlaceInv, WorkerInv, Held, Active
<1>3. Backed(j)'
  BY <1>2 DEF Backed, ActiveStatuses
<1>4. Seen(w)'
  <2>1. CASE Raise(w)
    <3>1. worker'[w].at \in {"finally", "logfailed"}
      BY <2>1 DEF Raise, TypeOK
    <3> QED BY <3>1 DEF Seen
  <2> QED BY <2>1
<1>5. \A v \in Workers : v # w => worker'[v] = worker[v]
  BY DEF Go, Raise, TypeOK
<1> QED BY <1>0, <1>1, <1>3, <1>4, <1>5, MoveOutcome

\* Every step keeps what the outcomes rest on.
LEMMA NextOutcome == TypeOK /\ PlaceInv /\ OutcomeInv /\ [Next]_vars => OutcomeInv'
<1> SUFFICES ASSUME TypeOK, PlaceInv, OutcomeInv, [Next]_vars PROVE OutcomeInv'
    OBVIOUS
<1>1. ASSUME NEW j \in Jobs, CreateJob(j) PROVE OutcomeInv'
  <2>1. UNCHANGED <<worker, log, builder>> /\ builder[j] = "off"
    BY <1>1 DEF CreateJob, build, PlaceInv, AbsentInv, Absent
  <2>2. job'[j].status \in {"absent", "queued"}
    BY <1>1 DEF CreateJob, Absent, TypeOK
  <2>3. \A k \in Jobs : k # j => job'[k] = job[k]
    BY <1>1 DEF CreateJob, TypeOK
  <2>4. \A k \in Jobs : Backed(k)'
    BY <2>1, <2>2, <2>3 DEF OutcomeInv, OutcomeIsBacked, Backed
  <2>5. \A w \in Workers : Seen(w)'
    BY <2>1 DEF OutcomeInv, Seen
  <2> QED BY <2>4, <2>5 DEF OutcomeInv, OutcomeIsBacked
<1>2. ASSUME NEW w \in Workers, BeginJob(w) PROVE OutcomeInv'
  <2> DEFINE j == worker[w].job
             f == [status |-> "running", progress |-> 2]
  <2>1. /\ worker[w].at # "idle" /\ j \in Jobs
        /\ f.status = "failed" => "checked" \in log[j] /\ builder[j] = "off"
        /\ f.status = "succeeded" => "complete" \in log[j] /\ builder[j] = "ok"
    BY <1>2 DEF BeginJob, TypeOK, OutcomeInv, Seen, PlaceInv, WorkerInv, Held, Before
  <2>2. f.status \in {"running", "succeeded", "failed"}
    OBVIOUS
  <2>3. Record(w, f, "check")
    BY <1>2 DEF BeginJob
  <2> HIDE DEF f
  <2> QED BY <2>1, <2>2, <2>3, RecordOutcome
<1>3. ASSUME NEW w \in Workers, RecordRefused(w) PROVE OutcomeInv'
  <2> DEFINE j == worker[w].job
             f == [status |-> "failed", progress |-> 2]
  <2>1. /\ worker[w].at # "idle" /\ j \in Jobs
        /\ f.status = "failed" => "checked" \in log[j] /\ builder[j] = "off"
        /\ f.status = "succeeded" => "complete" \in log[j] /\ builder[j] = "ok"
    BY <1>3 DEF RecordRefused, TypeOK, OutcomeInv, Seen, PlaceInv, WorkerInv, Held, Before
  <2>2. f.status \in {"running", "succeeded", "failed"}
    OBVIOUS
  <2>3. Record(w, f, "finally")
    BY <1>3 DEF RecordRefused
  <2> HIDE DEF f
  <2> QED BY <2>1, <2>2, <2>3, RecordOutcome
<1>4. ASSUME NEW w \in Workers, RecordBuilder(w) PROVE OutcomeInv'
  <2> DEFINE j == worker[w].job
             f == [status |-> "running", progress |-> 5]
  <2>1. /\ worker[w].at # "idle" /\ j \in Jobs
        /\ f.status = "failed" => "checked" \in log[j] /\ builder[j] = "off"
        /\ f.status = "succeeded" => "complete" \in log[j] /\ builder[j] = "ok"
    BY <1>4 DEF RecordBuilder, TypeOK, OutcomeInv, Seen, PlaceInv, WorkerInv, Held, Before
  <2>2. f.status \in {"running", "succeeded", "failed"}
    OBVIOUS
  <2>3. Record(w, f, "announce")
    BY <1>4 DEF RecordBuilder
  <2> HIDE DEF f
  <2> QED BY <2>1, <2>2, <2>3, RecordOutcome
<1>5. ASSUME NEW w \in Workers, Launch(w) PROVE OutcomeInv'
  <2>0. worker[w].at # "idle" /\ worker[w].job \in Jobs
    BY <1>5 DEF Launch, TypeOK
  <2> PICK j \in Jobs : j = worker[w].job
    BY <2>0
  <2>1. /\ worker[w].at # "idle" /\ j \in Jobs /\ UNCHANGED <<job, log>>
        /\ job[j].status \in ActiveStatuses
    BY <1>5 DEF Launch, records, TypeOK, PlaceInv, WorkerInv, Held, Active
  <2>2. /\ \A k \in Jobs : k # j => builder'[k] = builder[k]
        /\ \A v \in Workers : v # w => worker'[v] = worker[v]
    BY <1>5 DEF Launch, Go, Raise, TypeOK
  <2>3. worker'[w].job = j /\ worker'[w].at \in {"wait", "logfailed", "finally"}
    BY <1>5 DEF Launch, Go, Raise, TypeOK
  <2>4. Backed(j)' /\ Seen(w)'
    BY <2>1, <2>3 DEF Backed, Seen, ActiveStatuses
  <2>5. /\ worker[w].job = j
        /\ \A k \in Jobs : k # j => job'[k] = job[k] /\ builder'[k] = builder[k]
                                   /\ log'[k] = log[k]
    BY <2>1, <2>2
  <2>6. worker[w].at # "idle" /\ j \in Jobs /\ Backed(j)' /\ Seen(w)'
    BY <2>1, <2>4
  <2>7. \A v \in Workers : v # w => worker'[v] = worker[v]
    BY <2>2
  <2> QED BY <2>5, <2>6, <2>7, MoveOutcome
<1>6. ASSUME NEW w \in Workers, RecordSucceeded(w) PROVE OutcomeInv'
  <2> DEFINE j == worker[w].job
             f == [status |-> "succeeded", progress |-> 100]
  <2>1. /\ worker[w].at # "idle" /\ j \in Jobs
        /\ f.status = "failed" => "checked" \in log[j] /\ builder[j] = "off"
        /\ f.status = "succeeded" => "complete" \in log[j] /\ builder[j] = "ok"
    BY <1>6 DEF RecordSucceeded, TypeOK, OutcomeInv, Seen, PlaceInv, WorkerInv, Held, Before
  <2>2. f.status \in {"running", "succeeded", "failed"}
    OBVIOUS
  <2>3. Record(w, f, "finally")
    BY <1>6 DEF RecordSucceeded
  <2> HIDE DEF f
  <2> QED BY <2>1, <2>2, <2>3, RecordOutcome
<1>7. ASSUME NEW w \in Workers, RecordFailed(w) PROVE OutcomeInv'
  <2> DEFINE j == worker[w].job
             p == IF worker[w].caught THEN job[j].progress ELSE worker[w].seen
             f == [status |-> "failed", progress |-> p]
  <2>1. worker[w].at # "idle" /\ j \in Jobs /\ "failed" \in log[j]
    BY <1>7 DEF RecordFailed, TypeOK, OutcomeInv, Seen
  <2>2. Record(w, f, "finally")
    BY <1>7 DEF RecordFailed
  <2>3. f.status = "failed"
    OBVIOUS
  <2> HIDE DEF f
  <2> QED BY <2>1, <2>2, <2>3, RecordOutcome
<1>16. ASSUME NEW w \in Workers, NEW ok \in BOOLEAN, Preflight(w, ok) PROVE OutcomeInv'
  <2> DEFINE next == IF ok THEN "progress" ELSE "refuse"
  <2>1. /\ worker[w].at \notin {"idle", "finally"} /\ worker[w].job \in Jobs
        /\ UNCHANGED <<job, builder>>
    BY <1>16 DEF Preflight, Note, build, TypeOK
  <2>2. CASE AppendLog(worker[w].job, "checked") /\ Go(w, next)
    <3>1. worker'[w].at = next /\ worker'[w].job = worker[w].job
      BY <2>2 DEF Go, TypeOK
    <3>2. "checked" \in log'[worker[w].job]
      BY <2>1, <2>2 DEF AppendLog, TypeOK
    <3>3. Seen(w)'
      BY <1>16, <2>1, <3>1, <3>2 DEF Preflight, OutcomeInv, Seen
    <3> QED BY <2>1, <2>2, <3>3, GoOutcome
  <2>3. CASE Raise(w) /\ UNCHANGED log
    BY <2>1, <2>3, GoOutcome
  <2> QED BY <1>16, <2>2, <2>3 DEF Preflight, Note
<1>17. ASSUME NEW w \in Workers, AnnounceJob(w) PROVE OutcomeInv'
  <2> DEFINE next == "launch"
  <2>1. /\ worker[w].at \notin {"idle", "finally"} /\ worker[w].job \in Jobs
        /\ UNCHANGED <<job, builder>>
    BY <1>17 DEF AnnounceJob, Note, build, TypeOK
  <2>2. CASE AppendLog(worker[w].job, "starting") /\ Go(w, next)
    <3>1. worker'[w].at = next /\ worker'[w].job = worker[w].job
      BY <2>2 DEF Go, TypeOK
    <3>2. "starting" \in log'[worker[w].job]
      BY <2>1, <2>2 DEF AppendLog, TypeOK
    <3>3. Seen(w)'
      BY <1>17, <2>1, <3>1, <3>2 DEF AnnounceJob, OutcomeInv, Seen
    <3> QED BY <2>1, <2>2, <3>3, GoOutcome
  <2>3. CASE Raise(w) /\ UNCHANGED log
    BY <2>1, <2>3, GoOutcome
  <2> QED BY <1>17, <2>2, <2>3 DEF AnnounceJob, Note
<1>20. ASSUME NEW w \in Workers, LogComplete(w) PROVE OutcomeInv'
  <2> DEFINE next == "succeed"
  <2>1. /\ worker[w].at \notin {"idle", "finally"} /\ worker[w].job \in Jobs
        /\ UNCHANGED <<job, builder>>
    BY <1>20 DEF LogComplete, Note, build, TypeOK
  <2>2. CASE AppendLog(worker[w].job, "complete") /\ Go(w, next)
    <3>1. worker'[w].at = next /\ worker'[w].job = worker[w].job
      BY <2>2 DEF Go, TypeOK
    <3>2. "complete" \in log'[worker[w].job]
      BY <2>1, <2>2 DEF AppendLog, TypeOK
    <3>3. Seen(w)'
      BY <1>20, <2>1, <3>1, <3>2 DEF LogComplete, OutcomeInv, Seen
    <3> QED BY <2>1, <2>2, <3>3, GoOutcome
  <2>3. CASE Raise(w) /\ UNCHANGED log
    BY <2>1, <2>3, GoOutcome
  <2> QED BY <1>20, <2>2, <2>3 DEF LogComplete, Note
<1>21. ASSUME NEW w \in Workers, LogFailed(w) PROVE OutcomeInv'
  <2> DEFINE next == IF worker[w].caught THEN "fail" ELSE "read"
  <2>1. /\ worker[w].at \notin {"idle", "finally"} /\ worker[w].job \in Jobs
        /\ UNCHANGED <<job, builder>>
    BY <1>21 DEF LogFailed, Note, build, TypeOK
  <2>2. CASE AppendLog(worker[w].job, "failed") /\ Go(w, next)
    <3>1. worker'[w].at = next /\ worker'[w].job = worker[w].job
      BY <2>2 DEF Go, TypeOK
    <3>2. "failed" \in log'[worker[w].job]
      BY <2>1, <2>2 DEF AppendLog, TypeOK
    <3>3. Seen(w)'
      BY <1>21, <2>1, <3>1, <3>2 DEF LogFailed, OutcomeInv, Seen
    <3> QED BY <2>1, <2>2, <3>3, GoOutcome
  <2>3. CASE Raise(w) /\ UNCHANGED log
    BY <2>1, <2>3, GoOutcome
  <2> QED BY <1>21, <2>2, <2>3 DEF LogFailed, Note
<1>36. ASSUME NEW w \in Workers, PreflightRaises(w) PROVE OutcomeInv'
  BY <1>36, GoOutcome DEF PreflightRaises, records, build
<1> USE DEF TypeOK, PlaceInv, WorkerInv, Held, AbsentInv, Before, OutcomeInv,
            OutcomeIsBacked, Backed, Seen, Active, ActiveStatuses
<1>8. ASSUME NEW j \in Jobs, PageReadJob(j) PROVE OutcomeInv'
  BY <1>8 DEF PageReadJob, records, build, bounds, IdleLoop
<1>9. CASE CreateLog
  <2>1. UNCHANGED <<job, worker, builder>>
    BY <1>9 DEF CreateLog, build
  <2>2. \A j \in Jobs : log[j] \subseteq log'[j]
    BY <1>9 DEF CreateLog, AppendLog
  <2> QED BY <2>1, <2>2
<1>10. CASE CreateLatest
  BY <1>10 DEF CreateLatest, build
<1>11. CASE CreateSubmit
  BY <1>11 DEF CreateSubmit, records, build, bounds, IdleLoop
<1>12. CASE PageMerge
  BY <1>12 DEF PageMerge, records, build, bounds
<1>13. CASE PageReadLog
  BY <1>13 DEF PageReadLog, records, build, bounds
<1>14. CASE PageReply
  BY <1>14 DEF PageReply, records, build, bounds, IdleLoop
<1>15. ASSUME NEW w \in Workers, TakeJob(w) PROVE OutcomeInv'
  BY <1>15 DEF TakeJob, records, build, bounds, Begun
<1>18. ASSUME NEW w \in Workers, BuilderReturns(w) PROVE OutcomeInv'
  BY <1>18 DEF BuilderReturns, Go, records, build
<1>19. ASSUME NEW w \in Workers, BuildTimesOut(w) PROVE OutcomeInv'
  BY <1>19 DEF BuildTimesOut, Go, records, Live
<1>22. ASSUME NEW w \in Workers, ReadProgress(w) PROVE OutcomeInv'
  BY <1>22 DEF ReadProgress, records, build, bounds
<1>23. ASSUME NEW w \in Workers, StopHeartbeat(w) PROVE OutcomeInv'
  BY <1>23 DEF StopHeartbeat, records, build, bounds, IdleWorker
<1>24. ASSUME NEW j \in Jobs, HeartbeatCheck(j) PROVE OutcomeInv'
  BY <1>24 DEF HeartbeatCheck, records, build, bounds
<1>25. ASSUME NEW j \in Jobs, HeartbeatStamp(j) PROVE OutcomeInv'
  BY <1>25 DEF HeartbeatStamp, records, build
<1>26. ASSUME NEW j \in Jobs, BuilderStarts(j) PROVE OutcomeInv'
  BY <1>26 DEF BuilderStarts, Step, records, manager
<1>27. ASSUME NEW j \in Jobs, BuilderTags(j) PROVE OutcomeInv'
  BY <1>27 DEF BuilderTags, Step, records, manager
<1>28. ASSUME NEW j \in Jobs, BuilderExports(j) PROVE OutcomeInv'
  BY <1>28 DEF BuilderExports, Step, records, manager
<1>29. ASSUME NEW j \in Jobs, BuilderPackages(j) PROVE OutcomeInv'
  BY <1>29 DEF BuilderPackages, Step, records, manager
<1>30. ASSUME NEW j \in Jobs, BuilderOpensOutput(j) PROVE OutcomeInv'
  BY <1>30 DEF BuilderOpensOutput, Step, records, manager
<1>31. ASSUME NEW j \in Jobs, BuilderWritesOutput(j) PROVE OutcomeInv'
  BY <1>31 DEF BuilderWritesOutput, Step, records, manager
<1>32. ASSUME NEW j \in Jobs, BuilderVerifies(j) PROVE OutcomeInv'
  BY <1>32 DEF BuilderVerifies, Step, records, manager
<1>33. ASSUME NEW j \in Jobs, BuilderFails(j) PROVE OutcomeInv'
  BY <1>33 DEF BuilderFails, Step, records, manager, Live
<1>34. CASE RestartManager
  BY <1>34 DEF RestartManager, IdleLoop, IdleWorker, records, build
<1>35. CASE UNCHANGED vars
  BY <1>35 DEF vars
<1> HIDE DEF TypeOK, PlaceInv, WorkerInv, Held, AbsentInv, Before, OutcomeInv,
             OutcomeIsBacked, Backed, Seen, Active, ActiveStatuses
<1>37. QED
  BY <1>1, <1>2, <1>3, <1>4, <1>5, <1>6, <1>7, <1>8, <1>9, <1>10, <1>11, <1>12,
     <1>13, <1>14, <1>15, <1>16, <1>17, <1>18, <1>19, <1>20, <1>21, <1>22,
     <1>23, <1>24, <1>25, <1>26, <1>27, <1>28, <1>29, <1>30, <1>31, <1>32,
     <1>33, <1>34, <1>35, <1>36
     DEF Next, Create, ReadPage, RunJob, Heartbeat, Build

\* OutcomeIsBacked: a success has a Builder that verified its archive and a log line,
\* a failure has a log line (the order of effects in _run_job).
THEOREM OutcomesBacked == Spec => []OutcomeIsBacked
<1>1. Init => OutcomeInv
  BY DEF Init, OutcomeInv, OutcomeIsBacked, Backed, Seen, Absent, IdleWorker
<1>2. TypeOK /\ PlaceInv /\ OutcomeInv /\ [Next]_vars => OutcomeInv'
  BY NextOutcome
<1>3. OutcomeInv => OutcomeIsBacked
  BY DEF OutcomeInv
<1>4. QED BY <1>1, <1>2, <1>3, PlacesCorrect, PTL DEF Spec

-----------------------------------------------------------------------------
(* A single undisturbed worker: its Builder is the only one, so what it    *)
(* tagged, saved and wrote is what is there.                               *)

Written(j) == [of |-> j, images |-> j, whole |-> FALSE]

\* How far the Builder of a job has come.
BuilderInv(j) ==
    /\ builder[j] \in Live =>
          \E w \in Workers : worker[w].at = "wait" /\ worker[w].job = j
    /\ builder[j] = "export" => tag = j
    /\ builder[j] \in {"package", "compress", "writing", "verify"} => saved[j] = j
    /\ builder[j] = "writing" => out[request[j].path] = Written(j)
    /\ builder[j] = "verify" /\ out[request[j].path].whole => out[request[j].path] = Own(j)

\* A worker between its Builder's success and its own has the capsule.
CapsuleInv(w) ==
    /\ worker[w].at \in {"wait", "logcomplete", "succeed"}
    /\ builder[worker[w].job] = "ok"
    => out[request[worker[w].job].path] = Own(worker[w].job)

SoloInv ==
    Undisturbed => /\ \A j \in Jobs : BuilderInv(j)
                   /\ \A w \in Workers : CapsuleInv(w)

\* With one worker there is one live Builder, the one the worker waits for.
LEMMA OneBuilder ==
    ASSUME SoloInv, Undisturbed, NEW j \in Jobs, builder[j] \in Live
    PROVE  \A w \in Workers :
             /\ worker[w].at = "wait" /\ worker[w].job = j
             /\ \A v \in Workers : v = w
             /\ \A k \in Jobs : builder[k] \in Live => k = j
BY DEF SoloInv, BuilderInv, Undisturbed

\* A step of a Builder is judged by its own job.
LEMMA BuilderMoves ==
    ASSUME TypeOK, SoloInv, Undisturbed, NEW j \in Jobs, builder[j] \in Live,
           UNCHANGED <<worker, request>>,
           \A k \in Jobs : k # j => builder'[k] = builder[k],
           BuilderInv(j)',
           builder'[j] = "ok" => out'[request[j].path] = Own(j)
    PROVE  SoloInv'
<1>1. \A k \in Jobs : k # j => builder'[k] \notin Live
  BY OneBuilder DEF SoloInv, BuilderInv
<1>2. ASSUME NEW k \in Jobs PROVE BuilderInv(k)'
  <2>1. CASE k = j
    BY <2>1
  <2>2. CASE k # j
    BY <1>1, <2>2 DEF BuilderInv, Live
  <2> QED BY <2>1, <2>2
<1>3. ASSUME NEW w \in Workers PROVE CapsuleInv(w)'
  <2>1. worker[w].job = j
    BY OneBuilder
  <2> QED BY <2>1 DEF CapsuleInv
<1> QED BY <1>2, <1>3 DEF SoloInv

\* A step that leaves the Builders and files alone, and brings no worker closer to a
\* success without its Builder's.
LEMMA Bystander ==
    ASSUME SoloInv, TypeOK, UNCHANGED <<builder, tag, saved, out, request>>,
           Undisturbed' => Undisturbed,
           \A w \in Workers :
              /\ worker[w].at = "wait" /\ builder[worker[w].job] \in Live
                   => worker'[w].at = "wait" /\ worker'[w].job = worker[w].job
              /\ worker'[w].at \in {"wait", "logcomplete", "succeed"} =>
                   /\ worker[w].at \in {"wait", "logcomplete", "succeed"}
                   /\ worker'[w].job = worker[w].job
    PROVE  SoloInv'
<1> SUFFICES ASSUME Undisturbed' PROVE SoloInv'
    BY DEF SoloInv
<1>1. (\A j \in Jobs : BuilderInv(j)) /\ \A w \in Workers : CapsuleInv(w)
    BY DEF SoloInv
<1>2. ASSUME NEW j \in Jobs PROVE BuilderInv(j)'
  <2>1. builder[j] \in Live =>
           \E w \in Workers : worker'[w].at = "wait" /\ worker'[w].job = j
    BY <1>1 DEF BuilderInv
  <2> QED BY <1>1, <2>1 DEF BuilderInv, Written, Own
<1>3. ASSUME NEW w \in Workers PROVE CapsuleInv(w)'
  BY <1>1 DEF CapsuleInv, Own
<1> QED BY <1>2, <1>3 DEF SoloInv

\* One worker moves; it is past its Builder already, or has no claim on the capsule.
LEMMA LeaveBystander ==
    ASSUME SoloInv, TypeOK, NEW w \in Workers, worker[w].at # "wait",
           UNCHANGED <<builder, tag, saved, out, request>>, Undisturbed' => Undisturbed,
           \A v \in Workers : v # w => worker'[v] = worker[v],
           worker'[w].at \in {"wait", "logcomplete", "succeed"} =>
              /\ worker[w].at \in {"logcomplete", "succeed"}
              /\ worker'[w].job = worker[w].job
    PROVE  SoloInv'
BY Bystander

\* A worker that goes to a place without a claim on the capsule, or raises.
LEMMA GoBystander ==
    ASSUME SoloInv, TypeOK, NEW w \in Workers, worker[w].at # "wait",
           UNCHANGED <<builder, tag, saved, out, request>>, Undisturbed' => Undisturbed,
           NEW next,
           next \in {"wait", "logcomplete", "succeed"} => worker[w].at = "logcomplete",
           Go(w, next) \/ Raise(w)
    PROVE  SoloInv'
<1>1. \A v \in Workers : v # w => worker'[v] = worker[v]
  BY DEF Go, Raise, TypeOK
<1>2. worker'[w].job = worker[w].job /\ worker'[w].at \in {next, "finally", "logfailed"}
  BY DEF Go, Raise, TypeOK
<1> QED BY <1>1, <1>2, LeaveBystander

\* A write of _run_job makes no claim on the capsule.
LEMMA RecordBystander ==
    ASSUME SoloInv, TypeOK, NEW w \in Workers, worker[w].at # "wait", NEW f,
           NEW next \in {"check", "announce", "finally"}, Record(w, f, next)
    PROVE  SoloInv'
<1>1. /\ UNCHANGED <<builder, tag, saved, out, request>>
      /\ Undisturbed' => Undisturbed
  BY DEF Record, build, Undisturbed
<1>2. \A v \in Workers : v # w => worker'[v] = worker[v]
  BY DEF Record, Go, Raise, TypeOK
<1>3. worker'[w].at \in {"check", "announce", "finally", "logfailed"}
  BY DEF Record, Go, Raise, TypeOK
<1> QED BY <1>1, <1>2, <1>3, LeaveBystander

\* Every step keeps what one undisturbed worker rests on.
LEMMA NextSolo == TypeOK /\ PlaceInv /\ SoloInv /\ [Next]_vars => SoloInv'
<1> SUFFICES ASSUME TypeOK, PlaceInv, SoloInv, [Next]_vars PROVE SoloInv'
    OBVIOUS
<1>1. ASSUME NEW j \in Jobs, CreateJob(j) PROVE SoloInv'
  BY <1>1, Bystander DEF CreateJob, Undisturbed, build
<1>2. ASSUME NEW j \in Jobs, PageReadJob(j) PROVE SoloInv'
  BY <1>2, Bystander DEF PageReadJob, Undisturbed, records, build, bounds
<1>3. CASE CreateLog
  BY <1>3, Bystander DEF CreateLog, Undisturbed, build
<1>4. CASE CreateLatest
  BY <1>4, Bystander DEF CreateLatest, Undisturbed, build
<1>5. CASE CreateSubmit
  BY <1>5, Bystander DEF CreateSubmit, Undisturbed, records, build, bounds
<1>6. CASE PageMerge
  BY <1>6, Bystander DEF PageMerge, Undisturbed, records, build, bounds
<1>7. CASE PageReadLog
  BY <1>7, Bystander DEF PageReadLog, Undisturbed, records, build, bounds
<1>8. CASE PageReply
  BY <1>8, Bystander DEF PageReply, Undisturbed, records, build, bounds
<1>9. ASSUME NEW w \in Workers, TakeJob(w) PROVE SoloInv'
  BY <1>9, Bystander DEF TakeJob, Undisturbed, Begun, TypeOK, records, build, bounds
<1>10. ASSUME NEW w \in Workers, BeginJob(w) PROVE SoloInv'
  BY <1>10, RecordBystander DEF BeginJob
<1>11. ASSUME NEW w \in Workers, NEW ok \in BOOLEAN, Preflight(w, ok) PROVE SoloInv'
  <2>1. /\ UNCHANGED <<builder, tag, saved, out, request>>
        /\ Undisturbed' => Undisturbed
    BY <1>11 DEF Preflight, Note, build, Undisturbed
  <2> QED BY <1>11, <2>1, GoBystander DEF Preflight, Note
<1>12. ASSUME NEW w \in Workers, RecordRefused(w) PROVE SoloInv'
  BY <1>12, RecordBystander DEF RecordRefused
<1>13. ASSUME NEW w \in Workers, RecordBuilder(w) PROVE SoloInv'
  BY <1>13, RecordBystander DEF RecordBuilder
<1>14. ASSUME NEW w \in Workers, AnnounceJob(w) PROVE SoloInv'
  <2>1. /\ UNCHANGED <<builder, tag, saved, out, request>>
        /\ Undisturbed' => Undisturbed
    BY <1>14 DEF AnnounceJob, Note, build, Undisturbed
  <2> QED BY <1>14, <2>1, GoBystander DEF AnnounceJob, Note
<1>15. ASSUME NEW w \in Workers, Launch(w) PROVE SoloInv'
  <2> DEFINE j == worker[w].job
  <2> SUFFICES ASSUME Undisturbed' PROVE SoloInv'
    BY DEF SoloInv
  <2>1. Undisturbed /\ j \in Jobs /\ UNCHANGED <<request, tag, saved>>
    BY <1>15 DEF Launch, Undisturbed, bounds, TypeOK, records
  <2>2. \A k \in Jobs : builder[k] \notin Live
    BY <1>15, <2>1, OneBuilder DEF Launch
  <2>3. \A v \in Workers : v = w
    BY <2>1 DEF Undisturbed
  <2>4. \A k \in Jobs : k # j => builder'[k] \notin Live
    BY <1>15, <2>1, <2>2 DEF Launch, TypeOK
  <2>5. builder'[j] \in Live => /\ builder'[j] = "start"
                              /\ worker'[w].at = "wait" /\ worker'[w].job = j
    BY <1>15, <2>1, <2>2 DEF Launch, Go, TypeOK
  <2>6. \A k \in Jobs : BuilderInv(k)'
    BY <2>4, <2>5 DEF BuilderInv, Live
  <2>7. worker'[w].at = "wait" => builder'[worker'[w].job] = "start"
    <3>1. worker'[w].at = "wait" => Go(w, "wait") /\ builder' = [builder EXCEPT ![j] = "start"]
      BY <1>15 DEF Launch, Go, Raise, TypeOK
    <3>2. ASSUME worker'[w].at = "wait" PROVE builder'[worker'[w].job] = "start"
      <4>1. worker'[w].job = j /\ builder'[j] = "start"
        BY <2>1, <3>1, <3>2 DEF Go, TypeOK
      <4> QED BY <4>1
    <3> QED BY <3>2
  <2>8. worker'[w].at \in {"wait", "logfailed", "finally"}
    BY <1>15 DEF Launch, Go, Raise, TypeOK
  <2>9. CapsuleInv(w)'
    BY <2>7, <2>8 DEF CapsuleInv
  <2> QED BY <2>3, <2>6, <2>9 DEF SoloInv
<1>16. ASSUME NEW w \in Workers, BuilderReturns(w) PROVE SoloInv'
  <2>1. /\ UNCHANGED <<builder, tag, saved, out, request>>
        /\ Undisturbed' => Undisturbed
    BY <1>16 DEF BuilderReturns, build, bounds, records, Undisturbed
  <2>2. /\ worker[w].at = "wait" /\ builder[worker[w].job] \notin Live
        /\ worker'[w].job = worker[w].job
    BY <1>16 DEF BuilderReturns, Go, TypeOK
  <2>3. \A v \in Workers : v # w => worker'[v] = worker[v]
    BY <1>16 DEF BuilderReturns, Go, TypeOK
  <2> QED BY <2>1, <2>2, <2>3, Bystander
<1>17. ASSUME NEW w \in Workers, BuildTimesOut(w) PROVE SoloInv'
  BY <1>17 DEF BuildTimesOut, SoloInv, Undisturbed, TypeOK
<1>18. ASSUME NEW w \in Workers, LogComplete(w) PROVE SoloInv'
  <2>1. /\ UNCHANGED <<builder, tag, saved, out, request>>
        /\ Undisturbed' => Undisturbed
    BY <1>18 DEF LogComplete, Note, build, Undisturbed
  <2> QED BY <1>18, <2>1, GoBystander DEF LogComplete, Note
<1>19. ASSUME NEW w \in Workers, RecordSucceeded(w) PROVE SoloInv'
  BY <1>19, RecordBystander DEF RecordSucceeded
<1>20. ASSUME NEW w \in Workers, LogFailed(w) PROVE SoloInv'
  <2>1. /\ UNCHANGED <<builder, tag, saved, out, request>>
        /\ Undisturbed' => Undisturbed
    BY <1>20 DEF LogFailed, Note, build, Undisturbed
  <2> QED BY <1>20, <2>1, GoBystander DEF LogFailed, Note
<1>21. ASSUME NEW w \in Workers, ReadProgress(w) PROVE SoloInv'
  BY <1>21, Bystander DEF ReadProgress, Undisturbed, TypeOK, records, build, bounds
<1>22. ASSUME NEW w \in Workers, RecordFailed(w) PROVE SoloInv'
  BY <1>22, RecordBystander DEF RecordFailed
<1>23. ASSUME NEW w \in Workers, StopHeartbeat(w) PROVE SoloInv'
  BY <1>23, Bystander DEF StopHeartbeat, Undisturbed, IdleWorker, TypeOK, records, build, bounds
<1>24. ASSUME NEW j \in Jobs, HeartbeatCheck(j) PROVE SoloInv'
  BY <1>24, Bystander DEF HeartbeatCheck, Undisturbed, records, build, bounds
<1>25. ASSUME NEW j \in Jobs, HeartbeatStamp(j) PROVE SoloInv'
  BY <1>25, Bystander DEF HeartbeatStamp, Undisturbed, records, build
<1>26. ASSUME NEW j \in Jobs, BuilderStarts(j) PROVE SoloInv'
  <2> SUFFICES ASSUME Undisturbed' PROVE SoloInv'
    BY DEF SoloInv
  <2>1. /\ Undisturbed /\ builder[j] \in Live /\ UNCHANGED <<worker, request>>
        /\ \A k \in Jobs : k # j => builder'[k] = builder[k]
    BY <1>26 DEF BuilderStarts, Step, Undisturbed, Live, records, manager, TypeOK
  <2>2. BuilderInv(j)
    BY <2>1 DEF SoloInv
  <2>3. builder[j] = "start" /\ builder'[j] = "images"
    BY <1>26 DEF BuilderStarts, Step, TypeOK
  <2>4. BuilderInv(j)'
    BY <1>26, <2>1, <2>2, <2>3 DEF BuilderStarts, BuilderInv, Live
  <2> QED BY <2>1, <2>3, <2>4, BuilderMoves
<1>27. ASSUME NEW j \in Jobs, BuilderTags(j) PROVE SoloInv'
  <2> SUFFICES ASSUME Undisturbed' PROVE SoloInv'
    BY DEF SoloInv
  <2>1. /\ Undisturbed /\ builder[j] \in Live /\ UNCHANGED <<worker, request>>
        /\ \A k \in Jobs : k # j => builder'[k] = builder[k]
    BY <1>27 DEF BuilderTags, Step, Undisturbed, Live, records, manager, TypeOK
  <2>2. BuilderInv(j)
    BY <2>1 DEF SoloInv
  <2>3. builder[j] = "images" /\ builder'[j] = "export"
    BY <1>27 DEF BuilderTags, Step, TypeOK
  <2>4. BuilderInv(j)'
    BY <1>27, <2>1, <2>2, <2>3 DEF BuilderTags, BuilderInv, Live
  <2> QED BY <2>1, <2>3, <2>4, BuilderMoves
<1>28. ASSUME NEW j \in Jobs, BuilderExports(j) PROVE SoloInv'
  <2> SUFFICES ASSUME Undisturbed' PROVE SoloInv'
    BY DEF SoloInv
  <2>1. /\ Undisturbed /\ builder[j] \in Live /\ UNCHANGED <<worker, request>>
        /\ \A k \in Jobs : k # j => builder'[k] = builder[k]
    BY <1>28 DEF BuilderExports, Step, Undisturbed, Live, records, manager, TypeOK
  <2>2. BuilderInv(j)
    BY <2>1 DEF SoloInv
  <2>3. builder[j] = "export" /\ builder'[j] = "package"
    BY <1>28 DEF BuilderExports, Step, TypeOK
  <2>4. BuilderInv(j)'
    BY <1>28, <2>1, <2>2, <2>3 DEF BuilderExports, BuilderInv, Live, TypeOK
  <2> QED BY <2>1, <2>3, <2>4, BuilderMoves
<1>29. ASSUME NEW j \in Jobs, BuilderPackages(j) PROVE SoloInv'
  <2> SUFFICES ASSUME Undisturbed' PROVE SoloInv'
    BY DEF SoloInv
  <2>1. /\ Undisturbed /\ builder[j] \in Live /\ UNCHANGED <<worker, request>>
        /\ \A k \in Jobs : k # j => builder'[k] = builder[k]
    BY <1>29 DEF BuilderPackages, Step, Undisturbed, Live, records, manager, TypeOK
  <2>2. BuilderInv(j)
    BY <2>1 DEF SoloInv
  <2>3. builder[j] = "package" /\ builder'[j] = "compress"
    BY <1>29 DEF BuilderPackages, Step, TypeOK
  <2>4. BuilderInv(j)'
    BY <1>29, <2>1, <2>2, <2>3 DEF BuilderPackages, BuilderInv, Live
  <2> QED BY <2>1, <2>3, <2>4, BuilderMoves
<1>30. ASSUME NEW j \in Jobs, BuilderOpensOutput(j) PROVE SoloInv'
  <2> SUFFICES ASSUME Undisturbed' PROVE SoloInv'
    BY DEF SoloInv
  <2>1. /\ Undisturbed /\ builder[j] \in Live /\ UNCHANGED <<worker, request>>
        /\ \A k \in Jobs : k # j => builder'[k] = builder[k]
    BY <1>30 DEF BuilderOpensOutput, Step, Undisturbed, Live, records, manager, TypeOK
  <2>2. BuilderInv(j)
    BY <2>1 DEF SoloInv
  <2>3. builder[j] = "compress" /\ builder'[j] = "writing"
    BY <1>30 DEF BuilderOpensOutput, Step, TypeOK
  <2>4. BuilderInv(j)'
    BY <1>30, <2>1, <2>2, <2>3 DEF BuilderOpensOutput, BuilderInv, Live, Written, TypeOK
  <2> QED BY <2>1, <2>3, <2>4, BuilderMoves
<1>31. ASSUME NEW j \in Jobs, BuilderWritesOutput(j) PROVE SoloInv'
  <2> SUFFICES ASSUME Undisturbed' PROVE SoloInv'
    BY DEF SoloInv
  <2>1. /\ Undisturbed /\ builder[j] \in Live /\ UNCHANGED <<worker, request>>
        /\ \A k \in Jobs : k # j => builder'[k] = builder[k]
    BY <1>31 DEF BuilderWritesOutput, Step, Undisturbed, Live, records, manager, TypeOK
  <2>2. BuilderInv(j)
    BY <2>1 DEF SoloInv
  <2>3. builder[j] = "writing" /\ builder'[j] = "verify" /\ UNCHANGED saved
    BY <1>31 DEF BuilderWritesOutput, Step, TypeOK
  <2>4. out[request[j].path] = Written(j) /\ request[j].path \in Paths
    BY <2>2, <2>3 DEF BuilderInv, TypeOK
  <2>5. out'[request[j].path] = Own(j)
    BY <1>31, <2>4 DEF BuilderWritesOutput, Written, Own, TypeOK
  <2>6. BuilderInv(j)'
    BY <2>1, <2>2, <2>3, <2>5 DEF BuilderInv, Live
  <2> QED BY <2>1, <2>3, <2>6, BuilderMoves
<1>32. ASSUME NEW j \in Jobs, BuilderVerifies(j) PROVE SoloInv'
  <2> SUFFICES ASSUME Undisturbed' PROVE SoloInv'
    BY DEF SoloInv
  <2>1. /\ Undisturbed /\ builder[j] \in Live /\ UNCHANGED <<worker, request>>
        /\ \A k \in Jobs : k # j => builder'[k] = builder[k]
    BY <1>32 DEF BuilderVerifies, Step, Undisturbed, Live, records, manager, TypeOK
  <2>2. BuilderInv(j)
    BY <2>1 DEF SoloInv
  <2>3. builder[j] = "verify" /\ builder'[j] = "ok" /\ UNCHANGED out
    BY <1>32 DEF BuilderVerifies, Step, TypeOK
  <2>4. out'[request[j].path] = Own(j)
    BY <1>32, <2>2, <2>3 DEF BuilderVerifies, BuilderInv
  <2>5. BuilderInv(j)'
    BY <2>3 DEF BuilderInv, Live
  <2> QED BY <2>1, <2>4, <2>5, BuilderMoves
<1>33. ASSUME NEW j \in Jobs, BuilderFails(j) PROVE SoloInv'
  <2> SUFFICES ASSUME Undisturbed' PROVE SoloInv'
    BY DEF SoloInv
  <2>1. /\ Undisturbed /\ builder[j] \in Live /\ UNCHANGED <<worker, request>>
        /\ \A k \in Jobs : k # j => builder'[k] = builder[k]
    BY <1>33 DEF BuilderFails, Step, Undisturbed, Live, records, manager, TypeOK
  <2>2. BuilderInv(j)
    BY <2>1 DEF SoloInv
  <2>3. builder'[j] = "failed"
    BY <1>33 DEF BuilderFails, Step, TypeOK
  <2>4. BuilderInv(j)'
    BY <2>3 DEF BuilderInv, Live
  <2> QED BY <2>1, <2>3, <2>4, BuilderMoves
<1>34. CASE RestartManager
  BY <1>34 DEF RestartManager, SoloInv, Undisturbed, TypeOK
<1>35. CASE UNCHANGED vars
  BY <1>35, Bystander DEF vars, Undisturbed
<1>36. ASSUME NEW w \in Workers, PreflightRaises(w) PROVE SoloInv'
  BY <1>36, GoBystander DEF PreflightRaises, records, build, bounds, Undisturbed
<1>37. QED
  BY <1>1, <1>2, <1>3, <1>4, <1>5, <1>6, <1>7, <1>8, <1>9, <1>10, <1>11, <1>12,
     <1>13, <1>14, <1>15, <1>16, <1>17, <1>18, <1>19, <1>20, <1>21, <1>22,
     <1>23, <1>24, <1>25, <1>26, <1>27, <1>28, <1>29, <1>30, <1>31, <1>32,
     <1>33, <1>34, <1>35, <1>36
     DEF Next, Create, ReadPage, RunJob, Heartbeat, Build

\* Only a worker that records it makes a job succeed.
LEMMA SucceedsByRecord ==
    ASSUME TypeOK, [Next]_vars, NEW k \in Jobs,
           job[k].status # "succeeded", job'[k].status = "succeeded"
    PROVE  \E w \in Workers : RecordSucceeded(w) /\ worker[w].job = k
<1> SUFFICES ASSUME \A w \in Workers : ~(RecordSucceeded(w) /\ worker[w].job = k)
             PROVE  FALSE
    OBVIOUS
<1> USE DEF TypeOK
<1>1. ASSUME NEW j \in Jobs, CreateJob(j) PROVE FALSE
  <2>1. job'[k] = job[k] \/ job'[k].status = "queued"
    BY <1>1 DEF CreateJob
  <2> QED BY <2>1
<1>2. ASSUME NEW j \in Jobs, PageReadJob(j) PROVE FALSE
  BY <1>2 DEF PageReadJob, records, build, bounds
<1>3. CASE CreateLog
  BY <1>3 DEF CreateLog
<1>4. CASE CreateLatest
  BY <1>4 DEF CreateLatest
<1>5. CASE CreateSubmit
  BY <1>5 DEF CreateSubmit, records, build, bounds
<1>6. CASE PageMerge
  BY <1>6 DEF PageMerge, records, build, bounds
<1>7. CASE PageReadLog
  BY <1>7 DEF PageReadLog, records, build, bounds
<1>8. CASE PageReply
  BY <1>8 DEF PageReply, records, build, bounds
<1>9. ASSUME NEW w \in Workers, TakeJob(w) PROVE FALSE
  BY <1>9 DEF TakeJob, records, build, bounds
<1>10. ASSUME NEW w \in Workers, BeginJob(w) PROVE FALSE
  <2>1. job'[k] = job[k] \/ job'[k].status = "running"
    BY <1>10 DEF BeginJob, Record
  <2> QED BY <2>1
<1>11. ASSUME NEW w \in Workers, NEW ok \in BOOLEAN, Preflight(w, ok) PROVE FALSE
  BY <1>11 DEF Preflight, Note
<1>12. ASSUME NEW w \in Workers, RecordRefused(w) PROVE FALSE
  <2>1. job'[k] = job[k] \/ job'[k].status = "failed"
    BY <1>12 DEF RecordRefused, Record
  <2> QED BY <2>1
<1>13. ASSUME NEW w \in Workers, RecordBuilder(w) PROVE FALSE
  <2>1. job'[k] = job[k] \/ job'[k].status = "running"
    BY <1>13 DEF RecordBuilder, Record
  <2> QED BY <2>1
<1>14. ASSUME NEW w \in Workers, AnnounceJob(w) PROVE FALSE
  BY <1>14 DEF AnnounceJob, Note
<1>15. ASSUME NEW w \in Workers, Launch(w) PROVE FALSE
  BY <1>15 DEF Launch, records, build, bounds
<1>16. ASSUME NEW w \in Workers, BuilderReturns(w) PROVE FALSE
  BY <1>16 DEF BuilderReturns, records, build, bounds
<1>17. ASSUME NEW w \in Workers, BuildTimesOut(w) PROVE FALSE
  BY <1>17 DEF BuildTimesOut, records, build, bounds
<1>18. ASSUME NEW w \in Workers, LogComplete(w) PROVE FALSE
  BY <1>18 DEF LogComplete, Note
<1>19. ASSUME NEW w \in Workers, RecordSucceeded(w) PROVE FALSE
  BY <1>19 DEF RecordSucceeded, Record, Fault, Go, Raise, build
<1>20. ASSUME NEW w \in Workers, LogFailed(w) PROVE FALSE
  BY <1>20 DEF LogFailed, Note
<1>21. ASSUME NEW w \in Workers, ReadProgress(w) PROVE FALSE
  BY <1>21 DEF ReadProgress, records, build, bounds
<1>22. ASSUME NEW w \in Workers, RecordFailed(w) PROVE FALSE
  <2>1. job'[k] = job[k] \/ job'[k].status = "failed"
    BY <1>22 DEF RecordFailed, Record
  <2> QED BY <2>1
<1>23. ASSUME NEW w \in Workers, StopHeartbeat(w) PROVE FALSE
  BY <1>23 DEF StopHeartbeat, records, build, bounds
<1>24. ASSUME NEW j \in Jobs, HeartbeatCheck(j) PROVE FALSE
  BY <1>24 DEF HeartbeatCheck, records, build, bounds
<1>25. ASSUME NEW j \in Jobs, HeartbeatStamp(j) PROVE FALSE
  BY <1>25 DEF HeartbeatStamp, records, build, bounds
<1>26. ASSUME NEW j \in Jobs, BuilderStarts(j) PROVE FALSE
  BY <1>26 DEF BuilderStarts, Step, records, manager
<1>27. ASSUME NEW j \in Jobs, BuilderTags(j) PROVE FALSE
  BY <1>27 DEF BuilderTags, Step, records, manager
<1>28. ASSUME NEW j \in Jobs, BuilderExports(j) PROVE FALSE
  BY <1>28 DEF BuilderExports, Step, records, manager
<1>29. ASSUME NEW j \in Jobs, BuilderPackages(j) PROVE FALSE
  BY <1>29 DEF BuilderPackages, Step, records, manager
<1>30. ASSUME NEW j \in Jobs, BuilderOpensOutput(j) PROVE FALSE
  BY <1>30 DEF BuilderOpensOutput, Step, records, manager
<1>31. ASSUME NEW j \in Jobs, BuilderWritesOutput(j) PROVE FALSE
  BY <1>31 DEF BuilderWritesOutput, Step, records, manager
<1>32. ASSUME NEW j \in Jobs, BuilderVerifies(j) PROVE FALSE
  BY <1>32 DEF BuilderVerifies, Step, records, manager
<1>33. ASSUME NEW j \in Jobs, BuilderFails(j) PROVE FALSE
  BY <1>33 DEF BuilderFails, Step, records, manager
<1>34. CASE RestartManager
  BY <1>34 DEF RestartManager, records, build, bounds
<1>35. CASE UNCHANGED vars
  BY <1>35 DEF vars
<1> HIDE DEF TypeOK
<1>36. ASSUME NEW w \in Workers, PreflightRaises(w) PROVE FALSE
  BY <1>36 DEF PreflightRaises, records
<1>37. QED
  BY <1>1, <1>2, <1>3, <1>4, <1>5, <1>6, <1>7, <1>8, <1>9, <1>10, <1>11, <1>12,
     <1>13, <1>14, <1>15, <1>16, <1>17, <1>18, <1>19, <1>20, <1>21, <1>22,
     <1>23, <1>24, <1>25, <1>26, <1>27, <1>28, <1>29, <1>30, <1>31, <1>32,
     <1>33, <1>34, <1>35, <1>36
     DEF Next, Create, ReadPage, RunJob, Heartbeat, Build

\* SuccessIsOwnCapsule: one undisturbed worker records a success only for a whole
\* capsule of its own source (build_capsule and build_package).
THEOREM SuccessesAreOwn == Spec => SuccessIsOwnCapsule
<1>1. Init => SoloInv
  BY DEF Init, SoloInv, BuilderInv, CapsuleInv, Live, IdleWorker
<1>2. TypeOK /\ PlaceInv /\ SoloInv /\ [Next]_vars => SoloInv'
  BY NextSolo
<1>3. TypeOK /\ PlaceInv /\ OutcomeInv /\ SoloInv /\ [Next]_vars =>
        [\A j \in Jobs :
           Undisturbed /\ job[j].status # "succeeded" /\ job'[j].status = "succeeded"
               => out[request[j].path] = Own(j)]_vars
  <2> SUFFICES ASSUME TypeOK, PlaceInv, OutcomeInv, SoloInv, [Next]_vars, NEW j \in Jobs,
                      Undisturbed, job[j].status # "succeeded", job'[j].status = "succeeded"
               PROVE  out[request[j].path] = Own(j)
    OBVIOUS
  <2>1. \E w \in Workers : RecordSucceeded(w) /\ worker[w].job = j
    BY SucceedsByRecord
  <2>2. PICK w \in Workers : RecordSucceeded(w) /\ worker[w].job = j
    BY <2>1
  <2>3. worker[w].at = "succeed" /\ builder[j] = "ok"
    BY <2>2 DEF RecordSucceeded, OutcomeInv, Seen
  <2> QED BY <2>2, <2>3 DEF SoloInv, CapsuleInv
<1>4. Init => OutcomeInv
  BY DEF Init, OutcomeInv, OutcomeIsBacked, Backed, Seen, Absent, IdleWorker
<1>5. TypeOK /\ PlaceInv /\ OutcomeInv /\ [Next]_vars => OutcomeInv'
  BY NextOutcome
<1>6. QED BY <1>1, <1>2, <1>3, <1>4, <1>5, PlacesCorrect, PTL DEF Spec, SuccessIsOwnCapsule

\* While one worker is undisturbed, no capsule file has another build's images,
\* finished or not.
OutInv == Undisturbed => \A p \in Paths : out[p].images = out[p].of

\* Files that are deleted, kept, or written by a Builder of one's own images.
LEMMA OutKept ==
    ASSUME OutInv, Undisturbed' => Undisturbed,
           \A p \in Paths : \/ out'[p] \in {out[p], NoFile}
                            \/ out'[p].images = out[p].images /\ out'[p].of = out[p].of
                            \/ out'[p].images = out'[p].of
    PROVE  OutInv'
BY DEF OutInv, NoFile

\* Who writes capsule files, and who disturbs a worker.
LEMMA OutMoves ==
    ASSUME [Next]_vars
    PROVE  \/ UNCHANGED <<out, restarts, timeouts>>
           \/ UNCHANGED out /\ (RestartManager \/ \E w \in Workers : BuildTimesOut(w))
           \/ /\ UNCHANGED <<restarts, timeouts>>
              /\ \/ \E w \in Workers : Launch(w)
                 \/ \E j \in Jobs : BuilderPackages(j) \/ BuilderOpensOutput(j) \/ BuilderWritesOutput(j)
<1>1. ASSUME NEW w \in Workers, RunJob(w), ~Launch(w)
      PROVE  UNCHANGED <<out, restarts, timeouts>>
  <2>1. CASE TakeJob(w) \/ PreflightRaises(w) \/ BuilderReturns(w) \/ ReadProgress(w) \/ StopHeartbeat(w)
    BY <2>1 DEF TakeJob, PreflightRaises, BuilderReturns, ReadProgress, StopHeartbeat, build, bounds
  <2>2. CASE BeginJob(w) \/ RecordRefused(w) \/ RecordBuilder(w) \/ RecordSucceeded(w) \/ RecordFailed(w)
    BY <2>2 DEF BeginJob, RecordRefused, RecordBuilder, RecordSucceeded, RecordFailed, Record, build
  <2>3. CASE (\E ok \in BOOLEAN : Preflight(w, ok)) \/ AnnounceJob(w) \/ LogComplete(w) \/ LogFailed(w)
    BY <2>3 DEF Preflight, AnnounceJob, LogComplete, LogFailed, Note, build
  <2> QED
    BY <1>1, <2>1, <2>2, <2>3 DEF RunJob
<1>2. ASSUME NEW w \in Workers, Launch(w) PROVE UNCHANGED <<restarts, timeouts>>
  BY <1>2 DEF Launch, bounds
<1>3. ASSUME NEW w \in Workers, BuildTimesOut(w) PROVE UNCHANGED out
  BY <1>3 DEF BuildTimesOut
<1>4. ASSUME NEW j \in Jobs, Build(j)
      PROVE  /\ UNCHANGED <<restarts, timeouts>>
             /\ \/ UNCHANGED out
                \/ BuilderPackages(j) \/ BuilderOpensOutput(j) \/ BuilderWritesOutput(j)
  BY <1>4 DEF Build, BuilderStarts, BuilderTags, BuilderExports, BuilderPackages,
              BuilderOpensOutput, BuilderWritesOutput, BuilderVerifies, BuilderFails, Step
<1>5. ASSUME NEW j \in Jobs, CreateJob(j) \/ PageReadJob(j) \/ Heartbeat(j)
      PROVE  UNCHANGED <<out, restarts, timeouts>>
  BY <1>5 DEF CreateJob, PageReadJob, Heartbeat, HeartbeatCheck, HeartbeatStamp, build, bounds
<1>6. CASE Create \/ ReadPage
  BY <1>6 DEF Create, CreateLog, CreateLatest, CreateSubmit, ReadPage, PageMerge, PageReadLog,
              PageReply, build, bounds
<1>7. CASE RestartManager
  BY <1>7 DEF RestartManager, build
<1>8. CASE UNCHANGED vars
  BY <1>8 DEF vars, build, bounds
<1> QED
  BY <1>1, <1>2, <1>3, <1>4, <1>5, <1>6, <1>7, <1>8 DEF Next

LEMMA NextOut == TypeOK /\ SoloInv /\ OutInv /\ [Next]_vars => OutInv'
<1> SUFFICES ASSUME TypeOK, SoloInv, OutInv, [Next]_vars PROVE OutInv'
    OBVIOUS
<1>1. Undisturbed' => Undisturbed
  BY OutMoves DEF RestartManager, BuildTimesOut, Undisturbed, TypeOK
<1>2. ASSUME NEW w \in Workers, Launch(w)
      PROVE  OutInv'
  <2>1. out' \in {out, Deleted(worker[w].job)}
    BY <1>2 DEF Launch
  <2> QED
    BY <1>1, <2>1, OutKept DEF Deleted, TypeOK
<1>3. ASSUME NEW j \in Jobs, BuilderPackages(j)
      PROVE  OutInv'
  BY <1>1, <1>3, OutKept DEF BuilderPackages, TypeOK
<1>4. ASSUME NEW j \in Jobs, BuilderOpensOutput(j)
      PROVE  OutInv'
  <2> SUFFICES ASSUME Undisturbed PROVE OutInv'
    BY <1>1 DEF OutInv
  <2>1. saved[j] = j
    BY <1>4 DEF SoloInv, BuilderInv, BuilderOpensOutput, Step
  <2> QED
    BY <1>1, <1>4, <2>1, OutKept DEF BuilderOpensOutput, TypeOK
<1>5. ASSUME NEW j \in Jobs, BuilderWritesOutput(j)
      PROVE  OutInv'
  <2>1. ASSUME NEW p \in Paths
        PROVE  out'[p].images = out[p].images /\ out'[p].of = out[p].of
    BY <1>5, <2>1 DEF BuilderWritesOutput, TypeOK
  <2> QED
    BY <1>1, <2>1, OutKept
<1>6. CASE UNCHANGED out
  BY <1>1, <1>6, OutKept
<1> QED
  BY <1>2, <1>3, <1>4, <1>5, <1>6, OutMoves

\* With one undisturbed worker a capsule file has the images of the source it
\* was built from, whoever built at its path before (package.py:2122).
THEOREM ImagesAreOwnAlone == Spec => [](Undisturbed => ImagesAreOwn)
<1>1. Init => OutInv
  BY DEF Init, OutInv, NoFile
<1>2. Init => SoloInv
  BY DEF Init, SoloInv, BuilderInv, CapsuleInv, Live, IdleWorker
<1>3. TypeOK /\ PlaceInv /\ SoloInv /\ [Next]_vars => SoloInv'
  BY NextSolo
<1>4. TypeOK /\ SoloInv /\ OutInv /\ [Next]_vars => OutInv'
  BY NextOut
<1>5. OutInv => (Undisturbed => ImagesAreOwn)
  BY DEF OutInv, ImagesAreOwn
<1> QED
  BY <1>1, <1>2, <1>3, <1>4, <1>5, PlacesCorrect, PTL DEF Spec

-----------------------------------------------------------------------------
(* How many Builders run at a time, for any number of workers.             *)

\* While no Manager was killed and no build timed out, every Builder has a
\* worker that waits for it.
Attended ==
    restarts = 0 /\ timeouts = 0 =>
        \A j \in Jobs : builder[j] \in Live =>
            \E w \in Workers : worker[w].at = "wait" /\ worker[w].job = j

\* A worker other than the one a Builder is attended by moves.
LEMMA AttendedApart ==
    ASSUME Attended, UNCHANGED <<builder, restarts, timeouts>>, NEW w \in Workers,
           worker[w].at = "wait" => builder[worker[w].job] \notin Live,
           \A v \in Workers : v # w => worker'[v] = worker[v]
    PROVE  Attended'
BY DEF Attended

\* What is neither a step of a worker, nor a restart.
LEMMA AttendedAside ==
    ASSUME Attended, UNCHANGED <<worker, restarts, timeouts>>,
           \A j \in Jobs : builder'[j] \in Live => builder[j] \in Live
    PROVE  Attended'
BY DEF Attended

LEMMA NextAttended == TypeOK /\ Attended /\ [Next]_vars => Attended'
<1> SUFFICES ASSUME TypeOK, Attended, [Next]_vars PROVE Attended'
    OBVIOUS
<1>1. ASSUME NEW w \in Workers, NEW next, Go(w, next) \/ Raise(w)
      PROVE  \A v \in Workers : v # w => worker'[v] = worker[v]
  BY <1>1 DEF Go, Raise, TypeOK
<1>2. ASSUME NEW w \in Workers, worker[w].at # "wait", NEW f, NEW next, Record(w, f, next)
      PROVE  Attended'
  BY <1>1, <1>2, AttendedApart DEF Record, build
<1>3. ASSUME NEW w \in Workers, worker[w].at # "wait", NEW line, NEW next, Note(w, line, next)
      PROVE  Attended'
  BY <1>1, <1>3, AttendedApart DEF Note, build
<1>4. ASSUME NEW w \in Workers,
             BeginJob(w) \/ RecordRefused(w) \/ RecordBuilder(w) \/ RecordSucceeded(w) \/ RecordFailed(w)
      PROVE  Attended'
  BY <1>2, <1>4 DEF BeginJob, RecordRefused, RecordBuilder, RecordSucceeded, RecordFailed
<1>5. ASSUME NEW w \in Workers,
             (\E ok \in BOOLEAN : Preflight(w, ok)) \/ AnnounceJob(w) \/ LogComplete(w) \/ LogFailed(w)
      PROVE  Attended'
  BY <1>3, <1>5 DEF Preflight, AnnounceJob, LogComplete, LogFailed
<1>6. ASSUME NEW w \in Workers, TakeJob(w) \/ ReadProgress(w) \/ StopHeartbeat(w) \/ PreflightRaises(w)
      PROVE  Attended'
  <2>1. /\ UNCHANGED <<builder, restarts, timeouts>> /\ worker[w].at # "wait"
        /\ \A v \in Workers : v # w => worker'[v] = worker[v]
    BY <1>1, <1>6 DEF TakeJob, ReadProgress, StopHeartbeat, PreflightRaises, build, bounds, TypeOK
  <2> QED
    BY <2>1, AttendedApart
<1>7. ASSUME NEW w \in Workers, BuilderReturns(w)
      PROVE  Attended'
  BY <1>1, <1>7, AttendedApart DEF BuilderReturns, build, bounds
<1>8. ASSUME NEW w \in Workers, Launch(w)
      PROVE  Attended'
  <2> DEFINE j == worker[w].job
  <2>1. /\ UNCHANGED <<restarts, timeouts>> /\ j \in Jobs /\ worker[w].at = "launch"
        /\ \A v \in Workers : v # w => worker'[v] = worker[v]
    BY <1>1, <1>8 DEF Launch, bounds, TypeOK
  <2>2. CASE UNCHANGED builder
    BY <2>1, <2>2, AttendedApart
  <2>3. CASE builder' = [builder EXCEPT ![j] = "start"] /\ Go(w, "wait")
    <3>1. worker'[w].at = "wait" /\ worker'[w].job = j
      BY <2>3 DEF Go, TypeOK
    <3>2. \A k \in Jobs : k # j => builder'[k] = builder[k]
      BY <2>3 DEF TypeOK
    <3> QED
      BY <2>1, <3>1, <3>2 DEF Attended
  <2> QED
    BY <1>8, <2>2, <2>3 DEF Launch
<1>9. ASSUME NEW w \in Workers, BuildTimesOut(w)
      PROVE  Attended'
  BY <1>9 DEF BuildTimesOut, Attended, TypeOK
<1>10. CASE RestartManager
  BY <1>10 DEF RestartManager, Attended, TypeOK
<1>11. ASSUME NEW j \in Jobs, Build(j)
       PROVE  Attended'
  <2>1. ASSUME NEW from \in Live, NEW to, Step(j, from, to)
        PROVE  /\ UNCHANGED <<worker, restarts, timeouts>>
               /\ \A k \in Jobs : builder'[k] \in Live => builder[k] \in Live
    <3>1. UNCHANGED <<worker, restarts, timeouts>>
      BY <2>1 DEF Step, manager
    <3>2. ASSUME NEW k \in Jobs, builder'[k] \in Live
          PROVE  builder[k] \in Live
      <4>1. builder[j] \in Live
        BY <2>1 DEF Step
      <4>2. k # j => builder'[k] = builder[k]
        BY <2>1 DEF Step, TypeOK
      <4> QED
        BY <3>2, <4>1, <4>2
    <3> QED
      BY <3>1, <3>2
  <2>2. \E from \in Live, to \in Live \cup {"ok", "failed"} : Step(j, from, to)
    BY <1>11 DEF Build, BuilderStarts, BuilderTags, BuilderExports, BuilderPackages,
                 BuilderOpensOutput, BuilderWritesOutput, BuilderVerifies, BuilderFails, Live
  <2> QED
    BY <2>1, <2>2, AttendedAside
<1>12. ASSUME NEW j \in Jobs, CreateJob(j) \/ PageReadJob(j) \/ Heartbeat(j)
       PROVE  Attended'
  BY <1>12, AttendedAside DEF CreateJob, PageReadJob, Heartbeat, HeartbeatCheck, HeartbeatStamp,
                              records, build, bounds
<1>13. CASE Create \/ ReadPage
  BY <1>13, AttendedAside DEF Create, CreateLog, CreateLatest, CreateSubmit, ReadPage, PageMerge,
                              PageReadLog, PageReply, records, build, bounds
<1>14. CASE UNCHANGED vars
  BY <1>14, AttendedAside DEF vars, records, manager, build, bounds
<1> QED
  BY <1>4, <1>5, <1>6, <1>7, <1>8, <1>9, <1>10, <1>11, <1>12, <1>13, <1>14 DEF Next, RunJob

\* "Builds are intentionally serialized" (builder.py, build_jobs.py:3) holds
\* until a Manager is killed or a build times out: there are no more Builders
\* than workers.
THEOREM SerialisedUndisturbed ==
    ASSUME IsFiniteSet(Workers)
    PROVE  Spec => [](restarts = 0 /\ timeouts = 0 => BuildsSerialised)
<1>1. Init => Attended
  BY DEF Init, Attended, Live
<1>2. TypeOK /\ Attended /\ [Next]_vars => Attended'
  BY NextAttended
<1>3. Attended => (restarts = 0 /\ timeouts = 0 => BuildsSerialised)
  <2> SUFFICES ASSUME Attended, restarts = 0, timeouts = 0 PROVE BuildsSerialised
    OBVIOUS
  <2> DEFINE Building == {j \in Jobs : builder[j] \in Live}
             Waits(j) == CHOOSE w \in Workers : worker[w].at = "wait" /\ worker[w].job = j
             f == [j \in Building |-> Waits(j)]
  <2>1. \A j \in Building : Waits(j) \in Workers /\ worker[Waits(j)].job = j
    BY DEF Attended
  <2>2. f \in [Building -> Workers]
    BY <2>1
  <2>3. \A j, k \in Building : f[j] = f[k] => j = k
    <3>1. \A j \in Building : worker[f[j]].job = j
      BY <2>1
    <3> HIDE DEF f
    <3> QED
      BY <3>1
  <2>4. f \in Injection(Building, Workers)
    BY <2>2, <2>3 DEF Injection, IsInjective
  <2>5. Cardinality(Building) <= Cardinality(Workers)
    <3> HIDE DEF Building, f
    <3> QED
      BY <2>4, FS_Injection
  <2> QED
    BY <2>5 DEF BuildsSerialised
<1> QED
  BY <1>1, <1>2, <1>3, TypeCorrect, PTL DEF Spec

-----------------------------------------------------------------------------
(* The progress page.                                                      *)

\* 100% belongs to a success: nobody else writes it to a job file, and what a
\* worker has seen of its Builder is less.
ProgressInv ==
    /\ \A j \in Jobs : job[j].progress = 100 => job[j].status = "succeeded"
    /\ \A w \in Workers : worker[w].seen < 100

\* A page that has read the job file will find the line of what it read.
PageInv ==
    /\ loop.at \in {"merge", "page", "reply"} =>
          (loop.progress = 100 => loop.status = "succeeded")
    /\ loop.at \in {"merge", "page"} =>
          /\ loop.status = "succeeded" => "complete" \in log[loop.job]
          /\ loop.status = "failed" => log[loop.job] \cap {"checked", "failed"} # {}
    /\ PageIsHonest

\* What a Record leaves of a progress that is not 100, or is a success's.
LEMMA RecordProgress ==
    ASSUME TypeOK, ProgressInv, NEW w \in Workers, worker[w].job \in Jobs,
           NEW f \in File, f.progress = 100 => f.status = "succeeded",
           NEW next, Record(w, f, next)
    PROVE  ProgressInv'
<1>1. \A j \in Jobs : job'[j] = job[j] \/ job'[j] = f
  BY DEF Record, TypeOK
<1>2. \A v \in Workers : worker'[v].seen = worker[v].seen
  BY DEF Record, Go, Raise, TypeOK
<1> QED BY <1>1, <1>2 DEF ProgressInv

\* A worker that goes on, or raises, without touching its job's file.
LEMMA GoProgress ==
    ASSUME TypeOK, ProgressInv, UNCHANGED job, NEW w \in Workers,
           NEW next \in Places, Go(w, next) \/ Raise(w)
    PROVE  ProgressInv'
<1>1. \A v \in Workers : worker'[v].seen = worker[v].seen
  <2>1. Go(w, next) => \A v \in Workers : worker'[v].seen = worker[v].seen
    BY DEF Go, TypeOK
  <2>2. Raise(w) => \A v \in Workers : worker'[v].seen = worker[v].seen
    BY DEF Raise, TypeOK
  <2> QED BY <2>1, <2>2
<1>2. \A v \in Workers : worker[v].seen < 100
  BY DEF ProgressInv
<1>3. \A v \in Workers : worker'[v].seen < 100
  BY <1>1, <1>2
<1>4. \A j \in Jobs : job'[j].progress = 100 => job'[j].status = "succeeded"
  BY DEF ProgressInv
<1> QED BY <1>3, <1>4 DEF ProgressInv

\* Every step keeps 100% for the successes.
LEMMA NextProgress == TypeOK /\ PlaceInv /\ ProgressInv /\ [Next]_vars => ProgressInv'
<1> SUFFICES ASSUME TypeOK, PlaceInv, ProgressInv, [Next]_vars PROVE ProgressInv'
    OBVIOUS
<1>0. ASSUME UNCHANGED <<job, worker>> PROVE ProgressInv'
  BY <1>0 DEF ProgressInv
<1>1. ASSUME NEW j \in Jobs, CreateJob(j) PROVE ProgressInv'
  <2>1. \A k \in Jobs : job'[k] = job[k] \/ job'[k].progress = 1
    BY <1>1 DEF CreateJob, TypeOK
  <2> QED BY <1>1, <2>1 DEF CreateJob, ProgressInv
<1>2. CASE Create \/ ReadPage \/ \E j \in Jobs : PageReadJob(j)
  BY <1>0, <1>2 DEF Create, ReadPage, CreateLog, CreateLatest, CreateSubmit, PageMerge,
     PageReadLog, PageReply, PageReadJob, records
<1>3. ASSUME NEW w \in Workers, TakeJob(w) PROVE ProgressInv'
  <2>1. \A v \in Workers : worker'[v].seen \in {worker[v].seen, 0}
    BY <1>3 DEF TakeJob, Begun, TypeOK
  <2> QED BY <1>3, <2>1 DEF TakeJob, records, ProgressInv
<1>4. ASSUME NEW w \in Workers, BeginJob(w) \/ RecordRefused(w) \/ RecordBuilder(w)
                                \/ RecordSucceeded(w)
      PROVE  ProgressInv'
  <2>1. worker[w].job \in Jobs
    BY <1>4 DEF BeginJob, RecordRefused, RecordBuilder, RecordSucceeded, TypeOK
  <2>2. PICK f \in File, next \in Places :
            Record(w, f, next) /\ (f.progress = 100 => f.status = "succeeded")
    <3>1. CASE BeginJob(w)
      BY <3>1 DEF BeginJob, File, Statuses, ActiveStatuses, Places
    <3>2. CASE RecordRefused(w)
      BY <3>2 DEF RecordRefused, File, Statuses, FinalStatuses, Places
    <3>3. CASE RecordBuilder(w)
      BY <3>3 DEF RecordBuilder, File, Statuses, ActiveStatuses, Places
    <3>4. CASE RecordSucceeded(w)
      BY <3>4 DEF RecordSucceeded, File, Statuses, FinalStatuses, Places
    <3> QED BY <1>4, <3>1, <3>2, <3>3, <3>4
  <2> QED BY <2>1, <2>2, RecordProgress
<1>5. ASSUME NEW w \in Workers, RecordFailed(w) PROVE ProgressInv'
  <2> DEFINE p == IF worker[w].caught THEN job[worker[w].job].progress ELSE worker[w].seen
             f == [status |-> "failed", progress |-> p]
  <2>1. worker[w].job \in Jobs /\ Active(worker[w].job)
    BY <1>5 DEF RecordFailed, TypeOK, PlaceInv, WorkerInv, Held
  <2>2. p \in 0..100 /\ p # 100
    BY <2>1 DEF TypeOK, ProgressInv, Active, ActiveStatuses
  <2>3. Record(w, f, "finally")
    BY <1>5 DEF RecordFailed
  <2>4. f \in File /\ f.progress # 100
    BY <2>2 DEF File, Statuses, FinalStatuses
  <2> HIDE DEF f
  <2> QED BY <2>1, <2>3, <2>4, RecordProgress
<1>6. ASSUME NEW w \in Workers,
             \/ \E ok \in BOOLEAN : Preflight(w, ok)
             \/ AnnounceJob(w) \/ LogComplete(w) \/ LogFailed(w)
      PROVE  ProgressInv'
  <2>1. UNCHANGED job /\ \E next \in Places : Go(w, next) \/ Raise(w)
    BY <1>6 DEF Preflight, AnnounceJob, LogComplete, LogFailed, Note, Places
  <2> QED BY <2>1, GoProgress
<1>7. ASSUME NEW w \in Workers,
             PreflightRaises(w) \/ Launch(w) \/ BuilderReturns(w) \/ BuildTimesOut(w)
      PROVE  ProgressInv'
  <2>1. UNCHANGED job /\ \E next \in Places : Go(w, next) \/ Raise(w)
    BY <1>7 DEF PreflightRaises, Launch, BuilderReturns, BuildTimesOut, records, Places
  <2> QED BY <2>1, GoProgress
<1>8. ASSUME NEW w \in Workers, ReadProgress(w) PROVE ProgressInv'
  <2> DEFINE j == worker[w].job
  <2>1. j \in Jobs /\ Active(j)
    BY <1>8 DEF ReadProgress, TypeOK, PlaceInv, WorkerInv, Held
  <2>2. job[j].progress \in 0..100 /\ file[j] \in 0..100 /\ job[j].progress # 100
    BY <2>1 DEF TypeOK, ProgressInv, Active, ActiveStatuses
  <2>3. Shown(j) < 100 /\ Shown(j) \in 0..100
    BY <2>1, <2>2 DEF Shown, Merged, Larger, Active
  <2>4. \A v \in Workers : worker'[v].seen \in {worker[v].seen, Larger(5, Shown(j))}
    BY <1>8 DEF ReadProgress, TypeOK
  <2>5. Larger(5, Shown(j)) < 100
    BY <2>3 DEF Larger
  <2> QED BY <1>8, <2>4, <2>5 DEF ReadProgress, records, ProgressInv
<1>9. ASSUME NEW w \in Workers, StopHeartbeat(w) PROVE ProgressInv'
  <2>1. \A v \in Workers : worker'[v].seen \in {worker[v].seen, 0}
    BY <1>9 DEF StopHeartbeat, IdleWorker, TypeOK
  <2> QED BY <1>9, <2>1 DEF StopHeartbeat, records, ProgressInv
<1>10. ASSUME NEW j \in Jobs, Heartbeat(j) PROVE ProgressInv'
  BY <1>0, <1>10 DEF Heartbeat, HeartbeatCheck, HeartbeatStamp, records
<1>11. ASSUME NEW j \in Jobs, Build(j) PROVE ProgressInv'
  BY <1>0, <1>11 DEF Build, BuilderStarts, BuilderTags, BuilderExports, BuilderPackages,
     BuilderOpensOutput, BuilderWritesOutput, BuilderVerifies, BuilderFails, Step,
     records, manager
<1>12. CASE RestartManager
  BY <1>12 DEF RestartManager, IdleWorker, records, ProgressInv
<1>13. CASE UNCHANGED vars
  BY <1>0, <1>13 DEF vars
<1>14. QED
  BY <1>1, <1>2, <1>3, <1>4, <1>5, <1>6, <1>7, <1>8, <1>9, <1>10, <1>11, <1>12, <1>13
     DEF Next, RunJob

\* Workers, heartbeats and Builders serve no page, and logs only grow.
LEMMA PageUndisturbed ==
    ASSUME TypeOK, PageInv,
           \/ \E w \in Workers : RunJob(w) \/ BuildTimesOut(w)
           \/ \E j \in Jobs : Heartbeat(j) \/ Build(j)
    PROVE  PageInv'
<1>1. UNCHANGED loop /\ \A j \in Jobs : log[j] \subseteq log'[j]
  <2>1. ASSUME NEW w \in Workers, NEW line, NEW next, Note(w, line, next)
        PROVE  UNCHANGED loop /\ \A j \in Jobs : log[j] \subseteq log'[j]
    <3>1. UNCHANGED loop /\ (AppendLog(worker[w].job, line) \/ UNCHANGED log)
      BY <2>1 DEF Note
    <3>2. AppendLog(worker[w].job, line) => \A j \in Jobs : log[j] \subseteq log'[j]
      BY DEF AppendLog, TypeOK
    <3> QED BY <3>1, <3>2
  <2>2. ASSUME NEW w \in Workers, NEW f, NEW next, Record(w, f, next)
        PROVE  UNCHANGED <<loop, log>>
    BY <2>2 DEF Record
  <2>3. ASSUME NEW w \in Workers, RunJob(w) \/ BuildTimesOut(w)
        PROVE  UNCHANGED loop /\ \A j \in Jobs : log[j] \subseteq log'[j]
    <3>1. CASE \/ \E ok \in BOOLEAN : Preflight(w, ok)
               \/ AnnounceJob(w) \/ LogComplete(w) \/ LogFailed(w)
      BY <2>1, <3>1 DEF Preflight, AnnounceJob, LogComplete, LogFailed
    <3>2. CASE BeginJob(w) \/ RecordRefused(w) \/ RecordBuilder(w) \/ RecordSucceeded(w)
               \/ RecordFailed(w)
      BY <2>2, <3>2 DEF BeginJob, RecordRefused, RecordBuilder, RecordSucceeded, RecordFailed
    <3>3. CASE \/ TakeJob(w) \/ PreflightRaises(w) \/ Launch(w) \/ BuilderReturns(w)
               \/ BuildTimesOut(w) \/ ReadProgress(w) \/ StopHeartbeat(w)
      BY <3>3 DEF TakeJob, PreflightRaises, Launch, BuilderReturns, BuildTimesOut,
         ReadProgress, StopHeartbeat, records
    <3> QED BY <2>3, <3>1, <3>2, <3>3 DEF RunJob
  <2>4. ASSUME NEW j \in Jobs, Heartbeat(j) PROVE UNCHANGED <<loop, log>>
    BY <2>4 DEF Heartbeat, HeartbeatCheck, HeartbeatStamp, records
  <2>5. ASSUME NEW j \in Jobs, Build(j) PROVE UNCHANGED <<loop, log>>
    BY <2>5 DEF Build, BuilderStarts, BuilderTags, BuilderExports, BuilderPackages,
       BuilderOpensOutput, BuilderWritesOutput, BuilderVerifies, BuilderFails, Step,
       records, manager
  <2> QED BY <2>3, <2>4, <2>5
<1>2. loop.at # "idle" => loop.job \in Jobs
  BY DEF TypeOK
<1> QED BY <1>1, <1>2 DEF PageInv, PageIsHonest

\* Every step keeps what a page has read true of what it will read.
LEMMA NextPage ==
    TypeOK /\ OutcomeInv /\ ProgressInv /\ PageInv /\ [Next]_vars => PageInv'
<1> SUFFICES ASSUME TypeOK, OutcomeInv, ProgressInv, PageInv, [Next]_vars PROVE PageInv'
    OBVIOUS
<1>1. ASSUME NEW j \in Jobs, CreateJob(j) PROVE PageInv'
  <2>1. loop' = loop \/ loop'.at = "log"
    BY <1>1 DEF CreateJob, TypeOK
  <2>2. loop.at = "idle" /\ UNCHANGED log
    BY <1>1 DEF CreateJob
  <2> QED BY <2>1, <2>2 DEF PageInv, PageIsHonest
<1>2. CASE Create \/ PageReply \/ RestartManager
  <2>1. loop'.at \in {"latest", "submit", "idle"}
    BY <1>2 DEF Create, CreateLog, CreateLatest, CreateSubmit, PageReply, RestartManager,
       IdleLoop, TypeOK
  <2> QED BY <2>1 DEF PageInv, PageIsHonest
<1>3. ASSUME NEW j \in Jobs, PageReadJob(j) PROVE PageInv'
  <2>1. /\ loop'.at = "merge" /\ loop'.job = j /\ log' = log
        /\ loop'.status = job[j].status /\ loop'.progress = job[j].progress
    BY <1>3 DEF PageReadJob, IdleLoop, records
  <2>2. Backed(j) /\ (job[j].progress = 100 => job[j].status = "succeeded")
    BY DEF OutcomeInv, OutcomeIsBacked, ProgressInv
  <2> QED BY <2>1, <2>2 DEF PageInv, PageIsHonest, Backed
<1>4. CASE PageMerge
  <2>1. /\ loop'.at = "page" /\ loop'.job = loop.job /\ log' = log
        /\ loop'.status = loop.status
        /\ loop'.progress = Merged(loop.status, loop.progress, file[loop.job])
    BY <1>4 DEF PageMerge, TypeOK, records
  <2>2. loop.progress \in 0..100 /\ file[loop.job] \in 0..100 /\ loop.at = "merge"
    BY <1>4 DEF PageMerge, TypeOK
  <2>3. loop'.progress = 100 => loop'.status = "succeeded"
    <3>1. loop.progress = 100 => loop.status = "succeeded"
      BY <2>2 DEF PageInv
    <3>2. Merged(loop.status, loop.progress, file[loop.job]) = 100 => loop.status = "succeeded"
      BY <2>2, <3>1 DEF Merged, Larger, ActiveStatuses
    <3> QED BY <2>1, <3>2
  <2>4. loop'.at \in {"merge", "page"} =>
           /\ loop'.status = "succeeded" => "complete" \in log'[loop'.job]
           /\ loop'.status = "failed" => log'[loop'.job] \cap {"checked", "failed"} # {}
    BY <2>1, <2>2 DEF PageInv
  <2>5. PageIsHonest'
    BY <2>1 DEF PageIsHonest
  <2> QED BY <2>1, <2>3, <2>4, <2>5 DEF PageInv
<1>5. CASE PageReadLog
  <2>1. /\ loop.at = "page" /\ loop'.at = "reply" /\ log' = log
        /\ loop'.status = loop.status /\ loop'.progress = loop.progress
        /\ loop'.lines = log[loop.job]
    BY <1>5 DEF PageReadLog, TypeOK, records
  <2> QED BY <2>1 DEF PageInv, PageIsHonest
<1>6. CASE UNCHANGED vars
  BY <1>6 DEF vars, PageInv, PageIsHonest
<1>7. QED
  BY <1>1, <1>2, <1>3, <1>4, <1>5, <1>6, PageUndisturbed DEF Next, ReadPage

\* PageIsHonest: 100% on a page is a success, and an outcome on a page comes with
\* its log line, although get_build_job reads three files one after the other.
THEOREM PagesAreHonest == Spec => []PageIsHonest
<1>1. Init => OutcomeInv /\ ProgressInv /\ PageInv
  <2>1. Init => OutcomeInv
    BY DEF Init, OutcomeInv, OutcomeIsBacked, Backed, Seen, Absent, IdleWorker
  <2>2. Init => ProgressInv /\ PageInv
    BY DEF Init, ProgressInv, PageInv, PageIsHonest, Absent, IdleWorker, IdleLoop
  <2> QED BY <2>1, <2>2
<1>2. TypeOK /\ PlaceInv /\ OutcomeInv /\ ProgressInv /\ PageInv /\ [Next]_vars
        => (OutcomeInv /\ ProgressInv /\ PageInv)'
  BY NextOutcome, NextProgress, NextPage
<1>3. PageInv => PageIsHonest
  BY DEF PageInv
<1>4. QED BY <1>1, <1>2, <1>3, PlacesCorrect, PTL DEF Spec

-----------------------------------------------------------------------------
(* Progress.                                                               *)

\* The most a Builder has reported where it is.
AtMost(stage) ==
    CASE stage \in {"off", "start"} -> 0
      [] stage = "images" -> 10
      [] stage = "export" -> 65
      [] stage = "package" -> 91
      [] stage \in {"compress", "writing"} -> 94
      [] stage = "verify" -> 98
      [] OTHER -> 100
FileInv == \A j \in Jobs : file[j] <= AtMost(builder[j])

\* The Manager's own progress values are small and come first.
SmallInv ==
    /\ \A j \in Jobs : /\ Active(j) => job[j].progress <= 5
                       /\ job[j].status = "queued" => job[j].progress <= 2
    /\ \A w \in Workers :
          worker[w].at \in {"check", "refuse", "progress"} => job[worker[w].job].progress <= 2

\* A worker on its way to a failure without an exception has no live Builder, and
\* has seen its last report.
Failing(w) == timeouts = 0 /\ ~worker[w].caught /\ worker[w].at \in {"logfailed", "read", "fail"}
LastSeen(w) ==
    Failing(w) =>
        /\ builder[worker[w].job] \notin Live
        /\ worker[w].at = "fail" => worker[w].seen >= Shown(worker[w].job)
SeenInv == \A w \in Workers : LastSeen(w)

\* A Builder's step reports no less than before, and no more than its stage.
LEMMA BuilderReports ==
    ASSUME TypeOK, FileInv, NEW j \in Jobs, Build(j)
    PROVE  /\ builder[j] \in Live /\ UNCHANGED <<job, worker, timeouts>>
           /\ file'[j] \in 0..100 /\ file[j] <= file'[j] /\ file'[j] <= AtMost(builder'[j])
           /\ \A k \in Jobs : k # j => file'[k] = file[k] /\ builder'[k] = builder[k]
<1>1. UNCHANGED <<job, worker, timeouts>> /\ builder[j] \in Live
      /\ \A k \in Jobs : k # j => builder'[k] = builder[k]
  BY DEF Build, BuilderStarts, BuilderTags, BuilderExports, BuilderPackages,
     BuilderOpensOutput, BuilderWritesOutput, BuilderVerifies, BuilderFails, Step,
     records, manager, Live, TypeOK
<1>2. file[j] \in 0..100 /\ file[j] <= AtMost(builder[j])
  BY DEF TypeOK, FileInv
<1>3. ASSUME NEW p \in 0..100, Report(j, p) \/ UNCHANGED file
      PROVE  file'[j] \in {file[j], p} /\ \A k \in Jobs : k # j => file'[k] = file[k]
  BY <1>3 DEF Report, TypeOK
<1>4. ASSUME NEW from, NEW to, Step(j, from, to) PROVE builder[j] = from /\ builder'[j] = to
  BY <1>4 DEF Step, TypeOK
<1>5. CASE BuilderStarts(j)
  BY <1>1, <1>2, <1>3, <1>4, <1>5 DEF BuilderStarts, AtMost
<1>6. CASE BuilderTags(j)
  BY <1>1, <1>2, <1>3, <1>4, <1>6 DEF BuilderTags, AtMost
<1>7. CASE BuilderExports(j)
  BY <1>1, <1>2, <1>3, <1>4, <1>7 DEF BuilderExports, AtMost
<1>8. CASE BuilderPackages(j)
  BY <1>1, <1>2, <1>3, <1>4, <1>8 DEF BuilderPackages, AtMost
<1>9. CASE BuilderOpensOutput(j)
  BY <1>1, <1>2, <1>3, <1>4, <1>9 DEF BuilderOpensOutput, AtMost
<1>10. CASE BuilderWritesOutput(j)
  BY <1>1, <1>2, <1>3, <1>4, <1>10 DEF BuilderWritesOutput, AtMost
<1>11. CASE BuilderVerifies(j)
  BY <1>1, <1>2, <1>3, <1>4, <1>11 DEF BuilderVerifies, AtMost
<1>12. CASE BuilderFails(j)
  <2>1. builder'[j] = "failed"
    BY <1>4, <1>12 DEF BuilderFails
  <2>2. (builder[j] = "verify" /\ Report(j, 99)) \/ UNCHANGED file
    BY <1>12 DEF BuilderFails
  <2> QED BY <1>1, <1>2, <1>3, <2>1, <2>2 DEF AtMost
<1> QED BY <1>5, <1>6, <1>7, <1>8, <1>9, <1>10, <1>11, <1>12 DEF Build

\* More in the file is no less on the page.
LEMMA ShownGrows ==
    ASSUME NEW s, NEW p \in 0..100, NEW q \in 0..100, NEW r \in 0..100, q <= r
    PROVE  Merged(s, p, q) <= Merged(s, p, r)
BY DEF Merged, Larger

\* Only Builders write the progress files and end themselves, but for a timeout.
LEMMA FilesKept ==
    ASSUME TypeOK, [Next]_vars, \A j \in Jobs : ~Build(j)
    PROVE  /\ UNCHANGED file
           /\ UNCHANGED builder \/ \E w \in Workers : Launch(w) \/ BuildTimesOut(w)
<1>1. CASE \E j \in Jobs : CreateJob(j) \/ PageReadJob(j) \/ Heartbeat(j)
  BY <1>1 DEF CreateJob, PageReadJob, Heartbeat, HeartbeatCheck, HeartbeatStamp, build
<1>2. CASE Create \/ ReadPage \/ RestartManager
  BY <1>2 DEF Create, CreateLog, CreateLatest, CreateSubmit, ReadPage, PageMerge,
     PageReadLog, PageReply, RestartManager, build
<1>3. ASSUME NEW w \in Workers, RunJob(w) \/ BuildTimesOut(w)
      PROVE  /\ UNCHANGED file
             /\ UNCHANGED builder \/ Launch(w) \/ BuildTimesOut(w)
  BY <1>3 DEF RunJob, TakeJob, BeginJob, Preflight, PreflightRaises, RecordRefused,
     RecordBuilder, AnnounceJob, Launch, BuilderReturns, BuildTimesOut, LogComplete,
     RecordSucceeded, LogFailed, ReadProgress, RecordFailed, StopHeartbeat, Record, Note, build
<1>4. CASE UNCHANGED vars
  BY <1>4 DEF vars
<1> QED BY <1>1, <1>2, <1>3, <1>4 DEF Next

\* Every step keeps the reports below their stages.
LEMMA NextFile == TypeOK /\ PlaceInv /\ FileInv /\ [Next]_vars => FileInv'
<1> SUFFICES ASSUME TypeOK, PlaceInv, FileInv, [Next]_vars PROVE FileInv'
    OBVIOUS
<1>1. ASSUME NEW j \in Jobs, Build(j) PROVE FileInv'
  BY <1>1, BuilderReports DEF FileInv
<1>2. ASSUME NEW w \in Workers, Launch(w), UNCHANGED file PROVE FileInv'
  <2>1. worker[w].job \in Jobs /\ builder[worker[w].job] = "off"
    BY <1>2 DEF Launch, TypeOK, PlaceInv, WorkerInv, Held, Before
  <2>2. \A j \in Jobs : builder'[j] = builder[j] \/ (builder[j] = "off" /\ builder'[j] = "start")
    BY <1>2, <2>1 DEF Launch, TypeOK
  <2>3. AtMost("off") = AtMost("start")
    BY DEF AtMost
  <2> QED BY <1>2, <2>2, <2>3 DEF FileInv
<1>3. ASSUME NEW w \in Workers, BuildTimesOut(w), UNCHANGED file PROVE FileInv'
  <2>1. \A j \in Jobs : builder'[j] = builder[j] \/ builder'[j] = "failed"
    BY <1>3 DEF BuildTimesOut, TypeOK
  <2>2. AtMost("failed") = 100
    BY DEF AtMost
  <2>3. ASSUME NEW j \in Jobs PROVE file[j] <= 100
    <3>1. file[j] \in 0..100
      BY DEF TypeOK
    <3> QED BY <3>1
  <2> QED BY <1>3, <2>1, <2>2, <2>3 DEF FileInv
<1>4. CASE UNCHANGED <<file, builder>>
  BY <1>4 DEF FileInv
<1> QED BY <1>1, <1>2, <1>3, <1>4, FilesKept

\* A step of a worker on its own job is judged by that job.
LEMMA MoveSmall ==
    ASSUME TypeOK, PlaceInv, SmallInv, NEW w \in Workers, worker[w].at # "idle",
           \A k \in Jobs : k # worker[w].job => job'[k] = job[k],
           \A v \in Workers : v # w => worker'[v] = worker[v],
           job'[worker[w].job].status \in ActiveStatuses => job'[worker[w].job].progress <= 5,
           job'[worker[w].job].status = "queued" => job'[worker[w].job].progress <= 2,
           worker'[w].at \in {"check", "refuse", "progress"} =>
              worker'[w].job = worker[w].job /\ job'[worker[w].job].progress <= 2
    PROVE  SmallInv'
<1>1. worker[w].job \in Jobs
  BY DEF TypeOK
<1>2. ASSUME NEW k \in Jobs
      PROVE  /\ Active(k)' => job'[k].progress <= 5
             /\ job'[k].status = "queued" => job'[k].progress <= 2
  <2>1. CASE k = worker[w].job
    BY <2>1 DEF Active
  <2>2. CASE k # worker[w].job
    <3>1. job'[k] = job[k]
      BY <2>2
    <3> QED BY <3>1 DEF SmallInv, Active
  <2> QED BY <2>1, <2>2
<1>3. ASSUME NEW v \in Workers, worker'[v].at \in {"check", "refuse", "progress"}
      PROVE  job'[worker'[v].job].progress <= 2
  <2>1. CASE v = w
    BY <1>3, <2>1
  <2>2. CASE v # w
    <3>1. worker'[v] = worker[v] /\ worker[v].at # "idle"
      BY <1>3, <2>2
    <3>2. worker[v].job \in Jobs /\ worker[v].job # worker[w].job
      BY <1>1, <2>2, <3>1 DEF TypeOK, PlaceInv, WorkerInv, Held
    <3>3. job[worker[v].job].progress <= 2
      BY <1>3, <3>1 DEF SmallInv
    <3> QED BY <3>1, <3>2, <3>3
  <2> QED BY <2>1, <2>2
<1> QED BY <1>2, <1>3 DEF SmallInv

\* The writes of _run_job keep the small values small.
LEMMA RecordSmall ==
    ASSUME TypeOK, PlaceInv, SmallInv, NEW w \in Workers, worker[w].at # "idle",
           NEW f \in File, NEW next \in Places, Record(w, f, next),
           f.status \in {"running", "succeeded", "failed"},
           f.status = "running" => f.progress <= 5,
           next \in {"check", "refuse", "progress"} => f.progress <= 2
    PROVE  SmallInv'
<1>1. worker[w].job \in Jobs
  BY DEF TypeOK
<1>2. /\ \A k \in Jobs : k # worker[w].job => job'[k] = job[k]
      /\ \A v \in Workers : v # w => worker'[v] = worker[v]
  BY DEF Record, Go, Raise, TypeOK
<1>3. CASE job' = [job EXCEPT ![worker[w].job] = f] /\ Go(w, next)
  <2>1. job'[worker[w].job] = f
    BY <1>1, <1>3 DEF TypeOK
  <2>2. worker'[w].job = worker[w].job /\ worker'[w].at = next
    BY <1>3 DEF Go, TypeOK
  <2>3. f.status \in ActiveStatuses => f.progress <= 5
    BY DEF ActiveStatuses
  <2> QED BY <1>2, <2>1, <2>2, <2>3, MoveSmall
<1>4. CASE Raise(w) /\ UNCHANGED job
  <2>1. worker'[w].at \in {"finally", "logfailed"}
    BY <1>4 DEF Raise, TypeOK
  <2>2. /\ Active(worker[w].job) => job[worker[w].job].progress <= 5
        /\ job[worker[w].job].status = "queued" => job[worker[w].job].progress <= 2
    BY <1>1 DEF SmallInv
  <2> QED BY <1>2, <1>4, <2>1, <2>2, MoveSmall DEF Active
<1> QED BY <1>3, <1>4 DEF Record

\* A worker that goes on, or raises, without touching its job's file.
LEMMA GoSmall ==
    ASSUME TypeOK, PlaceInv, SmallInv, UNCHANGED job, NEW w \in Workers, worker[w].at # "idle",
           NEW next \in Places, Go(w, next) \/ Raise(w),
           next \in {"check", "refuse", "progress"} => worker[w].at = "check"
    PROVE  SmallInv'
<1>1. worker[w].job \in Jobs
  BY DEF TypeOK
<1>2. /\ \A v \in Workers : v # w => worker'[v] = worker[v]
      /\ worker'[w].job = worker[w].job /\ worker'[w].at \in {next, "finally", "logfailed"}
  BY DEF Go, Raise, TypeOK
<1>3. /\ Active(worker[w].job) => job[worker[w].job].progress <= 5
      /\ job[worker[w].job].status = "queued" => job[worker[w].job].progress <= 2
      /\ worker[w].at = "check" => job[worker[w].job].progress <= 2
  BY <1>1 DEF SmallInv
<1> QED BY <1>2, <1>3, MoveSmall DEF Active

\* Every step keeps the Manager's own progress values small.
LEMMA NextSmall == TypeOK /\ PlaceInv /\ SmallInv /\ [Next]_vars => SmallInv'
<1> SUFFICES ASSUME TypeOK, PlaceInv, SmallInv, [Next]_vars PROVE SmallInv'
    OBVIOUS
<1>0. ASSUME UNCHANGED <<job, worker>> PROVE SmallInv'
  BY <1>0 DEF SmallInv, Active
<1>1. ASSUME NEW j \in Jobs, CreateJob(j) PROVE SmallInv'
  <2>1. CASE UNCHANGED job
    BY <1>0, <1>1, <2>1 DEF CreateJob
  <2>2. CASE job' = [job EXCEPT ![j] = [status |-> "queued", progress |-> 1]]
    <3>1. \A k \in Jobs : job'[k] = job[k] \/ job'[k] = [status |-> "queued", progress |-> 1]
      BY <2>2 DEF TypeOK
    <3>2. \A k \in Jobs : /\ Active(k)' => job'[k].progress <= 5
                          /\ job'[k].status = "queued" => job'[k].progress <= 2
      BY <3>1 DEF SmallInv, Active
    <3>3. ASSUME NEW v \in Workers, worker[v].at \in {"check", "refuse", "progress"}
          PROVE  job'[worker[v].job].progress <= 2
      <4>1. worker[v].job \in Jobs /\ job[worker[v].job].progress <= 2
        BY <3>3 DEF TypeOK, SmallInv
      <4> QED BY <3>1, <4>1
    <3> QED BY <1>1, <3>2, <3>3 DEF CreateJob, SmallInv
  <2> QED BY <1>1, <2>1, <2>2 DEF CreateJob
<1>2. CASE Create \/ ReadPage \/ \E j \in Jobs : PageReadJob(j)
  BY <1>0, <1>2 DEF Create, ReadPage, CreateLog, CreateLatest, CreateSubmit, PageMerge,
     PageReadLog, PageReply, PageReadJob, records
<1>3. ASSUME NEW w \in Workers, TakeJob(w) \/ StopHeartbeat(w) PROVE SmallInv'
  <2>1. UNCHANGED job
    BY <1>3 DEF TakeJob, StopHeartbeat, records
  <2>2. \A v \in Workers : worker'[v] = worker[v] \/ worker'[v].at \in {"begin", "idle"}
    BY <1>3 DEF TakeJob, Begun, StopHeartbeat, IdleWorker, TypeOK
  <2> QED BY <2>1, <2>2 DEF SmallInv, Active
<1>4. ASSUME NEW w \in Workers, BeginJob(w) \/ RecordRefused(w) \/ RecordBuilder(w)
                                \/ RecordSucceeded(w)
      PROVE  SmallInv'
  <2>1. worker[w].at # "idle"
    BY <1>4 DEF BeginJob, RecordRefused, RecordBuilder, RecordSucceeded
  <2>2. PICK f \in File, next \in Places :
            /\ Record(w, f, next) /\ f.status \in {"running", "succeeded", "failed"}
            /\ f.status = "running" => f.progress <= 5
            /\ next \in {"check", "refuse", "progress"} => f.progress <= 2
    <3>1. CASE BeginJob(w)
      BY <3>1 DEF BeginJob, File, Statuses, ActiveStatuses, Places
    <3>2. CASE RecordRefused(w)
      BY <3>2 DEF RecordRefused, File, Statuses, FinalStatuses, Places
    <3>3. CASE RecordBuilder(w)
      BY <3>3 DEF RecordBuilder, File, Statuses, ActiveStatuses, Places
    <3>4. CASE RecordSucceeded(w)
      BY <3>4 DEF RecordSucceeded, File, Statuses, FinalStatuses, Places
    <3> QED BY <1>4, <3>1, <3>2, <3>3, <3>4
  <2> QED BY <2>1, <2>2, RecordSmall
<1>5. ASSUME NEW w \in Workers, RecordFailed(w) PROVE SmallInv'
  <2> DEFINE p == IF worker[w].caught THEN job[worker[w].job].progress ELSE worker[w].seen
             f == [status |-> "failed", progress |-> p]
  <2>1. worker[w].at # "idle" /\ Record(w, f, "finally")
    BY <1>5 DEF RecordFailed
  <2>2. f \in File /\ f.status = "failed"
    BY <1>5 DEF RecordFailed, TypeOK, File, Statuses, FinalStatuses
  <2>3. "finally" \in Places
    BY DEF Places
  <2> HIDE DEF f
  <2> QED BY <2>1, <2>2, <2>3, RecordSmall
<1>6. ASSUME NEW w \in Workers,
             \/ \E ok \in BOOLEAN : Preflight(w, ok)
             \/ AnnounceJob(w) \/ LogComplete(w) \/ LogFailed(w)
      PROVE  SmallInv'
  <2>1. /\ UNCHANGED job /\ worker[w].at # "idle"
        /\ \E next \in Places : /\ Go(w, next) \/ Raise(w)
                                /\ next \in {"check", "refuse", "progress"} => worker[w].at = "check"
    BY <1>6 DEF Preflight, AnnounceJob, LogComplete, LogFailed, Note, Places
  <2> QED BY <2>1, GoSmall
<1>7. ASSUME NEW w \in Workers,
             PreflightRaises(w) \/ Launch(w) \/ BuilderReturns(w) \/ BuildTimesOut(w)
      PROVE  SmallInv'
  <2>1. /\ UNCHANGED job /\ worker[w].at # "idle"
        /\ \E next \in Places : /\ Go(w, next) \/ Raise(w)
                                /\ next \notin {"check", "refuse", "progress"}
    BY <1>7 DEF PreflightRaises, Launch, BuilderReturns, BuildTimesOut, records, Places
  <2> QED BY <2>1, GoSmall
<1>8. ASSUME NEW w \in Workers, ReadProgress(w) PROVE SmallInv'
  <2>1. UNCHANGED job /\ \A v \in Workers : worker'[v] = worker[v] \/ worker'[v].at = "fail"
    BY <1>8 DEF ReadProgress, records, TypeOK
  <2> QED BY <2>1 DEF SmallInv, Active
<1>9. ASSUME NEW j \in Jobs, Heartbeat(j) PROVE SmallInv'
  BY <1>0, <1>9 DEF Heartbeat, HeartbeatCheck, HeartbeatStamp, records
<1>10. ASSUME NEW j \in Jobs, Build(j) PROVE SmallInv'
  BY <1>0, <1>10 DEF Build, BuilderStarts, BuilderTags, BuilderExports, BuilderPackages,
     BuilderOpensOutput, BuilderWritesOutput, BuilderVerifies, BuilderFails, Step,
     records, manager
<1>11. CASE RestartManager
  <2>1. UNCHANGED job /\ \A v \in Workers : worker'[v].at = "idle"
    BY <1>11 DEF RestartManager, IdleWorker, records
  <2> QED BY <2>1 DEF SmallInv, Active
<1>12. CASE UNCHANGED vars
  BY <1>0, <1>12 DEF vars
<1>13. QED
  BY <1>1, <1>2, <1>3, <1>4, <1>5, <1>6, <1>7, <1>8, <1>9, <1>10, <1>11, <1>12
     DEF Next, RunJob

\* What the last report says stays while nothing touches the job.
LEMMA KeepSeen ==
    ASSUME TypeOK, SeenInv, NEW v \in Workers, worker'[v] = worker[v], timeouts' = timeouts,
           Failing(v) => LET j == worker[v].job IN
              job'[j] = job[j] /\ builder'[j] = builder[j] /\ file'[j] = file[j]
    PROVE  LastSeen(v)'
BY DEF SeenInv, LastSeen, Failing, Shown

\* A worker on its way to a failure has an active job, which no other worker has.
LEMMA FailingJob ==
    ASSUME TypeOK, PlaceInv, NEW v \in Workers, Failing(v)
    PROVE  /\ worker[v].job \in Jobs /\ Active(worker[v].job)
           /\ \A w \in Workers : w # v => worker[w].job # worker[v].job
BY DEF TypeOK, PlaceInv, WorkerInv, Held, Failing

\* A step of a worker on its own job is judged by that worker.
LEMMA MoveSeen ==
    ASSUME TypeOK, PlaceInv, SeenInv, NEW w \in Workers,
           UNCHANGED <<file, timeouts>>,
           \A k \in Jobs : k # worker[w].job => job'[k] = job[k] /\ builder'[k] = builder[k],
           \A v \in Workers : v # w => worker'[v] = worker[v],
           LastSeen(w)'
    PROVE  SeenInv'
<1>1. ASSUME NEW v \in Workers, v # w PROVE LastSeen(v)'
  <2>1. Failing(v) => /\ worker[v].job \in Jobs /\ worker[v].job # worker[w].job
    BY <1>1, FailingJob
  <2>2. worker'[v] = worker[v]
    BY <1>1
  <2> QED BY <2>1, <2>2, KeepSeen
<1> QED BY <1>1 DEF SeenInv

\* A worker that goes to a place where nothing is claimed, or raises.
LEMMA GoSeen ==
    ASSUME TypeOK, PlaceInv, SeenInv, NEW w \in Workers,
           UNCHANGED <<file, timeouts>>,
           \A k \in Jobs : k # worker[w].job => job'[k] = job[k] /\ builder'[k] = builder[k],
           NEW next \in Places \ {"logfailed", "read", "fail"}, Go(w, next) \/ Raise(w)
    PROVE  SeenInv'
<1>1. \A v \in Workers : v # w => worker'[v] = worker[v]
  BY DEF Go, Raise, TypeOK
<1>2. worker'[w].at = next \/ worker'[w].caught = TRUE
  BY DEF Go, Raise, TypeOK
<1>3. LastSeen(w)'
  BY <1>2 DEF LastSeen, Failing
<1> QED BY <1>1, <1>3, MoveSeen

\* Every step keeps what a failing worker has seen.
LEMMA NextSeen == TypeOK /\ PlaceInv /\ FileInv /\ SeenInv /\ [Next]_vars => SeenInv'
<1> SUFFICES ASSUME TypeOK, PlaceInv, FileInv, SeenInv, [Next]_vars PROVE SeenInv'
    OBVIOUS
<1>0. ASSUME UNCHANGED <<job, worker, builder, file, timeouts>> PROVE SeenInv'
  BY <1>0 DEF SeenInv, LastSeen, Failing, Shown
<1>1. ASSUME NEW j \in Jobs, CreateJob(j) PROVE SeenInv'
  <2>1. /\ job[j].status = "absent" /\ UNCHANGED <<worker, builder, file, timeouts>>
        /\ \A k \in Jobs : k # j => job'[k] = job[k]
    BY <1>1 DEF CreateJob, Absent, build, TypeOK
  <2>2. ASSUME NEW v \in Workers PROVE LastSeen(v)'
    <3>1. Failing(v) => worker[v].job \in Jobs /\ worker[v].job # j
      BY <2>1, FailingJob DEF Active, ActiveStatuses
    <3> QED BY <2>1, <3>1, KeepSeen
  <2> QED BY <2>2 DEF SeenInv
<1>2. CASE Create \/ ReadPage \/ \E j \in Jobs : PageReadJob(j)
  BY <1>0, <1>2 DEF Create, ReadPage, CreateLog, CreateLatest, CreateSubmit, PageMerge,
     PageReadLog, PageReply, PageReadJob, records, build, bounds
<1>3. ASSUME NEW w \in Workers, TakeJob(w) \/ StopHeartbeat(w) PROVE SeenInv'
  <2>1. UNCHANGED <<job, builder, file, timeouts>>
    BY <1>3 DEF TakeJob, StopHeartbeat, records, build, bounds
  <2>2. \A v \in Workers : v # w => worker'[v] = worker[v]
    BY <1>3 DEF TakeJob, StopHeartbeat, TypeOK
  <2>3. worker'[w].at \in {"begin", "idle"}
    BY <1>3 DEF TakeJob, Begun, StopHeartbeat, IdleWorker, TypeOK
  <2>4. LastSeen(w)'
    BY <2>3 DEF LastSeen, Failing
  <2> QED BY <2>1, <2>2, <2>4, MoveSeen
<1>4. ASSUME NEW w \in Workers, BeginJob(w) \/ RecordRefused(w) \/ RecordBuilder(w)
                                \/ RecordSucceeded(w) \/ RecordFailed(w)
      PROVE  SeenInv'
  <2>1. ASSUME NEW f, NEW next \in Places \ {"logfailed", "read", "fail"}, Record(w, f, next)
        PROVE  SeenInv'
    <3>1. /\ UNCHANGED <<file, timeouts, builder>>
          /\ \A k \in Jobs : k # worker[w].job => job'[k] = job[k]
          /\ Go(w, next) \/ Raise(w)
      BY <2>1 DEF Record, build, TypeOK
    <3> QED BY <2>1, <3>1, GoSeen
  <2>2. {"check", "announce", "finally"} \subseteq Places \ {"logfailed", "read", "fail"}
    BY DEF Places
  <2> QED BY <1>4, <2>1, <2>2 DEF BeginJob, RecordRefused, RecordBuilder, RecordSucceeded,
          RecordFailed
<1>5. ASSUME NEW w \in Workers,
             \/ \E ok \in BOOLEAN : Preflight(w, ok)
             \/ AnnounceJob(w) \/ LogComplete(w)
      PROVE  SeenInv'
  <2>1. /\ UNCHANGED <<job, builder, file, timeouts>>
        /\ \E next \in Places \ {"logfailed", "read", "fail"} : Go(w, next) \/ Raise(w)
    BY <1>5 DEF Preflight, AnnounceJob, LogComplete, Note, Places, build
  <2> QED BY <2>1, GoSeen
<1>6. ASSUME NEW w \in Workers, PreflightRaises(w) PROVE SeenInv'
  <2>1. UNCHANGED <<job, builder, file, timeouts>> /\ Raise(w) /\ "idle" \in Places
    BY <1>6 DEF PreflightRaises, records, build, bounds, Places
  <2> QED BY <2>1, GoSeen
<1>7. ASSUME NEW w \in Workers, Launch(w) PROVE SeenInv'
  <2>1. /\ UNCHANGED <<job, file, timeouts>>
        /\ \A k \in Jobs : k # worker[w].job => builder'[k] = builder[k]
        /\ \A v \in Workers : v # w => worker'[v] = worker[v]
    BY <1>7 DEF Launch, records, bounds, Go, Raise, TypeOK
  <2>2. worker[w].job \in Jobs /\ builder[worker[w].job] = "off"
    BY <1>7 DEF Launch, TypeOK, PlaceInv, WorkerInv, Held, Before
  <2>3. worker'[w].job = worker[w].job
    BY <1>7 DEF Launch, Go, Raise, TypeOK
  <2>4. \/ worker'[w].at = "wait" \/ worker'[w].caught = TRUE
        \/ worker'[w].at = "logfailed" /\ UNCHANGED builder
    BY <1>7 DEF Launch, Go, Raise, TypeOK
  <2>5. LastSeen(w)'
    BY <2>2, <2>3, <2>4 DEF LastSeen, Failing, Live
  <2> QED BY <2>1, <2>5, MoveSeen
<1>8. ASSUME NEW w \in Workers, BuilderReturns(w) PROVE SeenInv'
  <2>1. UNCHANGED <<job, builder, file, timeouts>> /\ builder[worker[w].job] \notin Live
    BY <1>8 DEF BuilderReturns, records, build, bounds
  <2>2. /\ \A v \in Workers : v # w => worker'[v] = worker[v]
        /\ worker'[w].job = worker[w].job /\ worker'[w].at \in {"logcomplete", "logfailed"}
    BY <1>8 DEF BuilderReturns, Go, TypeOK
  <2>3. LastSeen(w)'
    BY <2>1, <2>2 DEF LastSeen, Failing
  <2> QED BY <2>1, <2>2, <2>3, MoveSeen
<1>9. ASSUME NEW w \in Workers, BuildTimesOut(w) PROVE SeenInv'
  <2>1. timeouts' # 0
    BY <1>9 DEF BuildTimesOut, TypeOK
  <2> QED BY <2>1 DEF SeenInv, LastSeen, Failing
<1>10. ASSUME NEW w \in Workers, LogFailed(w) PROVE SeenInv'
  <2>1. UNCHANGED <<job, builder, file, timeouts>>
    BY <1>10 DEF LogFailed, Note, build
  <2>2. \A v \in Workers : v # w => worker'[v] = worker[v]
    BY <1>10 DEF LogFailed, Note, Go, Raise, TypeOK
  <2>3. \/ worker'[w].caught = TRUE
        \/ /\ ~worker[w].caught /\ worker'[w].at = "read"
           /\ worker'[w].job = worker[w].job /\ worker'[w].caught = worker[w].caught
    BY <1>10 DEF LogFailed, Note, Go, Raise, TypeOK
  <2>4. worker[w].at = "logfailed"
    BY <1>10 DEF LogFailed
  <2>5. LastSeen(w)'
    BY <2>1, <2>3, <2>4 DEF SeenInv, LastSeen, Failing
  <2> QED BY <2>1, <2>2, <2>5, MoveSeen
<1>11. ASSUME NEW w \in Workers, ReadProgress(w) PROVE SeenInv'
  <2> DEFINE j == worker[w].job
  <2>1. UNCHANGED <<job, builder, file, timeouts>> /\ worker[w].at = "read"
    BY <1>11 DEF ReadProgress, records, build, bounds
  <2>2. /\ \A v \in Workers : v # w => worker'[v] = worker[v]
        /\ worker'[w].job = j /\ worker'[w].caught = worker[w].caught
        /\ worker'[w].at = "fail" /\ worker'[w].seen = Larger(5, Shown(j))
    BY <1>11 DEF ReadProgress, TypeOK
  <2>3. j \in Jobs /\ job[j].progress \in 0..100 /\ file[j] \in 0..100
    BY <2>1 DEF TypeOK
  <2>4. Shown(j) \in 0..100
    BY <2>3, MergedTyped DEF Shown
  <2>5. Larger(5, Shown(j)) >= Shown(j)
    BY <2>4 DEF Larger
  <2>6. Shown(j)' = Shown(j)
    BY <2>1, <2>2 DEF Shown
  <2>7. Failing(w)' => builder'[j] \notin Live
    BY <2>1, <2>2 DEF SeenInv, LastSeen, Failing
  <2>8. LastSeen(w)'
    BY <2>1, <2>2, <2>5, <2>6, <2>7 DEF LastSeen, Shown
  <2> QED BY <2>1, <2>2, <2>8, MoveSeen
<1>12. ASSUME NEW j \in Jobs, Heartbeat(j) PROVE SeenInv'
  BY <1>0, <1>12 DEF Heartbeat, HeartbeatCheck, HeartbeatStamp, records, build, bounds
<1>13. ASSUME NEW j \in Jobs, Build(j) PROVE SeenInv'
  <2>1. /\ builder[j] \in Live /\ UNCHANGED <<job, worker, timeouts>>
        /\ \A k \in Jobs : k # j => file'[k] = file[k] /\ builder'[k] = builder[k]
    BY <1>13, BuilderReports
  <2>2. ASSUME NEW v \in Workers PROVE LastSeen(v)'
    <3>1. Failing(v) => worker[v].job \in Jobs /\ worker[v].job # j
      BY <2>1, FailingJob DEF SeenInv, LastSeen
    <3> QED BY <2>1, <3>1, KeepSeen
  <2> QED BY <2>2 DEF SeenInv
<1>14. CASE RestartManager
  <2>1. \A v \in Workers : worker'[v].at = "idle"
    BY <1>14 DEF RestartManager, IdleWorker
  <2> QED BY <2>1 DEF SeenInv, LastSeen, Failing
<1>15. CASE UNCHANGED vars
  BY <1>0, <1>15 DEF vars
<1>16. QED
  BY <1>1, <1>2, <1>3, <1>4, <1>5, <1>6, <1>7, <1>8, <1>9, <1>10, <1>11, <1>12, <1>13,
     <1>14, <1>15
     DEF Next, RunJob

MovesInv == FileInv /\ SmallInv /\ SeenInv

\* A Record shows no less when what it writes is no less.
LEMMA RecordShown ==
    ASSUME TypeOK, NEW w \in Workers, NEW j \in Jobs, NEW f, NEW next, Record(w, f, next),
           worker[w].job = j => Merged(f.status, f.progress, file[j]) >= Shown(j)
    PROVE  Shown(j)' >= Shown(j)
<1>1. UNCHANGED file
  BY DEF Record, build
<1>2. \/ job'[j] = job[j]
      \/ worker[w].job = j /\ job'[j] = f
  BY DEF Record, TypeOK
<1>3. Shown(j) \in 0..100
  <2>1. job[j].progress \in 0..100 /\ file[j] \in 0..100
    BY DEF TypeOK
  <2> QED BY <2>1, MergedTyped DEF Shown
<1> QED BY <1>1, <1>2, <1>3 DEF Shown

\* Progress moves on in every step, but for exceptions and timeouts.
LEMMA ProgressStep ==
    ASSUME TypeOK, PlaceInv, ProgressInv, MovesInv, [Next]_vars, NEW j \in Jobs,
           Active(j)' \/ (timeouts = 0 /\ ~Caught(j))
    PROVE  Shown(j)' >= Shown(j)
<1>1. job[j].progress \in 0..100 /\ file[j] \in 0..100
  BY DEF TypeOK
<1>2. Shown(j) \in 0..100
  BY <1>1, MergedTyped DEF Shown
<1>0. ASSUME UNCHANGED <<job, file>> PROVE Shown(j)' >= Shown(j)
  BY <1>0, <1>2 DEF Shown
<1>3. ASSUME NEW k \in Jobs, CreateJob(k) PROVE Shown(j)' >= Shown(j)
  <2>1. CASE job'[j] = job[j]
    BY <1>2, <1>3, <2>1 DEF CreateJob, build, Shown
  <2>2. CASE job'[j] # job[j]
    <3>1. job[j] = Absent /\ job'[j] = [status |-> "queued", progress |-> 1] /\ file' = file
      BY <1>3, <2>2 DEF CreateJob, build, TypeOK
    <3>2. Shown(j) = 0
      BY <3>1 DEF Shown, Merged, Absent, ActiveStatuses
    <3>3. Shown(j)' = Merged("queued", 1, file[j])
      BY <3>1 DEF Shown
    <3>4. Merged("queued", 1, file[j]) \in 0..100
      BY <1>1 DEF Merged, Larger
    <3> QED BY <3>2, <3>3, <3>4
  <2> QED BY <2>1, <2>2
<1>4. CASE Create \/ ReadPage \/ \E k \in Jobs : PageReadJob(k)
  BY <1>0, <1>4 DEF Create, ReadPage, CreateLog, CreateLatest, CreateSubmit, PageMerge,
     PageReadLog, PageReply, PageReadJob, records, build
<1>5. ASSUME NEW w \in Workers,
             BeginJob(w) \/ RecordRefused(w) \/ RecordBuilder(w)
      PROVE  Shown(j)' >= Shown(j)
  <2>1. ASSUME worker[w].job = j
        PROVE  /\ Active(j) /\ builder[j] = "off"
               /\ worker[w].at = "begin" => job[j].status = "queued"
    BY <1>5, <2>1 DEF BeginJob, RecordRefused, RecordBuilder, PlaceInv, WorkerInv, Held,
       Before, Fresh
  <2>2. ASSUME worker[w].job = j PROVE file[j] = 0
    BY <1>1, <2>1, <2>2 DEF MovesInv, FileInv, AtMost
  <2>3. ASSUME worker[w].job = j PROVE job[j].progress <= 2
    BY <1>5, <2>1, <2>3 DEF MovesInv, SmallInv, BeginJob, RecordRefused, RecordBuilder
  <2>4. ASSUME worker[w].job = j PROVE Shown(j) <= 2
    BY <1>1, <2>2, <2>3, <2>4 DEF Shown, Merged, Larger
  <2>5. ASSUME worker[w].job = j, NEW s, NEW p \in {2, 5}
        PROVE  Merged(s, p, file[j]) >= Shown(j)
    BY <1>2, <2>2, <2>4, <2>5 DEF Merged, Larger
  <2>6. ASSUME NEW s, NEW p \in {2, 5}, NEW next,
               Record(w, [status |-> s, progress |-> p], next)
        PROVE  Shown(j)' >= Shown(j)
    <3> DEFINE f == [status |-> s, progress |-> p]
    <3>1. Record(w, f, next)
      BY <2>6
    <3>2. worker[w].job = j => Merged(f.status, f.progress, file[j]) >= Shown(j)
      BY <2>5
    <3> HIDE DEF f
    <3> QED BY <3>1, <3>2, RecordShown
  <2> QED BY <1>5, <2>6 DEF BeginJob, RecordRefused, RecordBuilder
<1>6. ASSUME NEW w \in Workers, RecordSucceeded(w) PROVE Shown(j)' >= Shown(j)
  <2> DEFINE f == [status |-> "succeeded", progress |-> 100]
  <2>1. Record(w, f, "finally")
    BY <1>6 DEF RecordSucceeded
  <2>2. Merged(f.status, f.progress, file[j]) = 100
    BY DEF Merged, ActiveStatuses
  <2>3. Merged(f.status, f.progress, file[j]) >= Shown(j)
    BY <1>2, <2>2
  <2> HIDE DEF f
  <2> QED BY <2>1, <2>3, RecordShown
<1>7. ASSUME NEW w \in Workers, RecordFailed(w) PROVE Shown(j)' >= Shown(j)
  <2> DEFINE p == IF worker[w].caught THEN job[worker[w].job].progress ELSE worker[w].seen
             f == [status |-> "failed", progress |-> p]
  <2>1. Record(w, f, "finally") /\ worker[w].at = "fail" /\ UNCHANGED <<file, timeouts>>
    BY <1>7 DEF RecordFailed, Record, build
  <2>2. CASE job'[j] = job[j]
    BY <1>2, <2>1, <2>2 DEF Shown
  <2>3. CASE job'[j] # job[j]
    <3>1. worker[w].job = j /\ job'[j] = f
      BY <2>1, <2>3 DEF Record, TypeOK
    <3>2. ~Active(j)'
      BY <3>1 DEF Active, ActiveStatuses
    <3>3. timeouts = 0 /\ ~worker[w].caught
      BY <3>1, <3>2 DEF Caught
    <3>4. worker[w].seen >= Shown(j)
      BY <2>1, <3>1, <3>3 DEF MovesInv, SeenInv, LastSeen, Failing
    <3>5. Shown(j)' = worker[w].seen
      BY <3>1, <3>3 DEF Shown, Merged, ActiveStatuses
    <3> QED BY <3>4, <3>5
  <2> QED BY <2>2, <2>3
<1>8. ASSUME NEW w \in Workers,
             \/ \E ok \in BOOLEAN : Preflight(w, ok)
             \/ TakeJob(w) \/ PreflightRaises(w) \/ AnnounceJob(w) \/ Launch(w)
             \/ BuilderReturns(w) \/ BuildTimesOut(w) \/ LogComplete(w) \/ LogFailed(w)
             \/ ReadProgress(w) \/ StopHeartbeat(w)
      PROVE  Shown(j)' >= Shown(j)
  <2>1. UNCHANGED <<job, file>>
    BY <1>8 DEF Preflight, TakeJob, PreflightRaises, AnnounceJob, Launch, BuilderReturns,
       BuildTimesOut, LogComplete, LogFailed, ReadProgress, StopHeartbeat, Note, records, build
  <2> QED BY <1>0, <2>1
<1>9. ASSUME NEW k \in Jobs, Heartbeat(k) PROVE Shown(j)' >= Shown(j)
  BY <1>0, <1>9 DEF Heartbeat, HeartbeatCheck, HeartbeatStamp, records, build
<1>10. ASSUME NEW k \in Jobs, Build(k) PROVE Shown(j)' >= Shown(j)
  <2>1. /\ UNCHANGED job
        /\ file'[k] \in 0..100 /\ file[k] <= file'[k]
        /\ \A i \in Jobs : i # k => file'[i] = file[i]
    BY <1>10, BuilderReports DEF MovesInv
  <2>2. file'[j] \in 0..100 /\ file[j] <= file'[j]
    BY <1>1, <2>1
  <2>3. Merged(job[j].status, job[j].progress, file[j])
          <= Merged(job[j].status, job[j].progress, file'[j])
    BY <1>1, <2>2, ShownGrows
  <2>4. Shown(j) <= Shown(j)'
    BY <2>1, <2>3 DEF Shown
  <2>5. Shown(j)' \in 0..100
    BY <1>1, <2>1, <2>2, MergedTyped DEF Shown
  <2> QED BY <1>2, <2>4, <2>5
<1>11. CASE RestartManager
  BY <1>0, <1>11 DEF RestartManager, records, build
<1>12. CASE UNCHANGED vars
  BY <1>0, <1>12 DEF vars
<1>13. QED
  BY <1>3, <1>4, <1>5, <1>6, <1>7, <1>8, <1>9, <1>10, <1>11, <1>12 DEF Next, RunJob

\* ProgressMovesOn: the progress of a build never moves back while it is active, nor
\* when its Builder's result is recorded (_merge_builder_progress and _run_job).
THEOREM ProgressOnlyGrows == Spec => ProgressMovesOn
<1>1. Init => ProgressInv /\ MovesInv
  <2>1. Init => ProgressInv /\ SmallInv
    BY DEF Init, ProgressInv, SmallInv, Absent, Active, ActiveStatuses, IdleWorker
  <2>2. Init => FileInv /\ SeenInv
    BY DEF Init, FileInv, AtMost, SeenInv, LastSeen, Failing, IdleWorker
  <2> QED BY <2>1, <2>2 DEF MovesInv
<1>2. TypeOK /\ PlaceInv /\ ProgressInv /\ MovesInv /\ [Next]_vars
        => (ProgressInv /\ MovesInv)'
  BY NextProgress, NextFile, NextSmall, NextSeen DEF MovesInv
<1>3. TypeOK /\ PlaceInv /\ ProgressInv /\ MovesInv /\ [Next]_vars =>
        [\A j \in Jobs :
           Active(j)' \/ (timeouts = 0 /\ ~Caught(j)) => Shown(j)' >= Shown(j)]_vars
  BY ProgressStep
<1>4. QED BY <1>1, <1>2, <1>3, PlacesCorrect, PTL DEF Spec, ProgressMovesOn
-----------------------------------------------------------------------------
(* BuildJobs implements JobContract.                                       *)

Underway == {"check", "refuse", "progress", "announce", "launch", "wait", "logcomplete",
             "succeed"}

\* A job has no Builder before it is recorded as running, and is recorded as
\* running from there to its success.
Started(w) == worker[w].at \in Underway => job[worker[w].job].status = "running"
ContractInv ==
    /\ \A j \in Jobs : job[j].status \in {"absent", "queued"} => builder[j] = "off"
    /\ \A w \in Workers : Started(w)

\* A step of a worker on its own job is judged by that job and that worker.
LEMMA MoveContract ==
    ASSUME TypeOK, PlaceInv, ContractInv, NEW w \in Workers, worker[w].at # "idle",
           \A k \in Jobs : k # worker[w].job => job'[k] = job[k] /\ builder'[k] = builder[k],
           \A v \in Workers : v # w => worker'[v] = worker[v],
           job'[worker[w].job].status \in {"absent", "queued"} => builder'[worker[w].job] = "off",
           Started(w)'
    PROVE  ContractInv'
<1>1. worker[w].job \in Jobs
  BY DEF TypeOK
<1>2. \A k \in Jobs : job'[k].status \in {"absent", "queued"} => builder'[k] = "off"
  BY DEF ContractInv
<1>3. ASSUME NEW v \in Workers, v # w PROVE Started(v)'
  <2>1. CASE worker[v].at \in Underway
    <3>1. worker[v].job \in Jobs /\ worker[v].job # worker[w].job
      BY <1>1, <1>3, <2>1 DEF Underway, TypeOK, PlaceInv, WorkerInv, Held
    <3> QED BY <1>3, <3>1 DEF ContractInv, Started
  <2>2. CASE worker[v].at \notin Underway
    BY <1>3, <2>2 DEF Started
  <2> QED BY <2>1, <2>2
<1> QED BY <1>2, <1>3 DEF ContractInv

\* A worker that goes on from where its job was running, or raises.
LEMMA GoContract ==
    ASSUME TypeOK, PlaceInv, ContractInv, UNCHANGED <<job, builder>>,
           NEW w \in Workers, worker[w].at # "idle",
           NEW next \in Places, Go(w, next) \/ Raise(w),
           next \in Underway => worker[w].at \in Underway
    PROVE  ContractInv'
<1>1. \A v \in Workers : v # w => worker'[v] = worker[v]
  BY DEF Go, Raise, TypeOK
<1>2. worker'[w].job = worker[w].job /\ worker'[w].at \in {next, "finally", "logfailed"}
  BY DEF Go, Raise, TypeOK
<1>3. Started(w)'
  BY <1>2 DEF ContractInv, Started, Underway
<1>4. worker[w].job \in Jobs
  BY DEF TypeOK
<1> QED BY <1>1, <1>3, <1>4, MoveContract DEF ContractInv

\* The writes of _run_job: a running status before the work, an outcome after it.
LEMMA RecordContract ==
    ASSUME TypeOK, PlaceInv, ContractInv, NEW w \in Workers, worker[w].at # "idle",
           NEW f \in File, NEW next \in Places, Record(w, f, next),
           f.status \in {"running", "succeeded", "failed"},
           next \in Underway => f.status = "running"
    PROVE  ContractInv'
<1>1. worker[w].job \in Jobs /\ UNCHANGED builder
  BY DEF TypeOK, Record, build
<1>2. /\ \A k \in Jobs : k # worker[w].job => job'[k] = job[k]
      /\ \A v \in Workers : v # w => worker'[v] = worker[v]
  BY DEF Record, Go, Raise, TypeOK
<1>3. CASE job' = [job EXCEPT ![worker[w].job] = f] /\ Go(w, next)
  <2>1. job'[worker[w].job] = f
    BY <1>1, <1>3 DEF TypeOK
  <2>2. worker'[w].job = worker[w].job /\ worker'[w].at = next
    BY <1>3 DEF Go, TypeOK
  <2>3. Started(w)'
    BY <2>1, <2>2 DEF Started
  <2> QED BY <1>1, <1>2, <2>1, <2>3, MoveContract
<1>4. CASE Raise(w) /\ UNCHANGED job
  <2>1. worker'[w].at \in {"finally", "logfailed"}
    BY <1>4 DEF Raise, TypeOK
  <2>2. Started(w)'
    BY <2>1 DEF Started, Underway
  <2> QED BY <1>1, <1>2, <1>4, <2>2, MoveContract DEF ContractInv
<1> QED BY <1>3, <1>4 DEF Record

\* Every step keeps that.
LEMMA NextContract == TypeOK /\ PlaceInv /\ ContractInv /\ [Next]_vars => ContractInv'
<1> SUFFICES ASSUME TypeOK, PlaceInv, ContractInv, [Next]_vars PROVE ContractInv'
    OBVIOUS
<1>0. ASSUME UNCHANGED <<job, worker, builder>> PROVE ContractInv'
  BY <1>0 DEF ContractInv, Started
<1>1. ASSUME NEW j \in Jobs, CreateJob(j) PROVE ContractInv'
  <2>1. job[j].status = "absent" /\ UNCHANGED <<builder, worker>>
    BY <1>1 DEF CreateJob, Absent, build
  <2>2. \A k \in Jobs : k # j => job'[k] = job[k]
    BY <1>1 DEF CreateJob, TypeOK
  <2>3. builder[j] = "off"
    BY <2>1 DEF ContractInv
  <2>4. \A k \in Jobs : job'[k].status \in {"absent", "queued"} => builder'[k] = "off"
    BY <2>1, <2>2, <2>3 DEF ContractInv
  <2>5. ASSUME NEW w \in Workers, worker[w].at \in Underway PROVE job'[worker[w].job].status = "running"
    <3>1. worker[w].job \in Jobs /\ job[worker[w].job].status = "running"
      BY <2>5 DEF ContractInv, Started, TypeOK, Underway
    <3>2. worker[w].job # j
      BY <2>1, <3>1
    <3> QED BY <2>2, <3>1, <3>2
  <2> QED BY <2>1, <2>4, <2>5 DEF ContractInv, Started
<1>2. CASE Create \/ ReadPage \/ \E j \in Jobs : PageReadJob(j) \/ Heartbeat(j)
  BY <1>0, <1>2 DEF Create, ReadPage, CreateLog, CreateLatest, CreateSubmit, PageMerge,
     PageReadLog, PageReply, PageReadJob, Heartbeat, HeartbeatCheck, HeartbeatStamp,
     records, build
<1>3. ASSUME NEW w \in Workers, TakeJob(w) \/ StopHeartbeat(w) PROVE ContractInv'
  <2>1. UNCHANGED <<job, builder>>
    BY <1>3 DEF TakeJob, StopHeartbeat, records, build
  <2>2. \A v \in Workers : worker'[v] = worker[v] \/ worker'[v].at \in {"begin", "idle"}
    BY <1>3 DEF TakeJob, Begun, StopHeartbeat, IdleWorker, TypeOK
  <2> QED BY <2>1, <2>2 DEF ContractInv, Started, Underway
<1>4. ASSUME NEW w \in Workers, BeginJob(w) \/ RecordRefused(w) \/ RecordBuilder(w)
                                \/ RecordSucceeded(w)
      PROVE  ContractInv'
  <2>1. worker[w].at # "idle"
    BY <1>4 DEF BeginJob, RecordRefused, RecordBuilder, RecordSucceeded
  <2>2. PICK f \in File, next \in Places :
            /\ Record(w, f, next) /\ f.status \in {"running", "succeeded", "failed"}
            /\ next \in Underway => f.status = "running"
    <3>1. CASE BeginJob(w)
      BY <3>1 DEF BeginJob, File, Statuses, ActiveStatuses, Places
    <3>2. CASE RecordRefused(w)
      BY <3>2 DEF RecordRefused, File, Statuses, FinalStatuses, Places, Underway
    <3>3. CASE RecordBuilder(w)
      BY <3>3 DEF RecordBuilder, File, Statuses, ActiveStatuses, Places
    <3>4. CASE RecordSucceeded(w)
      BY <3>4 DEF RecordSucceeded, File, Statuses, FinalStatuses, Places, Underway
    <3> QED BY <1>4, <3>1, <3>2, <3>3, <3>4
  <2> QED BY <2>1, <2>2, RecordContract
<1>5. ASSUME NEW w \in Workers, RecordFailed(w) PROVE ContractInv'
  <2> DEFINE p == IF worker[w].caught THEN job[worker[w].job].progress ELSE worker[w].seen
             f == [status |-> "failed", progress |-> p]
  <2>1. worker[w].at # "idle" /\ Record(w, f, "finally")
    BY <1>5 DEF RecordFailed
  <2>2. f \in File /\ f.status = "failed"
    BY <1>5 DEF RecordFailed, TypeOK, File, Statuses, FinalStatuses
  <2>3. "finally" \in Places /\ "finally" \notin Underway
    BY DEF Places, Underway
  <2> HIDE DEF f
  <2> QED BY <2>1, <2>2, <2>3, RecordContract
<1>6. ASSUME NEW w \in Workers,
             \/ \E ok \in BOOLEAN : Preflight(w, ok)
             \/ AnnounceJob(w) \/ LogComplete(w) \/ LogFailed(w)
      PROVE  ContractInv'
  <2>1. /\ UNCHANGED <<job, builder>> /\ worker[w].at # "idle"
        /\ \E next \in Places : /\ Go(w, next) \/ Raise(w)
                                /\ next \in Underway => worker[w].at \in Underway
    BY <1>6 DEF Preflight, AnnounceJob, LogComplete, LogFailed, Note, Places, Underway, build
  <2> QED BY <2>1, GoContract
<1>7. ASSUME NEW w \in Workers, PreflightRaises(w) \/ BuilderReturns(w) PROVE ContractInv'
  <2>1. /\ UNCHANGED <<job, builder>> /\ worker[w].at \in Underway
        /\ \E next \in Places : Go(w, next) \/ Raise(w)
    BY <1>7 DEF PreflightRaises, BuilderReturns, records, build, Places, Underway
  <2>2. worker[w].at # "idle"
    BY <1>7 DEF PreflightRaises, BuilderReturns
  <2> QED BY <2>1, <2>2, GoContract
<1>8. ASSUME NEW w \in Workers, Launch(w) \/ BuildTimesOut(w) PROVE ContractInv'
  <2>1. worker[w].job \in Jobs /\ worker[w].at # "idle" /\ worker[w].at \in Underway
    BY <1>8 DEF Launch, BuildTimesOut, TypeOK, Underway
  <2>2. /\ UNCHANGED job
        /\ \A k \in Jobs : k # worker[w].job => builder'[k] = builder[k]
        /\ \A v \in Workers : v # w => worker'[v] = worker[v]
    BY <1>8 DEF Launch, BuildTimesOut, records, Go, Raise, TypeOK
  <2>3. job[worker[w].job].status = "running"
    BY <2>1 DEF ContractInv, Started
  <2>4. worker'[w].job = worker[w].job
    BY <1>8 DEF Launch, BuildTimesOut, Go, Raise, TypeOK
  <2>5. Started(w)'
    BY <2>2, <2>3, <2>4 DEF Started
  <2> QED BY <2>1, <2>2, <2>3, <2>5, MoveContract
<1>9. ASSUME NEW w \in Workers, ReadProgress(w) PROVE ContractInv'
  <2>1. /\ UNCHANGED <<job, builder>>
        /\ \A v \in Workers : worker'[v] = worker[v] \/ worker'[v].at = "fail"
    BY <1>9 DEF ReadProgress, records, build, TypeOK
  <2> QED BY <2>1 DEF ContractInv, Started, Underway
<1>10. ASSUME NEW j \in Jobs, Build(j) PROVE ContractInv'
  <2>1. UNCHANGED <<job, worker>> /\ builder[j] # "off"
        /\ \A k \in Jobs : k # j => builder'[k] = builder[k]
    BY <1>10 DEF Build, BuilderStarts, BuilderTags, BuilderExports, BuilderPackages,
       BuilderOpensOutput, BuilderWritesOutput, BuilderVerifies, BuilderFails, Step,
       records, manager, Live, TypeOK
  <2>2. job[j].status \notin {"absent", "queued"}
    BY <2>1 DEF ContractInv
  <2> QED BY <2>1, <2>2 DEF ContractInv, Started
<1>11. CASE RestartManager
  <2>1. UNCHANGED <<job, builder>> /\ \A v \in Workers : worker'[v].at = "idle"
    BY <1>11 DEF RestartManager, IdleWorker, records, build
  <2> QED BY <2>1 DEF ContractInv, Started, Underway
<1>12. CASE UNCHANGED vars
  BY <1>0, <1>12 DEF vars
<1>13. QED
  BY <1>1, <1>2, <1>3, <1>4, <1>5, <1>6, <1>7, <1>8, <1>9, <1>10, <1>11, <1>12
     DEF Next, RunJob

\* The write of one job file is a change of one status.
LEMMA StatusWritten ==
    ASSUME TypeOK, NEW j \in Jobs, NEW f \in File, job' = [job EXCEPT ![j] = f],
           UNCHANGED builder
    PROVE  Contract!Becomes(j, f.status)
BY DEF TypeOK, Contract!Becomes

\* A step that writes no status, and ends no Builder well, is none of the contract.
LEMMA ContractStutters ==
    ASSUME TypeOK,
           \A j \in Jobs : /\ job'[j].status = job[j].status
                           /\ builder'[j] = "ok" <=> builder[j] = "ok"
    PROVE  UNCHANGED Contract!contract
BY DEF Contract!contract

\* A Record writes what the contract allows, or nothing.
LEMMA RecordStep ==
    ASSUME TypeOK, NEW w \in Workers, worker[w].at # "idle", NEW f \in File, NEW next,
           Record(w, f, next),
           LET j == worker[w].job IN
              \/ f.status = job[j].status
              \/ f.status = "running" /\ job[j].status = "queued"
              \/ f.status = "succeeded" /\ job[j].status = "running" /\ builder[j] = "ok"
              \/ f.status = "failed" /\ job[j].status \in {"queued", "running"}
    PROVE  [Contract!Next]_(Contract!contract)
<1> DEFINE j == worker[w].job
<1>1. j \in Jobs /\ UNCHANGED builder
  BY DEF TypeOK, Record, build
<1>2. CASE UNCHANGED job
  BY <1>1, <1>2, ContractStutters
<1>3. CASE job' = [job EXCEPT ![j] = f]
  <2>1. Contract!Becomes(j, f.status)
    BY <1>1, <1>3, StatusWritten
  <2>2. CASE f.status = job[j].status
    <3>1. \A k \in Jobs : job'[k].status = job[k].status
      BY <1>1, <1>3, <2>2 DEF TypeOK
    <3> QED BY <1>1, <3>1, ContractStutters
  <2>3. CASE f.status = "running" /\ job[j].status = "queued"
    BY <1>1, <2>1, <2>3 DEF Contract!Next, Contract!Start
  <2>4. CASE f.status = "succeeded" /\ job[j].status = "running" /\ builder[j] = "ok"
    BY <1>1, <2>1, <2>4 DEF Contract!Next, Contract!Succeed
  <2>5. CASE f.status = "failed" /\ job[j].status \in {"queued", "running"}
    BY <1>1, <2>1, <2>5 DEF Contract!Next, Contract!Fail
  <2> QED BY <2>2, <2>3, <2>4, <2>5
<1> QED BY <1>2, <1>3 DEF Record

\* Every step is one of the contract, or none.
LEMMA ContractStep ==
    ASSUME TypeOK, PlaceInv, OutcomeInv, ContractInv, [Next]_vars
    PROVE  [Contract!Next]_(Contract!contract)
<1>0. ASSUME UNCHANGED <<job, builder>> PROVE [Contract!Next]_(Contract!contract)
  BY <1>0, ContractStutters
<1>1. ASSUME NEW j \in Jobs, CreateJob(j) PROVE [Contract!Next]_(Contract!contract)
  <2>1. CASE UNCHANGED job
    BY <1>0, <1>1, <2>1 DEF CreateJob, build
  <2>2. CASE job' = [job EXCEPT ![j] = [status |-> "queued", progress |-> 1]]
    <3> DEFINE f == [status |-> "queued", progress |-> 1]
    <3>1. f \in File /\ f.status = "queued" /\ UNCHANGED builder
      BY <1>1 DEF File, Statuses, ActiveStatuses, CreateJob, build
    <3>2. job' = [job EXCEPT ![j] = f]
      BY <2>2
    <3> HIDE DEF f
    <3>3. Contract!Becomes(j, "queued")
      BY <3>1, <3>2, StatusWritten
    <3>4. job[j].status = "absent"
      BY <1>1 DEF CreateJob, Absent
    <3> QED BY <3>3, <3>4 DEF Contract!Next, Contract!Submit
  <2> QED BY <1>1, <2>1, <2>2 DEF CreateJob
<1>2. ASSUME NEW w \in Workers, BeginJob(w) PROVE [Contract!Next]_(Contract!contract)
  <2> DEFINE f == [status |-> "running", progress |-> 2]
  <2>1. f \in File /\ f.status = "running" /\ Record(w, f, "check") /\ worker[w].at # "idle"
    BY <1>2 DEF BeginJob, File, Statuses, ActiveStatuses
  <2>2. job[worker[w].job].status = "queued"
    BY <1>2 DEF BeginJob, PlaceInv, WorkerInv, Held, Fresh
  <2> HIDE DEF f
  <2> QED BY <2>1, <2>2, RecordStep
<1>3. ASSUME NEW w \in Workers, RecordRefused(w) PROVE [Contract!Next]_(Contract!contract)
  <2> DEFINE f == [status |-> "failed", progress |-> 2]
  <2>1. f \in File /\ f.status = "failed" /\ Record(w, f, "finally") /\ worker[w].at # "idle"
    BY <1>3 DEF RecordRefused, File, Statuses, FinalStatuses
  <2>2. job[worker[w].job].status = "running"
    BY <1>3 DEF RecordRefused, ContractInv, Started, Underway
  <2> HIDE DEF f
  <2> QED BY <2>1, <2>2, RecordStep
<1>4. ASSUME NEW w \in Workers, RecordBuilder(w) PROVE [Contract!Next]_(Contract!contract)
  <2> DEFINE f == [status |-> "running", progress |-> 5]
  <2>1. f \in File /\ f.status = "running" /\ Record(w, f, "announce") /\ worker[w].at # "idle"
    BY <1>4 DEF RecordBuilder, File, Statuses, ActiveStatuses
  <2>2. job[worker[w].job].status = "running"
    BY <1>4 DEF RecordBuilder, ContractInv, Started, Underway
  <2> HIDE DEF f
  <2> QED BY <2>1, <2>2, RecordStep
<1>5. ASSUME NEW w \in Workers, RecordSucceeded(w) PROVE [Contract!Next]_(Contract!contract)
  <2> DEFINE f == [status |-> "succeeded", progress |-> 100]
  <2>1. f \in File /\ f.status = "succeeded" /\ Record(w, f, "finally") /\ worker[w].at # "idle"
    BY <1>5 DEF RecordSucceeded, File, Statuses, FinalStatuses
  <2>2. job[worker[w].job].status = "running" /\ builder[worker[w].job] = "ok"
    BY <1>5 DEF RecordSucceeded, ContractInv, Started, Underway, OutcomeInv, Seen
  <2> HIDE DEF f
  <2> QED BY <2>1, <2>2, RecordStep
<1>6. ASSUME NEW w \in Workers, RecordFailed(w) PROVE [Contract!Next]_(Contract!contract)
  <2> DEFINE p == IF worker[w].caught THEN job[worker[w].job].progress ELSE worker[w].seen
             f == [status |-> "failed", progress |-> p]
  <2>1. f \in File /\ f.status = "failed" /\ Record(w, f, "finally") /\ worker[w].at # "idle"
    BY <1>6 DEF RecordFailed, TypeOK, File, Statuses, FinalStatuses
  <2>2. job[worker[w].job].status \in {"queued", "running"}
    BY <1>6 DEF RecordFailed, PlaceInv, WorkerInv, Held, Active, ActiveStatuses
  <2> HIDE DEF f
  <2> QED BY <2>1, <2>2, RecordStep
<1>7. ASSUME NEW w \in Workers, Launch(w) \/ BuildTimesOut(w)
      PROVE  [Contract!Next]_(Contract!contract)
  <2>1. worker[w].job \in Jobs /\ UNCHANGED job
    BY <1>7 DEF Launch, BuildTimesOut, TypeOK, records
  <2>2. Launch(w) => builder[worker[w].job] = "off"
    BY DEF Launch, PlaceInv, WorkerInv, Held, Before
  <2>3. \A j \in Jobs : builder'[j] = "ok" <=> builder[j] = "ok"
    BY <1>7, <2>1, <2>2 DEF Launch, BuildTimesOut, Live, TypeOK
  <2> QED BY <2>1, <2>3, ContractStutters
<1>8. ASSUME NEW j \in Jobs, BuilderVerifies(j) PROVE [Contract!Next]_(Contract!contract)
  <2>1. builder[j] = "verify" /\ builder' = [builder EXCEPT ![j] = "ok"] /\ UNCHANGED job
    BY <1>8 DEF BuilderVerifies, Step, records
  <2>2. job[j].status \notin {"absent", "queued"}
    BY <2>1 DEF ContractInv
  <2>3. Contract!Work(j)
    BY <2>1, <2>2 DEF Contract!Work, TypeOK
  <2> QED BY <2>3 DEF Contract!Next
<1>9. ASSUME NEW j \in Jobs,
             \/ BuilderStarts(j) \/ BuilderTags(j) \/ BuilderExports(j) \/ BuilderPackages(j)
             \/ BuilderOpensOutput(j) \/ BuilderWritesOutput(j) \/ BuilderFails(j)
      PROVE  [Contract!Next]_(Contract!contract)
  <2>1. PICK from \in Live, to \in Live \cup {"failed"} : Step(j, from, to)
    BY <1>9 DEF BuilderStarts, BuilderTags, BuilderExports, BuilderPackages,
       BuilderOpensOutput, BuilderWritesOutput, BuilderFails, Live
  <2>2. UNCHANGED job /\ builder[j] # "ok" /\ builder' = [builder EXCEPT ![j] = to] /\ to # "ok"
    BY <2>1 DEF Step, records, Live
  <2>3. \A k \in Jobs : builder'[k] = "ok" <=> builder[k] = "ok"
    BY <2>2 DEF TypeOK
  <2> QED BY <2>2, <2>3, ContractStutters
<1>10. CASE Create \/ ReadPage \/ \E j \in Jobs : PageReadJob(j) \/ Heartbeat(j)
  BY <1>0, <1>10 DEF Create, ReadPage, CreateLog, CreateLatest, CreateSubmit, PageMerge,
     PageReadLog, PageReply, PageReadJob, Heartbeat, HeartbeatCheck, HeartbeatStamp,
     records, build
<1>11. ASSUME NEW w \in Workers,
             \/ \E ok \in BOOLEAN : Preflight(w, ok)
             \/ TakeJob(w) \/ PreflightRaises(w) \/ AnnounceJob(w)
             \/ BuilderReturns(w) \/ LogComplete(w) \/ LogFailed(w)
             \/ ReadProgress(w) \/ StopHeartbeat(w)
      PROVE  [Contract!Next]_(Contract!contract)
  <2>1. UNCHANGED <<job, builder>>
    BY <1>11 DEF Preflight, TakeJob, PreflightRaises, AnnounceJob, BuilderReturns,
       LogComplete, LogFailed, ReadProgress, StopHeartbeat, Note, records, build
  <2> QED BY <1>0, <2>1
<1>12. CASE RestartManager
  BY <1>0, <1>12 DEF RestartManager, records, build
<1>13. CASE UNCHANGED vars
  BY <1>0, <1>13 DEF vars
<1>14. QED
  BY <1>1, <1>2, <1>3, <1>4, <1>5, <1>6, <1>7, <1>8, <1>9, <1>10, <1>11, <1>12, <1>13
     DEF Next, RunJob, Build

\* KeepsContract: the job files, the queue, the workers, the heartbeats and the
\* Builder processes together are a job that starts once, works and gets one outcome.
THEOREM ImplementsContract == Spec => KeepsContract
<1>1. Init => Contract!Init
  <2> SUFFICES ASSUME Init PROVE Contract!Init
    OBVIOUS
  <2>1. \A j \in Jobs : job[j].status = "absent" /\ (builder[j] = "ok" <=> FALSE)
    BY DEF Init, Absent
  <2>2. [j \in Jobs |-> job[j].status] = [j \in Jobs |-> "absent"]
    BY <2>1
  <2>3. [j \in Jobs |-> builder[j] = "ok"] = [j \in Jobs |-> FALSE]
    BY <2>1, Zenon
  <2> QED BY <2>2, <2>3 DEF Contract!Init
<1>2. Init => OutcomeInv /\ ContractInv
  <2>1. Init => OutcomeInv
    BY DEF Init, OutcomeInv, OutcomeIsBacked, Backed, Seen, Absent, IdleWorker
  <2>2. Init => ContractInv
    BY DEF Init, ContractInv, Started, Underway, IdleWorker
  <2> QED BY <2>1, <2>2
<1>3. TypeOK /\ PlaceInv /\ OutcomeInv /\ ContractInv /\ [Next]_vars
        => (OutcomeInv /\ ContractInv)'
  BY NextOutcome, NextContract
<1>4. TypeOK /\ PlaceInv /\ OutcomeInv /\ ContractInv /\ [Next]_vars
        => [Contract!Next]_(Contract!contract)
  BY ContractStep
<1>5. QED BY <1>1, <1>2, <1>3, <1>4, PlacesCorrect, PTL DEF Spec, KeepsContract, Contract!Spec
=============================================================================
