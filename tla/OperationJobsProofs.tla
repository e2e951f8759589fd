------------------------ MODULE OperationJobsProofs ------------------------
(***************************************************************************)
(* Proofs about OperationJobs, for any number of jobs, restarts and failed *)
(* writes.  What makes the outcomes stick is that a job is in one place at *)
(* a time: being created, queued once, or with the worker, and that in all *)
(* of these places (up to the worker's finally block) it is still active.  *)
(***************************************************************************)
EXTENDS OperationJobs, TLAPS

USE JobsAssumption, PercentAssumption, BoundsAssumption

Creating == loop.at \in {"log", "latest", "submit"}

\* A job waits in the executor's queue at most once, and not yet started.
QueueInv ==
    /\ \A i \in 1..Len(queue) : job[queue[i]].status = "queued"
    /\ \A i, k \in 1..Len(queue) : queue[i] = queue[k] => i = k

\* A job being created is in no other place.
LoopInv ==
    Creating =>
        /\ job[loop.job].status = "queued"
        /\ \A i \in 1..Len(queue) : queue[i] # loop.job
        /\ worker.job # loop.job

\* The worker's job left the queue and has no outcome until the finally block.
WorkerInv ==
    /\ worker.at = "idle" <=> worker.job = None
    /\ \A i \in 1..Len(queue) : queue[i] # worker.job
    /\ worker.at # "idle" => job[worker.job].status # "absent"
    /\ worker.at = "begin" => job[worker.job].status = "queued"
    /\ worker.at \notin {"idle", "finally"} => Active(worker.job)
    /\ worker.caught => worker.at \in {"logfailed", "fail", "finally"}

\* The strengthening shared by the theorems below.
PlaceInv == QueueInv /\ LoopInv /\ WorkerInv

\* What the worker has done before it writes an outcome.
OutcomeInv ==
    /\ OutcomeIsLogged
    /\ worker.at \in {"logcomplete", "succeed"} => claimed[worker.job]
    /\ worker.at = "succeed" => "complete" \in log[worker.job]
    /\ worker.at = "fail" => "failed" \in log[worker.job]

-----------------------------------------------------------------------------
\* The initial values have their types.
LEMMA InitTypes == Init => TypeOK
BY DEF Init, TypeOK, Absent, IdleLoop, IdleWorker, Statuses, Lines, Places,
       ActiveStatuses, FinalStatuses

File == [status : Statuses, progress : 0..100]

\* A well-formed write of one job file, or a failed one, leaves a well-formed store.
LEMMA StoreTyped ==
    ASSUME TypeOK, NEW j \in Jobs, NEW f \in File,
           \/ job' = [job EXCEPT ![j] = f] /\ UNCHANGED faults
           \/ WriteFault
    PROVE  job' \in [Jobs -> File] /\ faults' \in 0..MaxFaults
BY DEF TypeOK, WriteFault, Fault, File

\* The worker moves on or raises, and keeps its job.
LEMMA WorkerTyped ==
    ASSUME TypeOK, worker.job \in Jobs, Go("announce") \/ Go("finally") \/ Raise
    PROVE  /\ worker' \in [at : Places, job : Jobs \cup {None}, caught : BOOLEAN]
           /\ worker'.job \in Jobs
BY DEF TypeOK, Go, Raise, Places

\* So does a line of the worker's log.
LEMMA LogTyped ==
    ASSUME TypeOK, worker.job \in Jobs, NEW line \in Lines,
           NEW next \in Places, LogThen(line, next)
    PROVE  TypeOK'
<1>1. /\ worker' \in [at : Places, job : Jobs \cup {None}, caught : BOOLEAN]
      /\ worker'.job \in Jobs
  BY DEF LogThen, Go, Raise, TypeOK, Places
<1>2. log' \in [Jobs -> SUBSET Lines] /\ faults' \in 0..MaxFaults
  BY DEF LogThen, AppendLog, Fault, TypeOK
<1>3. QED BY <1>1, <1>2 DEF LogThen, TypeOK

\* Every step keeps every variable in its type.
LEMMA NextTypes == TypeOK /\ [Next]_vars => TypeOK'
<1> SUFFICES ASSUME TypeOK, [Next]_vars PROVE TypeOK'
    OBVIOUS
<1>1. ASSUME NEW j \in Jobs, CreateJob(j) PROVE TypeOK'
  <2> DEFINE f == [status |-> "queued", progress |-> 1]
  <2>1. f \in File
    BY DEF File, Statuses, ActiveStatuses
  <2>2. \/ job' = [job EXCEPT ![j] = f] /\ UNCHANGED faults
        \/ WriteFault
    BY <1>1 DEF CreateJob
  <2>3. job' \in [Jobs -> File] /\ faults' \in 0..MaxFaults
    BY <2>1, <2>2, StoreTyped
  <2>4. loop' = [loop EXCEPT !.at = "log", !.job = j] \/ UNCHANGED loop
    BY <1>1 DEF CreateJob
  <2> QED BY <1>1, <2>3, <2>4 DEF CreateJob, TypeOK, File
<1>2. ASSUME NEW j \in Jobs, PageReadJob(j) PROVE TypeOK'
  BY <1>2 DEF PageReadJob, TypeOK, persistent
<1>3. CASE CreateLog
  <2>1. CASE /\ AppendLog(loop.job, "queued") /\ UNCHANGED faults
             /\ loop' = [loop EXCEPT !.at = "latest"]
    BY <1>3, <2>1 DEF CreateLog, TypeOK, AppendLog, Lines
  <2>2. CASE Fault /\ loop' = IdleLoop /\ UNCHANGED log
    BY <1>3, <2>2 DEF CreateLog, TypeOK, Fault, IdleLoop, Statuses
  <2> QED BY <1>3, <2>1, <2>2 DEF CreateLog
<1>4. CASE CreateLatest
  <2>1. CASE /\ latest' = loop.job /\ UNCHANGED faults
             /\ loop' = [loop EXCEPT !.at = "submit"]
    BY <1>4, <2>1 DEF CreateLatest, TypeOK
  <2>2. CASE Fault /\ loop' = IdleLoop /\ UNCHANGED latest
    BY <1>4, <2>2 DEF CreateLatest, TypeOK, Fault, IdleLoop, Statuses
  <2> QED BY <1>4, <2>1, <2>2 DEF CreateLatest
<1>5. CASE CreateSubmit
  BY <1>5 DEF CreateSubmit, TypeOK, IdleLoop, persistent, Statuses
<1>6. CASE PageReadLog
  BY <1>6 DEF PageReadLog, TypeOK, persistent
<1>7. CASE PageReply
  BY <1>7 DEF PageReply, TypeOK, IdleLoop, persistent, Statuses
<1>8. CASE TakeJob
  BY <1>8 DEF TakeJob, TypeOK, Places, persistent
<1>9. CASE BeginJob
  <2> DEFINE f == [status |-> "running", progress |-> 2]
  <2>1. f \in File /\ worker.job \in Jobs
    BY <1>9 DEF BeginJob, TypeOK, File, Statuses, ActiveStatuses
  <2>2. \/ job' = [job EXCEPT ![worker.job] = f] /\ UNCHANGED faults
        \/ WriteFault
    BY <1>9 DEF BeginJob
  <2>3. job' \in [Jobs -> File] /\ faults' \in 0..MaxFaults
    BY <2>1, <2>2, StoreTyped
  <2>4. Go("announce") \/ Raise
    BY <1>9 DEF BeginJob
  <2>5. /\ worker' \in [at : Places, job : Jobs \cup {None}, caught : BOOLEAN]
        /\ worker'.job \in Jobs
    BY <2>1, <2>4, WorkerTyped
  <2> QED BY <1>9, <2>3, <2>5 DEF BeginJob, TypeOK, File
<1>10. CASE AnnounceJob
  <2>1. CASE AppendLog(worker.job, "starting") /\ Go("operate") /\ UNCHANGED faults
    BY <1>10, <2>1 DEF AnnounceJob, TypeOK, AppendLog, Go, Lines, Places
  <2>2. CASE Fault /\ Raise /\ UNCHANGED <<log, beat>>
    <3>1. worker.job \in Jobs /\ faults' \in 0..MaxFaults
      BY <1>10, <2>2 DEF AnnounceJob, TypeOK, Fault
    <3> QED BY <1>10, <2>2, <3>1, WorkerTyped DEF AnnounceJob, TypeOK
  <2> QED BY <1>10, <2>1, <2>2 DEF AnnounceJob
<1>11. ASSUME NEW p \in Percent, ReportProgress(p) PROVE TypeOK'
  <2> DEFINE f == [job[worker.job] EXCEPT !.progress = Clamp(p)]
  <2>1. f \in File /\ worker.job \in Jobs
    BY <1>11 DEF ReportProgress, TypeOK, File, Clamp
  <2>2. \/ job' = [job EXCEPT ![worker.job] = f] /\ UNCHANGED faults
        \/ WriteFault
    BY <1>11 DEF ReportProgress, TypeOK
  <2>3. job' \in [Jobs -> File] /\ faults' \in 0..MaxFaults
    BY <2>1, <2>2, StoreTyped
  <2> QED BY <1>11, <2>3 DEF ReportProgress, TypeOK, File
<1>12. ASSUME NEW ok \in BOOLEAN, OperationReturns(ok)
       PROVE TypeOK'
  BY <1>12 DEF OperationReturns, TypeOK, Go, Places
<1>13. CASE OperationRaises
  BY <1>13 DEF OperationRaises, TypeOK, Raise, Places, persistent
<1>14. CASE LogComplete
  BY <1>14, LogTyped DEF LogComplete, TypeOK, Lines, Places
<1>15. CASE RecordSucceeded
  <2> DEFINE f == [status |-> "succeeded", progress |-> 100]
  <2>1. f \in File /\ worker.job \in Jobs
    BY <1>15 DEF RecordSucceeded, TypeOK, File, Statuses, FinalStatuses
  <2>2. \/ job' = [job EXCEPT ![worker.job] = f] /\ UNCHANGED faults
        \/ WriteFault
    BY <1>15 DEF RecordSucceeded
  <2>3. job' \in [Jobs -> File] /\ faults' \in 0..MaxFaults
    BY <2>1, <2>2, StoreTyped
  <2>4. Go("finally") \/ Raise
    BY <1>15 DEF RecordSucceeded
  <2>5. /\ worker' \in [at : Places, job : Jobs \cup {None}, caught : BOOLEAN]
        /\ worker'.job \in Jobs
    BY <2>1, <2>4, WorkerTyped
  <2> QED BY <1>15, <2>3, <2>5 DEF RecordSucceeded, TypeOK, File
<1>16. CASE LogFailed
  BY <1>16, LogTyped DEF LogFailed, TypeOK, Lines, Places
<1>17. CASE RecordFailed
  <2> DEFINE f == [status |-> "failed", progress |-> Larger(2, job[worker.job].progress)]
  <2>1. f \in File /\ worker.job \in Jobs
    BY <1>17 DEF RecordFailed, TypeOK, File, Statuses, FinalStatuses, Larger
  <2>2. \/ job' = [job EXCEPT ![worker.job] = f] /\ UNCHANGED faults
        \/ WriteFault
    BY <1>17 DEF RecordFailed, TypeOK
  <2>3. job' \in [Jobs -> File] /\ faults' \in 0..MaxFaults
    BY <2>1, <2>2, StoreTyped
  <2>4. Go("finally") \/ Raise
    BY <1>17 DEF RecordFailed
  <2>5. /\ worker' \in [at : Places, job : Jobs \cup {None}, caught : BOOLEAN]
        /\ worker'.job \in Jobs
    BY <2>1, <2>4, WorkerTyped
  <2> QED BY <1>17, <2>3, <2>5 DEF RecordFailed, TypeOK, File
<1>18. CASE StopHeartbeat
  BY <1>18 DEF StopHeartbeat, TypeOK, IdleWorker, Places, persistent
<1>19. ASSUME NEW j \in Jobs, HeartbeatCheck(j) PROVE TypeOK'
  BY <1>19 DEF HeartbeatCheck, TypeOK, persistent
<1>20. ASSUME NEW j \in Jobs, HeartbeatStamp(j) PROVE TypeOK'
  BY <1>20 DEF HeartbeatStamp, TypeOK, WriteFault, Fault
<1>21. ASSUME NEW j \in Jobs, HeartbeatEnds(j) PROVE TypeOK'
  BY <1>21 DEF HeartbeatEnds, TypeOK, persistent
<1>22. CASE RestartManager
  BY <1>22 DEF RestartManager, TypeOK, IdleLoop, IdleWorker, Places, Statuses, persistent
<1>23. CASE UNCHANGED vars
  BY <1>23 DEF vars, TypeOK
<1>24. QED
  BY <1>1, <1>2, <1>3, <1>4, <1>5, <1>6, <1>7, <1>8, <1>9, <1>10, <1>11, <1>12,
     <1>13, <1>14, <1>15, <1>16, <1>17, <1>18, <1>19, <1>20, <1>21, <1>22, <1>23
     DEF Next, Create, ReadPage, RunJob, Heartbeat

\* Type correctness of the job store and of the threads that share it.
THEOREM TypeCorrect == Spec => []TypeOK
<1>1. Init => TypeOK BY InitTypes
<1>2. TypeOK /\ [Next]_vars => TypeOK' BY NextTypes
<1>3. QED BY <1>1, <1>2, PTL DEF Spec
-----------------------------------------------------------------------------
\* Every step keeps each job in one place.
LEMMA NextPlaces == TypeOK /\ PlaceInv /\ [Next]_vars => PlaceInv'
<1> SUFFICES ASSUME TypeOK, PlaceInv, [Next]_vars PROVE PlaceInv'
    OBVIOUS
<1> USE DEF TypeOK, PlaceInv, QueueInv, LoopInv, WorkerInv, Creating, Active, ActiveStatuses
<1>1. ASSUME NEW j \in Jobs, CreateJob(j) PROVE PlaceInv'
  <2>1. CASE WriteFault /\ UNCHANGED loop
    BY <1>1, <2>1 DEF CreateJob, WriteFault, Fault
  <2>2. CASE /\ job' = [job EXCEPT ![j] = [status |-> "queued", progress |-> 1]]
             /\ loop' = [loop EXCEPT !.at = "log", !.job = j]
    <3>1. job[j].status = "absent"
      BY <1>1 DEF CreateJob, Absent
    <3>2. worker.job # j /\ \A i \in 1..Len(queue) : queue[i] # j
      BY <3>1
    <3>3. QueueInv'
      BY <1>1, <2>2, <3>2 DEF CreateJob
    <3>4. LoopInv' /\ WorkerInv'
      BY <1>1, <2>2, <3>2 DEF CreateJob
    <3> QED BY <3>3, <3>4
  <2> QED BY <1>1, <2>1, <2>2 DEF CreateJob
<1>2. ASSUME NEW j \in Jobs, PageReadJob(j) PROVE PlaceInv'
  BY <1>2 DEF PageReadJob, persistent
<1>3. CASE CreateLog
  BY <1>3 DEF CreateLog, Fault, IdleLoop
<1>4. CASE CreateLatest
  BY <1>4 DEF CreateLatest, Fault, IdleLoop
<1>5. CASE CreateSubmit
  BY <1>5 DEF CreateSubmit, persistent, IdleLoop
<1>6. CASE PageReadLog
  BY <1>6 DEF PageReadLog, persistent
<1>7. CASE PageReply
  BY <1>7 DEF PageReply, persistent, IdleLoop
<1>8. CASE TakeJob
  BY <1>8 DEF TakeJob, persistent
<1>9. CASE BeginJob
  <2>1. CASE WriteFault /\ Raise
    BY <1>9, <2>1 DEF BeginJob, WriteFault, Fault, Raise
  <2>2. CASE /\ job' = [job EXCEPT ![worker.job] = [status |-> "running", progress |-> 2]]
             /\ Go("announce")
    BY <1>9, <2>2 DEF BeginJob, Go
  <2> QED BY <1>9, <2>1, <2>2 DEF BeginJob
<1>10. CASE AnnounceJob
  <2>1. CASE Go("operate")
    BY <1>10, <2>1 DEF AnnounceJob, Go
  <2>2. CASE Raise
    BY <1>10, <2>2 DEF AnnounceJob, Raise
  <2> QED BY <1>10, <2>1, <2>2 DEF AnnounceJob
<1>11. ASSUME NEW p \in Percent, ReportProgress(p) PROVE PlaceInv'
  BY <1>11 DEF ReportProgress, WriteFault, Fault
<1>12. ASSUME NEW ok \in BOOLEAN, OperationReturns(ok) PROVE PlaceInv'
  BY <1>12 DEF OperationReturns, Go
<1>13. CASE OperationRaises
  BY <1>13 DEF OperationRaises, Raise, persistent
<1>14. CASE LogComplete
  <2>1. CASE AppendLog(worker.job, "complete") /\ Go("succeed") /\ UNCHANGED faults
    BY <1>14, <2>1 DEF LogComplete, LogThen, AppendLog, Go
  <2>2. CASE Fault /\ Raise /\ UNCHANGED log
    BY <1>14, <2>2 DEF LogComplete, LogThen, Raise
  <2> QED BY <1>14, <2>1, <2>2 DEF LogComplete, LogThen
<1>15. CASE RecordSucceeded
  <2>1. CASE WriteFault /\ Raise
    BY <1>15, <2>1 DEF RecordSucceeded, WriteFault, Fault, Raise
  <2>2. CASE /\ job' = [job EXCEPT ![worker.job] = [status |-> "succeeded", progress |-> 100]]
             /\ Go("finally")
    BY <1>15, <2>2 DEF RecordSucceeded, Go
  <2> QED BY <1>15, <2>1, <2>2 DEF RecordSucceeded
<1>16. CASE LogFailed
  <2>1. CASE Go("fail")
    BY <1>16, <2>1 DEF LogFailed, LogThen, Go
  <2>2. CASE Raise
    BY <1>16, <2>2 DEF LogFailed, LogThen, Raise
  <2> QED BY <1>16, <2>1, <2>2 DEF LogFailed, LogThen
<1>17. CASE RecordFailed
  <2>1. CASE WriteFault /\ Go("finally")
    BY <1>17, <2>1 DEF RecordFailed, WriteFault, Fault, Go
  <2>3. CASE WriteFault /\ Raise
    BY <1>17, <2>3 DEF RecordFailed, WriteFault, Fault, Raise
  <2>2. CASE /\ job' = [job EXCEPT ![worker.job] =
                            [status |-> "failed", progress |-> Larger(2, @.progress)]]
             /\ Go("finally")
    BY <1>17, <2>2 DEF RecordFailed, Go
  <2> QED BY <1>17, <2>1, <2>2, <2>3 DEF RecordFailed
<1>18. CASE StopHeartbeat
  BY <1>18 DEF StopHeartbeat, persistent, IdleWorker
<1>19. ASSUME NEW j \in Jobs, HeartbeatCheck(j) PROVE PlaceInv'
  BY <1>19 DEF HeartbeatCheck, persistent
<1>20. ASSUME NEW j \in Jobs, HeartbeatStamp(j) PROVE PlaceInv'
  BY <1>20 DEF HeartbeatStamp, WriteFault, Fault
<1>21. ASSUME NEW j \in Jobs, HeartbeatEnds(j) PROVE PlaceInv'
  BY <1>21 DEF HeartbeatEnds, persistent
<1>22. CASE RestartManager
  BY <1>22 DEF RestartManager, persistent, IdleLoop, IdleWorker
<1>23. CASE UNCHANGED vars
  BY <1>23 DEF vars
<1>24. QED
  BY <1>1, <1>2, <1>3, <1>4, <1>5, <1>6, <1>7, <1>8, <1>9, <1>10, <1>11, <1>12,
     <1>13, <1>14, <1>15, <1>16, <1>17, <1>18, <1>19, <1>20, <1>21, <1>22, <1>23
     DEF Next, Create, ReadPage, RunJob, Heartbeat

\* The places of jobs, for every behaviour.
THEOREM PlacesCorrect == Spec => [](TypeOK /\ PlaceInv)
<1>1. Init => TypeOK /\ PlaceInv
  <2>1. Init => PlaceInv
    BY DEF Init, PlaceInv, QueueInv, LoopInv, WorkerInv, Creating, IdleLoop, IdleWorker
  <2> QED BY <2>1, InitTypes
<1>2. TypeOK /\ PlaceInv /\ [Next]_vars => (TypeOK /\ PlaceInv)'
  BY NextTypes, NextPlaces
<1>3. QED BY <1>1, <1>2, PTL DEF Spec

\* No step changes the file of a job whose status is final.
LEMMA FinalStep == ASSUME TypeOK, PlaceInv, [Next]_vars, NEW k \in Jobs, Final(k)
                   PROVE  job'[k] = job[k]
<1> USE DEF TypeOK, PlaceInv, WorkerInv, Active, Final, ActiveStatuses, FinalStatuses
<1>1. ASSUME NEW j \in Jobs, CreateJob(j) PROVE job'[k] = job[k]
  BY <1>1 DEF CreateJob, WriteFault, Fault, Absent
<1>2. ASSUME NEW j \in Jobs, PageReadJob(j) PROVE job'[k] = job[k]
  BY <1>2 DEF PageReadJob, persistent
<1>3. CASE CreateLog
  BY <1>3 DEF CreateLog, Fault, IdleLoop, AppendLog
<1>4. CASE CreateLatest
  BY <1>4 DEF CreateLatest, Fault, IdleLoop
<1>5. CASE CreateSubmit
  BY <1>5 DEF CreateSubmit, persistent
<1>6. CASE PageReadLog
  BY <1>6 DEF PageReadLog, persistent
<1>7. CASE PageReply
  BY <1>7 DEF PageReply, persistent
<1>8. CASE TakeJob
  BY <1>8 DEF TakeJob, persistent
<1>9. CASE BeginJob
  BY <1>9 DEF BeginJob, WriteFault, Fault, Go, Raise
<1>10. CASE AnnounceJob
  BY <1>10 DEF AnnounceJob, Fault, Raise, AppendLog, Go
<1>11. ASSUME NEW p \in Percent, ReportProgress(p) PROVE job'[k] = job[k]
  BY <1>11 DEF ReportProgress, WriteFault, Fault
<1>12. ASSUME NEW ok \in BOOLEAN, OperationReturns(ok) PROVE job'[k] = job[k]
  BY <1>12 DEF OperationReturns, Go
<1>13. CASE OperationRaises
  BY <1>13 DEF OperationRaises, Raise, persistent
<1>14. CASE LogComplete
  BY <1>14 DEF LogComplete, LogThen, Fault, Raise, AppendLog, Go
<1>15. CASE RecordSucceeded
  BY <1>15 DEF RecordSucceeded, WriteFault, Fault, Go, Raise
<1>16. CASE LogFailed
  BY <1>16 DEF LogFailed, LogThen, Fault, Raise, AppendLog, Go
<1>17. CASE RecordFailed
  BY <1>17 DEF RecordFailed, WriteFault, Fault, Go, Raise
<1>18. CASE StopHeartbeat
  BY <1>18 DEF StopHeartbeat, persistent, IdleWorker
<1>19. ASSUME NEW j \in Jobs, HeartbeatCheck(j) PROVE job'[k] = job[k]
  BY <1>19 DEF HeartbeatCheck, persistent
<1>20. ASSUME NEW j \in Jobs, HeartbeatStamp(j) PROVE job'[k] = job[k]
  BY <1>20 DEF HeartbeatStamp, WriteFault, Fault
<1>21. ASSUME NEW j \in Jobs, HeartbeatEnds(j) PROVE job'[k] = job[k]
  BY <1>21 DEF HeartbeatEnds, persistent
<1>22. CASE RestartManager
  BY <1>22 DEF RestartManager, persistent, IdleLoop, IdleWorker
<1>23. CASE UNCHANGED vars
  BY <1>23 DEF vars
<1>24. QED
  BY <1>1, <1>2, <1>3, <1>4, <1>5, <1>6, <1>7, <1>8, <1>9, <1>10, <1>11, <1>12,
     <1>13, <1>14, <1>15, <1>16, <1>17, <1>18, <1>19, <1>20, <1>21, <1>22, <1>23
     DEF Next, Create, ReadPage, RunJob, Heartbeat

\* FinalIsFinal: neither late heartbeats, failed writes nor restarts replace an
\* outcome (_update_job of operation_jobs.py).
THEOREM OutcomesStick == Spec => FinalIsFinal
<1>1. TypeOK /\ PlaceInv /\ [Next]_vars => [\A j \in Jobs : Final(j) => job'[j] = job[j]]_vars
  BY FinalStep
<1>2. QED BY <1>1, PlacesCorrect, PTL DEF Spec, FinalIsFinal

\* Every step keeps what the outcomes rest on.
LEMMA NextOutcome == TypeOK /\ PlaceInv /\ OutcomeInv /\ [Next]_vars => OutcomeInv'
<1> SUFFICES ASSUME TypeOK, PlaceInv, OutcomeInv, [Next]_vars PROVE OutcomeInv'
    OBVIOUS
<1> USE DEF TypeOK, PlaceInv, WorkerInv, OutcomeInv, OutcomeIsLogged, Active, ActiveStatuses
<1>1. ASSUME NEW j \in Jobs, CreateJob(j) PROVE OutcomeInv'
  BY <1>1 DEF CreateJob, WriteFault, Fault, Absent
<1>2. ASSUME NEW j \in Jobs, PageReadJob(j) PROVE OutcomeInv'
  BY <1>2 DEF PageReadJob, persistent
<1>3. CASE CreateLog
  <2>1. UNCHANGED <<job, claimed, worker>> /\ \A j \in Jobs : log[j] \subseteq log'[j]
    BY <1>3 DEF CreateLog, AppendLog
  <2> QED BY <2>1
<1>4. CASE CreateLatest
  BY <1>4 DEF CreateLatest
<1>5. CASE CreateSubmit
  BY <1>5 DEF CreateSubmit, persistent
<1>6. CASE PageReadLog
  BY <1>6 DEF PageReadLog, persistent
<1>7. CASE PageReply
  BY <1>7 DEF PageReply, persistent
<1>8. CASE TakeJob
  BY <1>8 DEF TakeJob, persistent
<1>9. CASE BeginJob
  <2>1. CASE WriteFault /\ Raise
    BY <1>9, <2>1 DEF BeginJob, WriteFault, Fault, Raise
  <2>2. CASE /\ job' = [job EXCEPT ![worker.job] = [status |-> "running", progress |-> 2]]
             /\ Go("announce")
    BY <1>9, <2>2 DEF BeginJob, Go
  <2> QED BY <1>9, <2>1, <2>2 DEF BeginJob
<1>10. CASE AnnounceJob
  BY <1>10 DEF AnnounceJob, Fault, Raise, AppendLog, Go
<1>11. ASSUME NEW p \in Percent, ReportProgress(p) PROVE OutcomeInv'
  BY <1>11 DEF ReportProgress, WriteFault, Fault
<1>12. ASSUME NEW ok \in BOOLEAN, OperationReturns(ok) PROVE OutcomeInv'
  BY <1>12 DEF OperationReturns, Go
<1>13. CASE OperationRaises
  BY <1>13 DEF OperationRaises, Raise, persistent
<1>14. CASE LogComplete
  <2>1. CASE AppendLog(worker.job, "complete") /\ Go("succeed") /\ UNCHANGED faults
    BY <1>14, <2>1 DEF LogComplete, LogThen, AppendLog, Go
  <2>2. CASE Fault /\ Raise /\ UNCHANGED log
    BY <1>14, <2>2 DEF LogComplete, LogThen, Raise
  <2> QED BY <1>14, <2>1, <2>2 DEF LogComplete, LogThen
<1>15. CASE RecordSucceeded
  <2>1. CASE WriteFault /\ Raise
    BY <1>15, <2>1 DEF RecordSucceeded, WriteFault, Fault, Raise
  <2>2. CASE /\ job' = [job EXCEPT ![worker.job] = [status |-> "succeeded", progress |-> 100]]
             /\ Go("finally")
    BY <1>15, <2>2 DEF RecordSucceeded, Go
  <2> QED BY <1>15, <2>1, <2>2 DEF RecordSucceeded
<1>16. CASE LogFailed
  <2>1. CASE AppendLog(worker.job, "failed") /\ Go("fail") /\ UNCHANGED faults
    BY <1>16, <2>1 DEF LogFailed, LogThen, AppendLog, Go
  <2>2. CASE Fault /\ Raise /\ UNCHANGED log
    BY <1>16, <2>2 DEF LogFailed, LogThen, Raise
  <2> QED BY <1>16, <2>1, <2>2 DEF LogFailed, LogThen
<1>17. CASE RecordFailed
  <2>1. CASE WriteFault /\ Go("finally")
    BY <1>17, <2>1 DEF RecordFailed, WriteFault, Fault, Go
  <2>2. CASE /\ job' = [job EXCEPT ![worker.job] =
                            [status |-> "failed", progress |-> Larger(2, @.progress)]]
             /\ Go("finally")
    BY <1>17, <2>2 DEF RecordFailed, Go
  <2>3. CASE WriteFault /\ Raise
    BY <1>17, <2>3 DEF RecordFailed, WriteFault, Fault, Raise
  <2> QED BY <1>17, <2>1, <2>2, <2>3 DEF RecordFailed
<1>18. CASE StopHeartbeat
  BY <1>18 DEF StopHeartbeat, persistent, IdleWorker
<1>19. ASSUME NEW j \in Jobs, HeartbeatCheck(j) PROVE OutcomeInv'
  BY <1>19 DEF HeartbeatCheck, persistent
<1>20. ASSUME NEW j \in Jobs, HeartbeatStamp(j) PROVE OutcomeInv'
  BY <1>20 DEF HeartbeatStamp, WriteFault, Fault
<1>21. ASSUME NEW j \in Jobs, HeartbeatEnds(j) PROVE OutcomeInv'
  BY <1>21 DEF HeartbeatEnds, persistent
<1>22. CASE RestartManager
  BY <1>22 DEF RestartManager, persistent, IdleLoop, IdleWorker
<1>23. CASE UNCHANGED vars
  BY <1>23 DEF vars
<1>24. QED
  BY <1>1, <1>2, <1>3, <1>4, <1>5, <1>6, <1>7, <1>8, <1>9, <1>10, <1>11, <1>12,
     <1>13, <1>14, <1>15, <1>16, <1>17, <1>18, <1>19, <1>20, <1>21, <1>22, <1>23
     DEF Next, Create, ReadPage, RunJob, Heartbeat

\* OutcomeIsLogged: an outcome in the job file is in the log, and a success
\* is one the operation answered ok to (the order of writes in _run_job).
THEOREM OutcomesLogged == Spec => []OutcomeIsLogged
<1>1. Init => OutcomeInv
  BY DEF Init, OutcomeInv, OutcomeIsLogged, Absent, IdleWorker
<1>2. TypeOK /\ PlaceInv /\ OutcomeInv /\ [Next]_vars => OutcomeInv'
  BY NextOutcome
<1>3. OutcomeInv => OutcomeIsLogged
  BY DEF OutcomeInv
<1>4. QED BY <1>1, <1>2, <1>3, PlacesCorrect, PTL DEF Spec

-----------------------------------------------------------------------------
\* What a page has read of a job's outcome is in the log it is about to read.
PageInv ==
    /\ loop.at = "page" =>
        /\ loop.status = "succeeded" => "complete" \in log[loop.job]
        /\ loop.status = "failed" => "failed" \in log[loop.job]
    /\ PageShowsOutcome

\* Every step keeps what a page shows: log files only grow, and the job file
\* is read first.
LEMMA NextPage == TypeOK /\ OutcomeInv /\ PageInv /\ [Next]_vars => PageInv'
<1> SUFFICES ASSUME TypeOK, OutcomeInv, PageInv, [Next]_vars PROVE PageInv'
    OBVIOUS
<1> USE DEF TypeOK, PageInv, PageShowsOutcome
<1>1. ASSUME NEW j \in Jobs, CreateJob(j) PROVE PageInv'
  BY <1>1 DEF CreateJob
<1>2. ASSUME NEW j \in Jobs, PageReadJob(j) PROVE PageInv'
  BY <1>2 DEF PageReadJob, persistent, OutcomeInv, OutcomeIsLogged
<1>3. CASE CreateLog
  BY <1>3 DEF CreateLog, Fault, IdleLoop
<1>4. CASE CreateLatest
  BY <1>4 DEF CreateLatest, Fault, IdleLoop
<1>5. CASE CreateSubmit
  BY <1>5 DEF CreateSubmit, IdleLoop
<1>6. CASE PageReadLog
  BY <1>6 DEF PageReadLog
<1>7. CASE PageReply
  BY <1>7 DEF PageReply, IdleLoop
<1>8. CASE TakeJob
  BY <1>8 DEF TakeJob, persistent
<1>9. CASE BeginJob
  BY <1>9 DEF BeginJob
<1>10. CASE AnnounceJob
  BY <1>10 DEF AnnounceJob, Fault, Raise, AppendLog
<1>11. ASSUME NEW p \in Percent, ReportProgress(p) PROVE PageInv'
  BY <1>11 DEF ReportProgress
<1>12. ASSUME NEW ok \in BOOLEAN, OperationReturns(ok) PROVE PageInv'
  BY <1>12 DEF OperationReturns
<1>13. CASE OperationRaises
  BY <1>13 DEF OperationRaises, persistent
<1>14. CASE LogComplete
  BY <1>14 DEF LogComplete, LogThen, Fault, Raise, AppendLog
<1>15. CASE RecordSucceeded
  BY <1>15 DEF RecordSucceeded
<1>16. CASE LogFailed
  BY <1>16 DEF LogFailed, LogThen, Fault, Raise, AppendLog
<1>17. CASE RecordFailed
  BY <1>17 DEF RecordFailed
<1>18. CASE StopHeartbeat
  BY <1>18 DEF StopHeartbeat, persistent
<1>19. ASSUME NEW j \in Jobs, HeartbeatCheck(j) PROVE PageInv'
  BY <1>19 DEF HeartbeatCheck, persistent
<1>20. ASSUME NEW j \in Jobs, HeartbeatStamp(j) PROVE PageInv'
  BY <1>20 DEF HeartbeatStamp
<1>21. ASSUME NEW j \in Jobs, HeartbeatEnds(j) PROVE PageInv'
  BY <1>21 DEF HeartbeatEnds, persistent
<1>22. CASE RestartManager
  BY <1>22 DEF RestartManager, IdleLoop
<1>23. CASE UNCHANGED vars
  BY <1>23 DEF vars
<1>24. QED
  BY <1>1, <1>2, <1>3, <1>4, <1>5, <1>6, <1>7, <1>8, <1>9, <1>10, <1>11, <1>12,
     <1>13, <1>14, <1>15, <1>16, <1>17, <1>18, <1>19, <1>20, <1>21, <1>22, <1>23
     DEF Next, Create, ReadPage, RunJob, Heartbeat

\* PageShowsOutcome: a page that joins the two files never shows an outcome
\* without its log line (get_operation_job reads the job file first).
THEOREM PagesShowOutcome == Spec => []PageShowsOutcome
<1>1. Init => OutcomeInv /\ PageInv
  BY DEF Init, OutcomeInv, OutcomeIsLogged, PageInv, PageShowsOutcome, Absent, IdleWorker, IdleLoop
<1>2. TypeOK /\ PlaceInv /\ OutcomeInv /\ PageInv /\ [Next]_vars => (OutcomeInv /\ PageInv)'
  BY NextOutcome, NextPage
<1>3. PageInv => PageShowsOutcome
  BY DEF PageInv
<1>4. QED BY <1>1, <1>2, <1>3, PlacesCorrect, PTL DEF Spec

-----------------------------------------------------------------------------
\* Without faults the worker's job has its outcome in the finally block.
OwnerInv ==
    restarts = 0 /\ faults = 0 =>
        /\ \A j \in Jobs : Active(j) => Owned(j)
        /\ worker.at = "finally" => ~Active(worker.job)

\* Every step keeps an owner for each active job: it is handed from the
\* creation to the queue, and from there to the worker.
LEMMA NextOwner == TypeOK /\ PlaceInv /\ OwnerInv /\ [Next]_vars => OwnerInv'
<1> SUFFICES ASSUME TypeOK, PlaceInv, OwnerInv, [Next]_vars, restarts' = 0, faults' = 0
             PROVE  /\ \A k \in Jobs : Active(k)' => Owned(k)'
                    /\ worker'.at = "finally" => ~Active(worker.job)'
    BY DEF OwnerInv
<1> DEFINE Kept == /\ \A k \in Jobs : Active(k)' => Owned(k)'
                   /\ worker'.at = "finally" => ~Active(worker.job)'
<1> USE DEF TypeOK, OwnerInv, Owned, Active, ActiveStatuses
<1>0. \/ UNCHANGED <<restarts, faults>>
      \/ Fault
      \/ RestartManager
  BY DEF Next, Create, ReadPage, RunJob, Heartbeat, CreateJob, CreateLog, CreateLatest,
     CreateSubmit, PageReadJob, PageReadLog, PageReply, TakeJob, BeginJob, AnnounceJob,
     ReportProgress, OperationReturns, OperationRaises, LogComplete, RecordSucceeded,
     LogFailed, LogThen, RecordFailed, StopHeartbeat, HeartbeatCheck, HeartbeatStamp,
     HeartbeatEnds, WriteFault, vars
<1>a. UNCHANGED <<restarts, faults>> /\ ~Fault /\ ~WriteFault /\ ~RestartManager
  BY <1>0 DEF WriteFault, Fault, RestartManager
<1>b. /\ restarts = 0 /\ faults = 0
      /\ \A j \in Jobs : Active(j) => Owned(j)
      /\ worker.at = "finally" => ~Active(worker.job)
  BY <1>a
<1>1. ASSUME NEW j \in Jobs, CreateJob(j) PROVE Kept
  <2>1. /\ job' = [job EXCEPT ![j] = [status |-> "queued", progress |-> 1]]
        /\ loop' = [loop EXCEPT !.at = "log", !.job = j]
    BY <1>1, <1>a DEF CreateJob
  <2>2. ASSUME NEW k \in Jobs, Active(k)' PROVE Owned(k)'
    BY <1>1, <1>b, <2>1, <2>2 DEF CreateJob
  <2>3. worker.at # "idle" => worker.job # j
    BY <1>1 DEF CreateJob, Absent, PlaceInv, WorkerInv
  <2> QED BY <1>1, <1>b, <2>1, <2>2, <2>3 DEF CreateJob
<1>2. ASSUME NEW j \in Jobs, PageReadJob(j) PROVE Kept
  BY <1>2, <1>b DEF PageReadJob, persistent
<1>3. CASE CreateLog
  BY <1>3, <1>a, <1>b DEF CreateLog
<1>4. CASE CreateLatest
  BY <1>4, <1>a, <1>b DEF CreateLatest
<1>5. CASE CreateSubmit
  <2>1. /\ queue' = Append(queue, loop.job) /\ Len(queue') = Len(queue) + 1
        /\ queue'[Len(queue) + 1] = loop.job
        /\ \A i \in 1..Len(queue) : queue'[i] = queue[i]
    BY <1>5 DEF CreateSubmit
  <2>2. ASSUME NEW k \in Jobs, Active(k)' PROVE Owned(k)'
    <3>1. Owned(k) /\ worker' = worker
      BY <1>5, <1>b, <2>2 DEF CreateSubmit, persistent
    <3>2. CASE loop.job = k
      BY <2>1, <3>2
    <3>3. CASE \E i \in 1..Len(queue) : queue[i] = k
      BY <2>1, <3>3
    <3> QED BY <3>1, <3>2, <3>3
  <2> QED BY <1>5, <1>b, <2>2 DEF CreateSubmit, persistent
<1>6. CASE PageReadLog
  BY <1>6, <1>b DEF PageReadLog, persistent
<1>7. CASE PageReply
  BY <1>7, <1>b DEF PageReply, persistent
<1>8. CASE TakeJob
  <2>1. /\ queue' = Tail(queue) /\ Len(queue') = Len(queue) - 1 /\ worker'.job = queue[1]
        /\ \A i \in 2..Len(queue) : queue'[i - 1] = queue[i]
    BY <1>8 DEF TakeJob
  <2>2. ASSUME NEW k \in Jobs, Active(k)' PROVE Owned(k)'
    <3>1. Owned(k) /\ loop' = loop /\ worker.job = None
      BY <1>8, <1>b, <2>2 DEF TakeJob, persistent, PlaceInv, WorkerInv
    <3>2. CASE loop.job = k /\ loop.at \in {"log", "latest", "submit"}
      BY <3>1, <3>2
    <3>3. ASSUME NEW i \in 1..Len(queue), queue[i] = k PROVE Owned(k)'
      <4>1. CASE i = 1
        BY <2>1, <3>3, <4>1
      <4>2. CASE i \in 2..Len(queue)
        <5>1. i - 1 \in 1..Len(queue') /\ queue'[i - 1] = k
          BY <2>1, <3>3, <4>2
        <5> QED BY <5>1
      <4> QED BY <4>1, <4>2
    <3> QED BY <3>1, <3>2, <3>3, JobsAssumption
  <2> QED BY <1>8, <2>2 DEF TakeJob
<1>9. CASE BeginJob
  BY <1>9, <1>a, <1>b DEF BeginJob, Go
<1>10. CASE AnnounceJob
  BY <1>10, <1>a, <1>b DEF AnnounceJob, Go
<1>11. ASSUME NEW p \in Percent, ReportProgress(p) PROVE Kept
  BY <1>11, <1>a, <1>b DEF ReportProgress
<1>12. ASSUME NEW ok \in BOOLEAN, OperationReturns(ok) PROVE Kept
  BY <1>12, <1>b DEF OperationReturns, Go
<1>13. CASE OperationRaises
  <2>1. \A k \in Jobs : Active(k)' => Active(k)
    BY <1>13 DEF OperationRaises, persistent
  <2>2. worker'.job = worker.job /\ UNCHANGED <<loop, queue, job>>
    BY <1>13 DEF OperationRaises, Raise, persistent
  <2>3. worker'.at = "logfailed"
    BY <1>13 DEF OperationRaises, Raise, PlaceInv, WorkerInv
  <2> QED BY <1>b, <2>1, <2>2, <2>3
<1>14. CASE LogComplete
  BY <1>14, <1>a, <1>b DEF LogComplete, LogThen, Go
<1>15. CASE RecordSucceeded
  BY <1>15, <1>a, <1>b DEF RecordSucceeded, Go
<1>16. CASE LogFailed
  BY <1>16, <1>a, <1>b DEF LogFailed, LogThen, Go
<1>17. CASE RecordFailed
  BY <1>17, <1>a, <1>b DEF RecordFailed, Go
<1>18. CASE StopHeartbeat
  BY <1>18, <1>b DEF StopHeartbeat, IdleWorker, persistent
<1>19. ASSUME NEW j \in Jobs, HeartbeatCheck(j) PROVE Kept
  BY <1>19, <1>b DEF HeartbeatCheck, persistent
<1>20. ASSUME NEW j \in Jobs, HeartbeatStamp(j) PROVE Kept
  BY <1>20, <1>a, <1>b DEF HeartbeatStamp
<1>21. ASSUME NEW j \in Jobs, HeartbeatEnds(j) PROVE Kept
  BY <1>21, <1>b DEF HeartbeatEnds, persistent
<1>23. CASE UNCHANGED vars
  BY <1>23, <1>b DEF vars
<1>24. QED
  BY <1>a, <1>1, <1>2, <1>3, <1>4, <1>5, <1>6, <1>7, <1>8, <1>9, <1>10, <1>11, <1>12,
     <1>13, <1>14, <1>15, <1>16, <1>17, <1>18, <1>19, <1>20, <1>21, <1>23
     DEF Next, Create, ReadPage, RunJob, Heartbeat

\* ActiveIsOwned: while nothing fails and the Manager lives, every active job
\* has a thread that will move it on (create_operation_job and _run_job).
THEOREM ActiveOwned == Spec => []ActiveIsOwned
<1>1. Init => OwnerInv
  BY DEF Init, OwnerInv, Active, ActiveStatuses, Absent, IdleWorker
<1>2. TypeOK /\ PlaceInv /\ OwnerInv /\ [Next]_vars => OwnerInv'
  BY NextOwner
<1>3. OwnerInv => ActiveIsOwned
  BY DEF OwnerInv, ActiveIsOwned
<1>4. QED BY <1>1, <1>2, <1>3, PlacesCorrect, PTL DEF Spec
-----------------------------------------------------------------------------
(* OperationJobs implements JobContract.                                   *)

\* A claim belongs to a job that was started, and the worker's job, once it is
\* announced, is recorded as running.
ContractInv ==
    /\ \A j \in Jobs : job[j].status \in {"absent", "queued"} => ~claimed[j]
    /\ worker.at \in {"begin", "announce", "operate"} => ~claimed[worker.job]
    /\ worker.at \in {"announce", "operate", "logcomplete", "succeed"} =>
          job[worker.job].status = "running"

\* Every step keeps that.
LEMMA NextContract == TypeOK /\ PlaceInv /\ ContractInv /\ [Next]_vars => ContractInv'
<1> SUFFICES ASSUME TypeOK, PlaceInv, ContractInv, [Next]_vars PROVE ContractInv'
    OBVIOUS
<1> USE DEF TypeOK, PlaceInv, LoopInv, QueueInv, WorkerInv, ContractInv, Active, ActiveStatuses
<1>1. ASSUME NEW j \in Jobs, CreateJob(j) PROVE ContractInv'
  <2>1. job[j].status = "absent" /\ UNCHANGED <<claimed, worker>>
    BY <1>1 DEF CreateJob, Absent
  <2>2. CASE UNCHANGED job
    BY <2>1, <2>2
  <2>3. CASE job' = [job EXCEPT ![j] = [status |-> "queued", progress |-> 1]]
    <3>1. worker.at \in {"announce", "operate", "logcomplete", "succeed"} => worker.job # j
      BY <2>1
    <3> QED BY <2>1, <2>3, <3>1
  <2> QED BY <1>1, <2>2, <2>3 DEF CreateJob, WriteFault, Fault
<1>2. ASSUME NEW j \in Jobs, PageReadJob(j) PROVE ContractInv'
  BY <1>2 DEF PageReadJob, persistent
<1>3. CASE CreateLog
  BY <1>3 DEF CreateLog, Fault, IdleLoop
<1>4. CASE CreateLatest
  BY <1>4 DEF CreateLatest, Fault, IdleLoop
<1>5. CASE CreateSubmit
  BY <1>5 DEF CreateSubmit, persistent
<1>6. CASE PageReadLog
  BY <1>6 DEF PageReadLog, persistent
<1>7. CASE PageReply
  BY <1>7 DEF PageReply, persistent
<1>8. CASE TakeJob
  <2>1. queue[1] \in Jobs /\ job[queue[1]].status = "queued" /\ worker'.job = queue[1]
    BY <1>8 DEF TakeJob
  <2> QED BY <1>8, <2>1 DEF TakeJob, persistent
<1>9. CASE BeginJob
  <2>1. CASE WriteFault /\ Raise
    BY <1>9, <2>1 DEF BeginJob, WriteFault, Fault, Raise
  <2>2. CASE /\ job' = [job EXCEPT ![worker.job] = [status |-> "running", progress |-> 2]]
             /\ Go("announce")
    BY <1>9, <2>2 DEF BeginJob, Go
  <2> QED BY <1>9, <2>1, <2>2 DEF BeginJob
<1>10. CASE AnnounceJob
  BY <1>10 DEF AnnounceJob, Fault, Raise, Go
<1>11. ASSUME NEW p \in Percent, ReportProgress(p) PROVE ContractInv'
  <2>1. UNCHANGED <<claimed, worker>> /\ \A j \in Jobs : job'[j].status = job[j].status
    BY <1>11 DEF ReportProgress, WriteFault
  <2> QED BY <2>1
<1>12. ASSUME NEW ok \in BOOLEAN, OperationReturns(ok) PROVE ContractInv'
  <2>1. /\ job[worker.job].status = "running" /\ UNCHANGED job
        /\ \A j \in Jobs : j # worker.job => claimed'[j] = claimed[j]
    BY <1>12 DEF OperationReturns
  <2>2. worker'.at \in {"logcomplete", "logfailed"} /\ worker'.job = worker.job
    BY <1>12 DEF OperationReturns, Go
  <2> QED BY <2>1, <2>2
<1>13. CASE OperationRaises
  BY <1>13 DEF OperationRaises, Raise, persistent
<1>14. CASE LogComplete
  <2>1. CASE AppendLog(worker.job, "complete") /\ Go("succeed") /\ UNCHANGED faults
    BY <1>14, <2>1 DEF LogComplete, LogThen, AppendLog, Go
  <2>2. CASE Fault /\ Raise /\ UNCHANGED log
    BY <1>14, <2>2 DEF LogComplete, LogThen, Raise
  <2> QED BY <1>14, <2>1, <2>2 DEF LogComplete, LogThen
<1>15. CASE RecordSucceeded
  <2>1. CASE WriteFault /\ Raise
    BY <1>15, <2>1 DEF RecordSucceeded, WriteFault, Fault, Raise
  <2>2. CASE /\ job' = [job EXCEPT ![worker.job] = [status |-> "succeeded", progress |-> 100]]
             /\ Go("finally")
    BY <1>15, <2>2 DEF RecordSucceeded, Go
  <2> QED BY <1>15, <2>1, <2>2 DEF RecordSucceeded
<1>16. CASE LogFailed
  <2>1. CASE AppendLog(worker.job, "failed") /\ Go("fail") /\ UNCHANGED faults
    BY <1>16, <2>1 DEF LogFailed, LogThen, AppendLog, Go
  <2>2. CASE Fault /\ Raise /\ UNCHANGED log
    BY <1>16, <2>2 DEF LogFailed, LogThen, Raise
  <2> QED BY <1>16, <2>1, <2>2 DEF LogFailed, LogThen
<1>17. CASE RecordFailed
  <2>1. CASE WriteFault /\ (Go("finally") \/ Raise)
    BY <1>17, <2>1 DEF RecordFailed, WriteFault, Fault, Raise, Go
  <2>2. CASE /\ job' = [job EXCEPT ![worker.job] =
                            [status |-> "failed", progress |-> Larger(2, @.progress)]]
             /\ Go("finally")
    BY <1>17, <2>2 DEF RecordFailed, Go
  <2> QED BY <1>17, <2>1, <2>2 DEF RecordFailed
<1>18. CASE StopHeartbeat
  BY <1>18 DEF StopHeartbeat, persistent, IdleWorker
<1>19. ASSUME NEW j \in Jobs, HeartbeatCheck(j) PROVE ContractInv'
  BY <1>19 DEF HeartbeatCheck, persistent
<1>20. ASSUME NEW j \in Jobs, HeartbeatStamp(j) PROVE ContractInv'
  BY <1>20 DEF HeartbeatStamp, WriteFault, Fault
<1>21. ASSUME NEW j \in Jobs, HeartbeatEnds(j) PROVE ContractInv'
  BY <1>21 DEF HeartbeatEnds, persistent
<1>22. CASE RestartManager
  BY <1>22 DEF RestartManager, persistent, IdleWorker
<1>23. CASE UNCHANGED vars
  BY <1>23 DEF vars
<1>24. QED
  BY <1>1, <1>2, <1>3, <1>4, <1>5, <1>6, <1>7, <1>8, <1>9, <1>10, <1>11, <1>12,
     <1>13, <1>14, <1>15, <1>16, <1>17, <1>18, <1>19, <1>20, <1>21, <1>22, <1>23
     DEF Next, Create, ReadPage, RunJob, Heartbeat

\* The write of one job file is a change of one status.
LEMMA StatusWritten ==
    ASSUME TypeOK, NEW j \in Jobs, NEW f \in File, job' = [job EXCEPT ![j] = f],
           UNCHANGED claimed
    PROVE  Contract!Becomes(j, f.status)
BY DEF TypeOK, Contract!Becomes

\* A step that writes neither a status nor a claim is none of the contract.
LEMMA ContractStutters ==
    ASSUME TypeOK, UNCHANGED claimed, \A j \in Jobs : job'[j].status = job[j].status
    PROVE  UNCHANGED Contract!contract
BY DEF Contract!contract

\* Every step is one of the contract, or none.
LEMMA ContractStep ==
    ASSUME TypeOK, PlaceInv, OutcomeInv, ContractInv, [Next]_vars
    PROVE  [Contract!Next]_(Contract!contract)
<1>0. ASSUME UNCHANGED <<job, claimed>> PROVE UNCHANGED Contract!contract
  BY <1>0, ContractStutters
<1>1. ASSUME NEW j \in Jobs, CreateJob(j) PROVE [Contract!Next]_(Contract!contract)
  <2>1. CASE UNCHANGED job
    BY <1>0, <1>1, <2>1 DEF CreateJob
  <2>2. CASE job' = [job EXCEPT ![j] = [status |-> "queued", progress |-> 1]]
    <3> DEFINE f == [status |-> "queued", progress |-> 1]
    <3>1. f \in File /\ f.status = "queued" /\ UNCHANGED claimed
      BY <1>1 DEF File, Statuses, ActiveStatuses, CreateJob
    <3>2. job' = [job EXCEPT ![j] = f]
      BY <2>2
    <3> HIDE DEF f
    <3>3. Contract!Becomes(j, "queued")
      BY <3>1, <3>2, StatusWritten
    <3>4. job[j].status = "absent"
      BY <1>1 DEF CreateJob, Absent
    <3> QED BY <3>3, <3>4 DEF Contract!Next, Contract!Submit
  <2> QED BY <1>1, <2>1, <2>2 DEF CreateJob, WriteFault, Fault
<1>2. CASE BeginJob
  <2>1. CASE UNCHANGED job
    BY <1>0, <1>2, <2>1 DEF BeginJob
  <2>2. CASE job' = [job EXCEPT ![worker.job] = [status |-> "running", progress |-> 2]]
    <3> DEFINE f == [status |-> "running", progress |-> 2]
    <3>1. f \in File /\ f.status = "running" /\ UNCHANGED claimed
      BY <1>2 DEF File, Statuses, ActiveStatuses, BeginJob
    <3>2. job' = [job EXCEPT ![worker.job] = f]
      BY <2>2
    <3> HIDE DEF f
    <3>3. worker.job \in Jobs /\ job[worker.job].status = "queued"
      BY <1>2 DEF BeginJob, TypeOK, PlaceInv, WorkerInv
    <3>4. Contract!Becomes(worker.job, "running")
      BY <3>1, <3>2, <3>3, StatusWritten
    <3> QED BY <3>3, <3>4 DEF Contract!Next, Contract!Start
  <2> QED BY <1>2, <2>1, <2>2 DEF BeginJob, WriteFault, Fault
<1>3. ASSUME NEW p \in Percent, ReportProgress(p) PROVE [Contract!Next]_(Contract!contract)
  <2>1. UNCHANGED claimed /\ \A j \in Jobs : job'[j].status = job[j].status
    BY <1>3 DEF ReportProgress, WriteFault, Fault, TypeOK
  <2> QED BY <2>1, ContractStutters
<1>4. ASSUME NEW ok \in BOOLEAN, OperationReturns(ok)
      PROVE [Contract!Next]_(Contract!contract)
  <2>1. /\ worker.job \in Jobs /\ job[worker.job].status = "running" /\ ~claimed[worker.job]
        /\ UNCHANGED job /\ claimed' = [claimed EXCEPT ![worker.job] = ok]
    BY <1>4 DEF OperationReturns, TypeOK, ContractInv
  <2>2. CASE ok = TRUE
    BY <2>1, <2>2 DEF Contract!Next, Contract!Work
  <2>3. CASE ok = FALSE
    <3>1. UNCHANGED claimed
      BY <2>1, <2>3 DEF TypeOK
    <3> QED BY <1>0, <2>1, <3>1
  <2> QED BY <2>2, <2>3
<1>5. CASE RecordSucceeded
  <2>1. CASE UNCHANGED job
    BY <1>0, <1>5, <2>1 DEF RecordSucceeded
  <2>2. CASE job' = [job EXCEPT ![worker.job] = [status |-> "succeeded", progress |-> 100]]
    <3> DEFINE f == [status |-> "succeeded", progress |-> 100]
    <3>1. f \in File /\ f.status = "succeeded" /\ UNCHANGED claimed
      BY <1>5 DEF File, Statuses, FinalStatuses, RecordSucceeded
    <3>2. job' = [job EXCEPT ![worker.job] = f]
      BY <2>2
    <3> HIDE DEF f
    <3>3. worker.job \in Jobs /\ job[worker.job].status = "running" /\ claimed[worker.job]
      BY <1>5 DEF RecordSucceeded, TypeOK, ContractInv, OutcomeInv
    <3>4. Contract!Becomes(worker.job, "succeeded")
      BY <3>1, <3>2, <3>3, StatusWritten
    <3> QED BY <3>3, <3>4 DEF Contract!Next, Contract!Succeed
  <2> QED BY <1>5, <2>1, <2>2 DEF RecordSucceeded, WriteFault, Fault
<1>6. CASE RecordFailed
  <2>1. CASE UNCHANGED job
    BY <1>0, <1>6, <2>1 DEF RecordFailed
  <2>2. CASE job' = [job EXCEPT ![worker.job] =
                        [status |-> "failed", progress |-> Larger(2, @.progress)]]
    <3> DEFINE f == [status |-> "failed", progress |-> Larger(2, job[worker.job].progress)]
    <3>1. worker.job \in Jobs /\ job[worker.job].status \in {"queued", "running"}
      BY <1>6 DEF RecordFailed, TypeOK, PlaceInv, WorkerInv, Active, ActiveStatuses
    <3>2. f \in File /\ f.status = "failed" /\ UNCHANGED claimed
      BY <1>6, <3>1 DEF File, Statuses, FinalStatuses, RecordFailed, TypeOK, Larger
    <3>3. job' = [job EXCEPT ![worker.job] = f]
      BY <2>2, <3>1 DEF TypeOK
    <3> HIDE DEF f
    <3>4. Contract!Becomes(worker.job, "failed")
      BY <3>1, <3>2, <3>3, StatusWritten
    <3> QED BY <3>1, <3>4 DEF Contract!Next, Contract!Fail
  <2> QED BY <1>6, <2>1, <2>2 DEF RecordFailed, WriteFault, Fault
<1>7. CASE Create \/ ReadPage \/ \E j \in Jobs : PageReadJob(j) \/ Heartbeat(j)
  <2>1. UNCHANGED <<job, claimed>>
    BY <1>7 DEF Create, CreateLog, CreateLatest, CreateSubmit, ReadPage, PageReadLog,
       PageReply, PageReadJob, Heartbeat, HeartbeatCheck, HeartbeatStamp, HeartbeatEnds,
       WriteFault, Fault, persistent
  <2> QED BY <1>0, <2>1
<1>8. CASE TakeJob \/ AnnounceJob \/ OperationRaises \/ LogComplete \/ LogFailed
           \/ StopHeartbeat \/ RestartManager
  <2>1. UNCHANGED <<job, claimed>>
    BY <1>8 DEF TakeJob, AnnounceJob, OperationRaises, LogComplete, LogFailed, LogThen,
       StopHeartbeat, RestartManager, persistent
  <2> QED BY <1>0, <2>1
<1>9. CASE UNCHANGED vars
  BY <1>0, <1>9 DEF vars
<1>10. QED
  BY <1>1, <1>2, <1>3, <1>4, <1>5, <1>6, <1>7, <1>8, <1>9 DEF Next, RunJob

\* KeepsContract: the job files, the queue, the worker and the heartbeats together
\* are a job that starts once, works and gets one outcome (_run_job).
THEOREM ImplementsContract == Spec => KeepsContract
<1>1. Init => Contract!Init
  BY DEF Init, Contract!Init, Absent
<1>2. Init => OutcomeInv /\ ContractInv
  BY DEF Init, OutcomeInv, OutcomeIsLogged, ContractInv, Absent, IdleWorker
<1>3. TypeOK /\ PlaceInv /\ OutcomeInv /\ ContractInv /\ [Next]_vars
        => (OutcomeInv /\ ContractInv)'
  BY NextOutcome, NextContract
<1>4. TypeOK /\ PlaceInv /\ OutcomeInv /\ ContractInv /\ [Next]_vars
        => [Contract!Next]_(Contract!contract)
  BY ContractStep
<1>5. QED BY <1>1, <1>2, <1>3, <1>4, PlacesCorrect, PTL DEF Spec, KeepsContract, Contract!Spec
=============================================================================
