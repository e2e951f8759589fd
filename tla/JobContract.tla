---------------------------- MODULE JobContract ----------------------------
(***************************************************************************)
(* What a background job of the Manager promises whoever asks for it,      *)
(* whatever queue, thread, file or process it is made of: it is accepted,  *)
(* started at most once, and gets at most one outcome; a success means     *)
(* that the operation behind it gave a good result.  It may give one       *)
(* although the job fails, and even after it did.  OperationJobs and       *)
(* BuildJobs both implement this: the result is the deploy function's ok   *)
(* for the one, and the Builder's verified archive for the other.          *)
(***************************************************************************)

CONSTANT Jobs

VARIABLES
    status,  \* status[j]: "absent" until it is accepted
    done     \* done[j]: the operation of the job gave a good result

contract == <<status, done>>

Init ==
    /\ status = [j \in Jobs |-> "absent"]
    /\ done = [j \in Jobs |-> FALSE]

Becomes(j, next) == status' = [status EXCEPT ![j] = next] /\ UNCHANGED done

Submit(j) == status[j] = "absent" /\ Becomes(j, "queued")
Start(j) == status[j] = "queued" /\ Becomes(j, "running")

\* Only a job that was started gives a result, and a good one stays.
Work(j) ==
    /\ status[j] \notin {"absent", "queued"}
    /\ done' = [done EXCEPT ![j] = TRUE]
    /\ UNCHANGED status

Succeed(j) == status[j] = "running" /\ done[j] /\ Becomes(j, "succeeded")
Fail(j) == status[j] \in {"queued", "running"} /\ Becomes(j, "failed")

Next == \E j \in Jobs : Submit(j) \/ Start(j) \/ Work(j) \/ Succeed(j) \/ Fail(j)

Spec == Init /\ [][Next]_contract
=============================================================================
