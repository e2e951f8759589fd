------------------------------ MODULE Rollback ------------------------------
(***************************************************************************)
(* The rollback of an instance (src/kx_agent/backups/rollback.py).         *)
(*                                                                         *)
(* rollback_instance records its status in rollback.json and in a history, *)
(* stops the runtime, moves two pointers, restores data, starts the        *)
(* runtime and runs the hooks of its caller.  Every write and command can  *)
(* fail, and the Agent can be killed between any two of them.  The Agent   *)
(* runs one operation at a time, so its other handlers change the instance *)
(* between rollbacks only; they are modelled by what rollback.py sees.     *)
(***************************************************************************)
CONSTANTS
    Capsules,   \* capsules that may be stored and rolled back to
    None

ASSUME RollbackAssumption == None \notin Capsules

VARIABLES
    rb,        \* the call of rollback_instance in progress: its place and context
    record,    \* rollback.json: the context and status last written, Idle if there is no file
    history,   \* targets that rollback-history.jsonl names
    current,   \* current_capsule.json
    previous,  \* previous_capsule.json
    compose,   \* capsule that the instance's compose file was rendered for
    running,   \* capsule that the containers run
    data,      \* the instance's data: as it was, half restored, or restored
    reply      \* result of the last call

instance == <<compose, running>>
vars == <<rb, record, history, current, previous, compose, running, data, reply>>

Stored == Capsules \cup {None}
Statuses == {"running", "capsule_repointed", "data_restored", "completed", "failed"}

-----------------------------------------------------------------------------
Idle == [at |-> "idle", target |-> None, dry |-> FALSE, execute |-> FALSE,
         restore |-> FALSE, hooks |-> FALSE, healthy |-> TRUE]
Go(place) == rb' = [rb EXCEPT !.at = place]

Init ==
    /\ rb = Idle
    /\ record = Idle
    /\ history = {}
    /\ current = None /\ previous = None
    /\ compose = None /\ running = None
    /\ data = "kept"
    /\ reply = "none"

\* rollback.json is replaced atomically, then a line is appended to the history.
WriteState(status, next, otherwise) ==
    \/ /\ record' = [rb EXCEPT !.at = status]
       /\ \/ /\ history' = history \cup {rb.target}
             /\ Go(next)
          \/ /\ UNCHANGED history
             /\ Go(otherwise)
    \/ /\ UNCHANGED <<record, history>>
       /\ Go(otherwise)

-----------------------------------------------------------------------------
(* rollback_instance, one action per effect.  Any of them may raise, which *)
(* leads to the except branch ("fail").                                    *)

\* The context names a backup if data is to be restored; a caller supplies
\* all hooks, or none.  The first audit record may fail to be written.
BeginRollback(c, dry, execute, restore, hooks) ==
    /\ rb.at = "idle"
    /\ rb' \in {[at |-> p, target |-> c, dry |-> dry, execute |-> execute, restore |-> restore,
                 hooks |-> hooks, healthy |-> TRUE] : p \in {"mark", "fail"}}
    /\ reply' = "none"
    /\ UNCHANGED <<record, history, current, previous, instance, data>>

\* Mutant of MarkRunning: the status is first written when there is something to tell.
MarkLater ==
    /\ rb.at = "mark"
    /\ Go("preflight")
    /\ UNCHANGED <<record, history, current, previous, instance, data, reply>>

MarkRunning ==
    /\ rb.at = "mark"
    /\ WriteState("running", "preflight", "fail")
    /\ UNCHANGED <<current, previous, instance, data, reply>>

\* The target's file may be missing or empty: capsules come and go.
Preflight ==
    /\ rb.at = "preflight"
    /\ Go("stop") \/ Go("fail")
    /\ UNCHANGED <<record, history, current, previous, instance, data, reply>>

\* Commands are run when asked for and if there is a compose file.
Executes == rb.execute /\ ~rb.dry /\ compose # None

\* Mutant of StopRuntime: the command's status is not looked at.
StopAnyway ==
    /\ rb.at = "stop"
    /\ Go("save")
    /\ running' \in IF Executes THEN {None, running} ELSE {running}
    /\ UNCHANGED <<record, history, current, previous, compose, data, reply>>

\* A command that fails or times out may have done its work.
StopRuntime ==
    /\ rb.at = "stop"
    /\ \/ Go("save") /\ running' = IF Executes THEN None ELSE running
       \/ Executes /\ Go("fail") /\ running' \in {None, running}
    /\ UNCHANGED <<record, history, current, previous, compose, data, reply>>

SavePrevious ==
    /\ rb.at = "save"
    /\ \/ Go("repoint") /\ previous' = IF rb.dry \/ current = None THEN previous ELSE current
       \/ Go("fail") /\ UNCHANGED previous
    /\ UNCHANGED <<record, history, current, instance, data, reply>>

RepointCapsule ==
    /\ rb.at = "repoint"
    /\ \/ Go("repointed") /\ current' = IF rb.dry THEN current ELSE rb.target
       \/ Go("fail") /\ UNCHANGED current
    /\ UNCHANGED <<record, history, previous, instance, data, reply>>

MarkRepointed ==
    /\ rb.at = "repointed"
    /\ WriteState("capsule_repointed", IF rb.restore THEN "restore" ELSE "start", "fail")
    /\ UNCHANGED <<current, previous, instance, data, reply>>

\* The caller's restore hook overwrites the data, which takes a while.
BeginRestore ==
    /\ rb.at = "restore"
    /\ IF rb.hooks /\ ~rb.dry
       THEN Go("restoring") /\ data' = "partial"
       ELSE Go("restored") /\ UNCHANGED data
    /\ UNCHANGED <<record, history, current, previous, instance, reply>>

EndRestore ==
    /\ rb.at = "restoring"
    /\ \/ Go("restored") /\ data' = "restored"
       \/ Go("fail") /\ UNCHANGED data
    /\ UNCHANGED <<record, history, current, previous, instance, reply>>

MarkRestored ==
    /\ rb.at = "restored"
    /\ WriteState("data_restored", "start", "fail")
    /\ UNCHANGED <<current, previous, instance, data, reply>>

StartRuntime ==
    /\ rb.at = "start"
    /\ \/ Go("check") /\ running' = IF Executes THEN compose ELSE running
       \/ Executes /\ Go("fail") /\ running' \in {running, compose}
    /\ UNCHANGED <<record, history, current, previous, compose, data, reply>>

\* run_migrations, run_security_gate, run_healthchecks: a hook may raise; what
\* the gate and the healthchecks return is put into the step's metadata.
RunChecks ==
    /\ rb.at = "check"
    /\ IF rb.hooks /\ ~rb.dry
       THEN rb' \in {[rb EXCEPT !.at = "complete", !.healthy = h] : h \in BOOLEAN}
                    \cup {[rb EXCEPT !.at = "fail"]}
       ELSE Go("complete")
    /\ UNCHANGED <<record, history, current, previous, instance, data, reply>>

\* Mutant of Complete: a record that cannot be written is no error.
CompleteAnyway ==
    /\ rb.at = "complete"
    /\ WriteState("completed", "completed", "completed")
    /\ UNCHANGED <<current, previous, instance, data, reply>>

Complete ==
    /\ rb.at = "complete"
    /\ WriteState("completed", "completed", "fail")
    /\ UNCHANGED <<current, previous, instance, data, reply>>

\* The last two audit records, in the try block.
CompletedAuditFails ==
    /\ rb.at = "completed"
    /\ Go("fail")
    /\ UNCHANGED <<record, history, current, previous, instance, data, reply>>

MarkFailed ==
    /\ rb.at = "fail"
    /\ WriteState("failed", "failed", "raised")
    /\ UNCHANGED <<current, previous, instance, data, reply>>

\* The audit record of the failure.
FailedAuditFails ==
    /\ rb.at = "failed"
    /\ Go("raised")
    /\ UNCHANGED <<record, history, current, previous, instance, data, reply>>

\* Mutant of Return: the context is not dropped.
ReturnInPlace ==
    /\ rb.at \in {"completed", "failed", "raised"}
    /\ reply' = rb.at
    /\ Go("idle")
    /\ UNCHANGED <<record, history, current, previous, instance, data>>

Return ==
    /\ rb.at \in {"completed", "failed", "raised"}
    /\ reply' = rb.at
    /\ rb' = Idle
    /\ UNCHANGED <<record, history, current, previous, instance, data>>

KillAgent ==
    /\ rb.at # "idle"
    /\ rb' = Idle
    /\ UNCHANGED <<record, history, current, previous, instance, data, reply>>

Recorded(status) == record.at = status

\* clear_failed_rollback_state: any other record is refused.
ClearFailed ==
    /\ rb.at = "idle"
    /\ Recorded("failed")
    /\ record' = Idle
    /\ UNCHANGED <<rb, history, current, previous, instance, data, reply>>

-----------------------------------------------------------------------------
(* Between rollbacks.                                                      *)

\* The instance is created, updated or started: a compose file is rendered
\* for a stored capsule and its containers are started.  No pointer moves.
DeployInstance(c) ==
    /\ rb.at = "idle"
    /\ compose' = c /\ running' = c
    /\ UNCHANGED <<rb, record, history, current, previous, data, reply>>

StopInstance ==
    /\ rb.at = "idle"
    /\ running # None
    /\ running' = None
    /\ UNCHANGED <<rb, record, history, current, previous, compose, data, reply>>

-----------------------------------------------------------------------------
Next ==
    \/ \E c \in Capsules, dry, execute, restore, hooks \in BOOLEAN :
          BeginRollback(c, dry, execute, restore, hooks)
    \/ MarkRunning \/ Preflight \/ StopRuntime \/ SavePrevious \/ RepointCapsule
    \/ MarkRepointed \/ BeginRestore \/ EndRestore \/ MarkRestored \/ StartRuntime
    \/ RunChecks \/ Complete \/ CompletedAuditFails \/ MarkFailed \/ FailedAuditFails
    \/ Return \/ KillAgent \/ ClearFailed
    \/ \E c \in Capsules : DeployInstance(c)
    \/ StopInstance

Spec == Init /\ [][Next]_vars

-----------------------------------------------------------------------------
(* Properties.                                                             *)

\* Every variable has its type, and an idle Agent holds no rollback's context.
Places == {"mark", "preflight", "stop", "save", "repoint", "repointed", "restore",
           "restoring", "restored", "start", "check", "complete", "completed",
           "fail", "failed", "raised"}
Contexts(places) == [at : places, target : Capsules, dry : BOOLEAN, execute : BOOLEAN,
                     restore : BOOLEAN, hooks : BOOLEAN, healthy : BOOLEAN]
TypeOK ==
    /\ rb \in {Idle} \cup Contexts(Places)
    /\ record \in {Idle} \cup Contexts(Statuses)
    /\ history \subseteq Capsules
    /\ current \in Stored /\ previous \in Stored
    /\ compose \in Stored /\ running \in Stored
    /\ data \in {"kept", "partial", "restored"}
    /\ reply \in {"none", "completed", "failed", "raised"}

\* As long as rollback.json says that a rollback was completed, the instance
\* points to its target and has its data, whatever rollbacks were begun, failed
\* and killed since (rollback_instance).
CompletedIsDone ==
    Recorded("completed") /\ ~record.dry =>
        /\ current = record.target
        /\ record.restore /\ record.hooks => data = "restored"

\* The pointer only ever moves to capsules that the history names.
SwitchIsRecorded == current # None => current \in history

\* What the caller was told last is what rollback.json says, until it is
\* cleared or another rollback begins.
ReplyIsRecorded ==
    rb.at = "idle" /\ reply \in {"completed", "failed"} => record = Idle \/ Recorded(reply)

\* Stop runtime before repointing (module docstring), and before the data is
\* overwritten: when commands are executed at all.
RepointsWhenStopped ==
    [][rb.execute /\ (current' # current \/ data' # data) => running = None]_vars

-----------------------------------------------------------------------------
(* What documents promise and the code does not keep (README, Divergences); *)
(* no run checks these.                                                    *)

\* At least one rollback point is kept: after a rollback, the previous capsule
\* is another one than the current.
RollbackPointKept ==
    Recorded("completed") /\ ~record.dry /\ previous # None => previous # current

\* A restore is not marked successful when the Security Gate or a healthcheck
\* does not pass.
CompletedIsHealthy == Recorded("completed") /\ record.restore => record.healthy

\* A capsule rollback recreates the containers from its target.
StartsTarget == [][rb.at = "start" /\ running' # running => running' = rb.target]_vars

\* Services stay stopped while the data's integrity is unknown.
StartsIntact == [][rb.at = "start" /\ running' # running => data # "partial"]_vars
=============================================================================
