--------------------------- MODULE RollbackProofs ---------------------------
(***************************************************************************)
(* Proofs about Rollback, for any set of capsules.                         *)
(*                                                                         *)
(* Why rollback.json can be believed when it says completed: it is written *)
(* ("running") before a rollback touches anything, so while pointers and   *)
(* data are in motion it never says completed; and every place of the      *)
(* procedure past a step is reached only if that step was done.            *)
(***************************************************************************)
EXTENDS Rollback, TLAPS

USE RollbackAssumption

\* The places at which a rollback is under way, past the given ones.
FromComplete == {"complete"}
FromStart == {"restored", "start", "check"} \cup FromComplete
FromRepointed == {"repointed", "restore", "restoring"} \cup FromStart
FromSave == {"save", "repoint"} \cup FromRepointed
UnderWay == {"preflight", "stop"} \cup FromSave

\* While a rollback is under way, it is the last thing recorded.
RecordInv ==
    /\ rb.at \in UnderWay =>
          /\ record.at \in {"running", "capsule_repointed", "data_restored"}
          /\ rb.target \in history
    /\ rb.at \in {"completed", "failed"} => Recorded(rb.at)
    /\ rb.at # "idle" => reply = "none"

\* What a rollback has done by the time it gets to a place.
DoneInv ==
    /\ rb.at \in FromRepointed /\ ~rb.dry => current = rb.target
    /\ rb.at \in FromStart /\ ~rb.dry /\ rb.restore /\ rb.hooks => data = "restored"
    /\ rb.at = "restoring" => ~rb.dry

\* Containers come from a compose file, and are down from the stop to the start.
StopInv ==
    /\ compose = None => running = None
    /\ rb.at \in FromSave \ {"check", "complete"} /\ Executes => running = None

Inv ==
    /\ TypeOK /\ RecordInv /\ DoneInv /\ StopInv
    /\ CompletedIsDone /\ SwitchIsRecorded /\ ReplyIsRecorded

-----------------------------------------------------------------------------
\* The places of a rollback.
LEMMA PlacesDiffer == "idle" \notin Places
BY DEF Places

\* A rollback moves on to another place.
Moves(p) ==
    /\ rb' \in Contexts(Places)
    /\ rb'.at = p
    /\ rb'.target = rb.target /\ rb'.dry = rb.dry /\ rb'.execute = rb.execute
    /\ rb'.restore = rb.restore /\ rb'.hooks = rb.hooks

\* Going to another step of a rollback keeps the types.
LEMMA GoTyped ==
    ASSUME TypeOK, rb.at # "idle", NEW p \in Places, Go(p)
    PROVE  Moves(p)
<1>1. rb \in Contexts(Places)
    BY DEF TypeOK, Idle
<1> QED
    BY <1>1 DEF Go, Contexts, Moves

\* A state is recorded, or the rollback goes where failures lead.
LEMMA WriteTyped ==
    ASSUME TypeOK, rb.at # "idle", NEW s \in Statuses, NEW p \in Places, NEW q \in Places,
           WriteState(s, p, q)
    PROVE  /\ \/ /\ rb'.at = p /\ Recorded(s)' /\ history' = history \cup {rb.target}
              \/ rb'.at = q /\ history' = history
           /\ \/ /\ record'.at = s
                 /\ record'.target = rb.target /\ record'.dry = rb.dry
                 /\ record'.restore = rb.restore /\ record'.hooks = rb.hooks
              \/ record' = record
           /\ record' \in {Idle} \cup Contexts(Statuses)
           /\ history' \subseteq Capsules
           /\ rb' \in Contexts(Places)
           /\ rb'.target = rb.target /\ rb'.dry = rb.dry /\ rb'.execute = rb.execute
           /\ rb'.restore = rb.restore /\ rb'.hooks = rb.hooks
<1>1. rb \in Contexts(Places)
    BY DEF TypeOK, Idle
<1>2. /\ [rb EXCEPT !.at = s] \in Contexts(Statuses)
      /\ [rb EXCEPT !.at = s].at = s
      /\ [rb EXCEPT !.at = s].target = rb.target /\ [rb EXCEPT !.at = s].dry = rb.dry
      /\ [rb EXCEPT !.at = s].restore = rb.restore /\ [rb EXCEPT !.at = s].hooks = rb.hooks
    BY <1>1 DEF Contexts
<1>3. Go(p) \/ Go(q)
    BY DEF WriteState
<1>4. /\ rb' \in Contexts(Places)
      /\ rb'.target = rb.target /\ rb'.dry = rb.dry /\ rb'.execute = rb.execute
      /\ rb'.restore = rb.restore /\ rb'.hooks = rb.hooks
    BY <1>3, GoTyped DEF Moves
<1>5. CASE record' = [rb EXCEPT !.at = s] /\ Go(p) /\ history' = history \cup {rb.target}
  <2>1. rb'.at = p /\ rb.target \in Capsules
    BY <1>1, <1>5, GoTyped DEF Contexts, Moves
  <2> QED
    BY <1>2, <1>4, <1>5, <2>1 DEF Recorded, TypeOK
<1>6. CASE record' = [rb EXCEPT !.at = s] /\ Go(q) /\ history' = history
  <2>1. rb'.at = q
    BY <1>6, GoTyped DEF Moves
  <2> QED
    BY <1>2, <1>4, <1>6, <2>1 DEF TypeOK
<1>7. CASE record' = record /\ Go(q) /\ history' = history
  <2>1. rb'.at = q
    BY <1>7, GoTyped DEF Moves
  <2> QED
    BY <1>4, <1>7, <2>1 DEF TypeOK
<1> QED
    BY <1>5, <1>6, <1>7 DEF WriteState

\* The invariant holds before the first rollback.
LEMMA InitInv == Init => Inv
BY DEF Init, Inv, TypeOK, RecordInv, DoneInv, StopInv, CompletedIsDone, SwitchIsRecorded,
       ReplyIsRecorded, Idle, Recorded, Stored, UnderWay, FromSave, FromRepointed, FromStart,
       FromComplete

\* Every step keeps the invariant.
LEMMA NextInv == Inv /\ [Next]_vars => Inv'
<1> SUFFICES ASSUME Inv, [Next]_vars PROVE Inv'
    OBVIOUS
<1> USE DEF Inv
<1>1. ASSUME NEW c \in Capsules, NEW dry \in BOOLEAN, NEW execute \in BOOLEAN,
             NEW restore \in BOOLEAN, NEW hooks \in BOOLEAN,
             BeginRollback(c, dry, execute, restore, hooks)
      PROVE  Inv'
  <2>1. rb' \in Contexts(Places) /\ rb'.at \in {"mark", "fail"}
    <3>1. PICK p \in {"mark", "fail"} :
             rb' = [at |-> p, target |-> c, dry |-> dry, execute |-> execute,
                    restore |-> restore, hooks |-> hooks, healthy |-> TRUE]
      BY <1>1 DEF BeginRollback
    <3>2. p \in Places
      BY DEF Places
    <3> QED
      BY <1>1, <3>1, <3>2 DEF Contexts
  <2>2. UNCHANGED <<record, history, current, previous, compose, running, data>> /\ reply' = "none"
    BY <1>1 DEF BeginRollback, instance
  <2> QED
    BY <2>1, <2>2 DEF TypeOK, RecordInv, DoneInv, StopInv, CompletedIsDone, SwitchIsRecorded,
       ReplyIsRecorded, Recorded, UnderWay, FromSave, FromRepointed, FromStart, FromComplete
<1>2. CASE MarkRunning \/ MarkRepointed \/ MarkRestored \/ Complete \/ MarkFailed
  <2>1. rb.at # "idle" /\ rb \in Contexts(Places)
    BY <1>2 DEF MarkRunning, MarkRepointed, MarkRestored, Complete, MarkFailed, TypeOK, Idle
  <2>2. UNCHANGED <<current, previous, compose, running, data, reply>> /\ reply = "none"
    BY <1>2, <2>1 DEF MarkRunning, MarkRepointed, MarkRestored, Complete, MarkFailed, instance, RecordInv
  <2>3. PICK s \in Statuses, p \in Places, q \in {"fail", "raised"} :
           /\ WriteState(s, p, q)
           /\ \/ rb.at = "mark" /\ s = "running" /\ p = "preflight" /\ q = "fail"
              \/ rb.at = "repointed" /\ s = "capsule_repointed" /\ q = "fail"
                    /\ p = IF rb.restore THEN "restore" ELSE "start"
              \/ rb.at = "restored" /\ s = "data_restored" /\ p = "start" /\ q = "fail"
              \/ rb.at = "complete" /\ s = "completed" /\ p = "completed" /\ q = "fail"
              \/ rb.at = "fail" /\ s = "failed" /\ p = "failed" /\ q = "raised"
    BY <1>2 DEF MarkRunning, MarkRepointed, MarkRestored, Complete, MarkFailed, Places, Statuses
  <2>4. /\ \/ /\ rb'.at = p /\ Recorded(s)' /\ history' = history \cup {rb.target}
           \/ rb'.at = q /\ history' = history
        /\ \/ /\ record'.at = s
              /\ record'.target = rb.target /\ record'.dry = rb.dry
              /\ record'.restore = rb.restore /\ record'.hooks = rb.hooks
           \/ record' = record
        /\ record' \in {Idle} \cup Contexts(Statuses)
        /\ history' \subseteq Capsules
        /\ rb' \in Contexts(Places)
        /\ rb'.target = rb.target /\ rb'.dry = rb.dry /\ rb'.execute = rb.execute
        /\ rb'.restore = rb.restore /\ rb'.hooks = rb.hooks
    <3>1. q \in Places
      BY DEF Places
    <3> HIDE DEF Inv
    <3>2. TypeOK
      BY DEF Inv
    <3> QED
      BY <2>1, <2>3, <3>1, <3>2, WriteTyped
  <2>5. TypeOK'
    BY <2>2, <2>4 DEF TypeOK
  <2>6. RecordInv'
    BY <2>2, <2>3, <2>4 DEF RecordInv, Recorded, UnderWay, FromSave, FromRepointed, FromStart, FromComplete
  <2>7. DoneInv'
    BY <2>2, <2>3, <2>4 DEF DoneInv, FromRepointed, FromStart, FromComplete
  <2>8. StopInv'
    BY <2>2, <2>3, <2>4 DEF StopInv, Executes, FromSave, FromRepointed, FromStart, FromComplete
  <2>9. CompletedIsDone'
    BY <2>2, <2>3, <2>4 DEF CompletedIsDone, Recorded, DoneInv, FromRepointed, FromStart, FromComplete
  <2>10. SwitchIsRecorded' /\ ReplyIsRecorded'
    BY <2>2, <2>3, <2>4 DEF SwitchIsRecorded, ReplyIsRecorded
  <2> QED
    BY <2>5, <2>6, <2>7, <2>8, <2>9, <2>10
\* The steps between two records.
<1>3. ASSUME rb.at # "idle", NEW p \in Places, Moves(p), UNCHANGED <<record, history, reply>>,
             current' \in Stored, previous' \in Stored, compose' = compose, running' \in Stored,
             data' \in {"kept", "partial", "restored"},
             p \in UnderWay => rb.at \in UnderWay,
             p \notin {"completed", "failed"},
             DoneInv', StopInv', CompletedIsDone', SwitchIsRecorded'
      PROVE  Inv'
  <2>1. rb' \in Contexts(Places) /\ rb'.at = p /\ rb'.target = rb.target /\ p # "idle"
    BY <1>3, PlacesDiffer DEF Moves
  <2> QED
    BY <1>3, <2>1 DEF TypeOK, RecordInv, ReplyIsRecorded, Recorded
\* Steps that leave pointers and data alone.
<1>4. ASSUME rb.at # "idle", NEW p \in Places, Moves(p), UNCHANGED <<record, history, reply>>,
             UNCHANGED <<current, previous, compose, data>>, running' \in Stored,
             p \in UnderWay => rb.at \in UnderWay,
             p \notin {"completed", "failed"},
             DoneInv', StopInv'
      PROVE  Inv'
  <2>1. CompletedIsDone' /\ SwitchIsRecorded'
    BY <1>4 DEF CompletedIsDone, SwitchIsRecorded, Recorded
  <2> QED
    BY <1>3, <1>4, <2>1 DEF TypeOK
\* While a rollback is under way, nothing is recorded as completed.
<1>5. ASSUME rb.at \in UnderWay, record' = record PROVE CompletedIsDone'
    BY <1>5 DEF CompletedIsDone, Recorded, RecordInv
<1>6. CASE Preflight
  <2>1. PICK p \in {"stop", "fail"} : Go(p)
    BY <1>6 DEF Preflight
  <2>2. p \in Places /\ rb.at # "idle" /\ Moves(p)
    BY <1>6, <2>1, GoTyped DEF Preflight, Places
  <2>3. DoneInv' /\ StopInv'
    BY <1>6, <2>1, <2>2 DEF Preflight, Moves, instance, DoneInv, StopInv, FromSave, FromRepointed, FromStart, FromComplete
  <2> QED
    BY <1>4, <1>6, <2>1, <2>2, <2>3 DEF Preflight, instance, TypeOK, UnderWay, FromSave, FromRepointed, FromStart, FromComplete
<1>7. CASE StopRuntime
  <2>1. PICK p \in {"save", "fail"} : Go(p) /\ (p = "save" => running' = IF Executes THEN None ELSE running)
    BY <1>7 DEF StopRuntime
  <2>2. p \in Places /\ rb.at # "idle" /\ Moves(p)
    BY <1>7, <2>1, GoTyped DEF StopRuntime, Places
  <2>3. running' \in {None, running} /\ UNCHANGED <<record, history, current, previous, compose, data, reply>>
    BY <1>7 DEF StopRuntime
  <2>4. DoneInv' /\ StopInv'
    BY <1>7, <2>1, <2>2, <2>3 DEF StopRuntime, Moves, DoneInv, StopInv, Executes, FromSave, FromRepointed, FromStart, FromComplete
  <2> QED
    BY <1>4, <1>7, <2>1, <2>2, <2>3, <2>4 DEF StopRuntime, TypeOK, Stored, UnderWay
<1>8. CASE SavePrevious
  <2>1. PICK p \in {"repoint", "fail"} : Go(p)
    BY <1>8 DEF SavePrevious
  <2>2. p \in Places /\ rb.at = "save" /\ Moves(p)
    BY <1>8, <2>1, GoTyped DEF SavePrevious, Places
  <2>3. previous' \in Stored /\ UNCHANGED <<record, history, current, compose, running, data, reply>>
    BY <1>8 DEF SavePrevious, instance, TypeOK
  <2>4. DoneInv' /\ StopInv'
    BY <2>1, <2>2, <2>3 DEF Moves, DoneInv, StopInv, Executes, FromSave, FromRepointed, FromStart, FromComplete
  <2>5. SwitchIsRecorded' /\ rb.at \in UnderWay
    BY <2>2, <2>3 DEF SwitchIsRecorded, UnderWay, FromSave
  <2> QED
    BY <1>3, <1>5, <2>1, <2>2, <2>3, <2>4, <2>5 DEF TypeOK
<1>9. CASE RepointCapsule
  <2>1. PICK p \in {"repointed", "fail"} :
            Go(p) /\ current' = IF p = "fail" \/ rb.dry THEN current ELSE rb.target
    BY <1>9 DEF RepointCapsule
  <2>2. p \in Places /\ rb.at = "repoint" /\ Moves(p)
    BY <1>9, <2>1, GoTyped DEF RepointCapsule, Places
  <2>3. UNCHANGED <<record, history, previous, compose, running, data, reply>>
    BY <1>9 DEF RepointCapsule, instance
  <2>4. DoneInv' /\ StopInv'
    BY <2>1, <2>2, <2>3 DEF Moves, DoneInv, StopInv, Executes, FromSave, FromRepointed, FromStart, FromComplete
  <2>5. rb.at \in UnderWay /\ rb.target \in history
    BY <2>2 DEF RecordInv, UnderWay, FromSave
  <2>6. SwitchIsRecorded' /\ current' \in Stored
    BY <2>1, <2>3, <2>5 DEF SwitchIsRecorded, TypeOK, Stored
  <2> QED
    BY <1>3, <1>5, <2>1, <2>2, <2>3, <2>4, <2>5, <2>6 DEF TypeOK
<1>10. CASE BeginRestore \/ EndRestore
  <2>1. PICK p \in {"restoring", "restored", "fail"} :
           /\ Go(p)
           /\ p = "restoring" => ~rb.dry
           /\ p = "restored" => rb.dry \/ ~rb.hooks \/ data' = "restored"
    BY <1>10 DEF BeginRestore, EndRestore
  <2>2. p \in Places /\ rb.at \in {"restore", "restoring"} /\ Moves(p)
    BY <1>10, <2>1, GoTyped DEF BeginRestore, EndRestore, Places
  <2>3. /\ UNCHANGED <<record, history, current, previous, compose, running, reply>>
        /\ data' \in {"kept", "partial", "restored"}
    BY <1>10 DEF BeginRestore, EndRestore, instance, TypeOK
  <2>4. DoneInv' /\ StopInv'
    BY <2>1, <2>2, <2>3 DEF Moves, DoneInv, StopInv, Executes, FromSave, FromRepointed, FromStart, FromComplete
  <2>5. SwitchIsRecorded' /\ rb.at \in UnderWay
    BY <2>2, <2>3 DEF SwitchIsRecorded, UnderWay, FromSave, FromRepointed
  <2> QED
    BY <1>3, <1>5, <2>1, <2>2, <2>3, <2>4, <2>5 DEF TypeOK
<1>11. CASE StartRuntime
  <2>1. PICK p \in {"check", "fail"} : Go(p)
    BY <1>11 DEF StartRuntime
  <2>2. p \in Places /\ rb.at = "start" /\ Moves(p)
    BY <1>11, <2>1, GoTyped DEF StartRuntime, Places
  <2>3. running' \in {compose, running} /\ UNCHANGED <<record, history, current, previous, compose, data, reply>>
    BY <1>11 DEF StartRuntime
  <2>4. DoneInv' /\ StopInv'
    BY <2>1, <2>2, <2>3 DEF Moves, DoneInv, StopInv, Executes, FromSave, FromRepointed, FromStart, FromComplete
  <2> QED
    BY <1>4, <2>1, <2>2, <2>3, <2>4 DEF TypeOK, UnderWay, FromSave, FromRepointed, FromStart
<1>12. CASE RunChecks
  <2>1. PICK p \in {"complete", "fail"} : p \in Places /\ rb.at = "check" /\ Moves(p)
    <3>1. rb \in Contexts(Places) /\ rb.at = "check"
      <4>1. rb.at = "check"
        BY <1>12 DEF RunChecks
      <4> QED
        BY <4>1 DEF TypeOK, Idle
    <3>2. ASSUME NEW h \in BOOLEAN, rb' = [rb EXCEPT !.at = "complete", !.healthy = h]
          PROVE  Moves("complete")
      BY <3>1, <3>2 DEF Moves, Contexts, Places
    <3>3. {"complete", "fail"} \subseteq Places
      BY DEF Places
    <3> QED
      BY <1>12, <3>1, <3>2, <3>3, GoTyped DEF RunChecks, Go
  <2>2. UNCHANGED <<record, history, current, previous, compose, running, data, reply>>
    BY <1>12 DEF RunChecks, instance
  <2>3. DoneInv' /\ StopInv'
    BY <2>1, <2>2 DEF Moves, DoneInv, StopInv, Executes, FromSave, FromRepointed, FromStart, FromComplete
  <2> QED
    BY <1>4, <2>1, <2>2, <2>3 DEF TypeOK, UnderWay, FromSave, FromRepointed, FromStart
<1>13. CASE CompletedAuditFails \/ FailedAuditFails
  <2>1. PICK p \in {"fail", "raised"} : Go(p)
    BY <1>13 DEF CompletedAuditFails, FailedAuditFails
  <2>2. p \in Places /\ rb.at # "idle" /\ Moves(p)
    BY <1>13, <2>1, GoTyped DEF CompletedAuditFails, FailedAuditFails, Places
  <2>3. UNCHANGED <<record, history, current, previous, compose, running, data, reply>>
    BY <1>13 DEF CompletedAuditFails, FailedAuditFails, instance
  <2>4. DoneInv' /\ StopInv'
    BY <2>1, <2>2, <2>3 DEF Moves, DoneInv, StopInv, FromSave, FromRepointed, FromStart, FromComplete
  <2> QED
    BY <1>4, <2>1, <2>2, <2>3, <2>4 DEF TypeOK, UnderWay, FromSave, FromRepointed, FromStart, FromComplete
<1>14. CASE Return \/ KillAgent
  <2>1. rb' = Idle /\ UNCHANGED <<record, history, current, previous, compose, running, data>>
    BY <1>14 DEF Return, KillAgent, instance
  <2>2. /\ reply' \in {"completed", "failed", "raised", "none"}
        /\ reply' \in {"completed", "failed"} => Recorded(reply')
    BY <1>14 DEF Return, KillAgent, RecordInv, Recorded
  <2>3. TypeOK' /\ RecordInv' /\ DoneInv' /\ StopInv'
    BY <2>1, <2>2 DEF TypeOK, RecordInv, DoneInv, StopInv, Idle, Recorded, UnderWay, FromSave, FromRepointed, FromStart, FromComplete
  <2> QED
    BY <2>1, <2>2, <2>3 DEF CompletedIsDone, SwitchIsRecorded, ReplyIsRecorded, Recorded
<1>15. CASE ClearFailed \/ StopInstance \/ \E c \in Capsules : DeployInstance(c)
  <2>1. /\ rb.at = "idle" /\ UNCHANGED <<rb, history, current, previous, data, reply>>
        /\ record' \in {record, Idle}
        /\ running' \in Stored /\ compose' \in Stored
        /\ compose' = None => running' = None
    BY <1>15 DEF ClearFailed, StopInstance, DeployInstance, instance, TypeOK, Stored, StopInv
  <2>2. TypeOK' /\ RecordInv' /\ DoneInv' /\ StopInv'
    BY <2>1 DEF TypeOK, RecordInv, DoneInv, StopInv, Recorded, UnderWay, FromSave, FromRepointed, FromStart, FromComplete
  <2> QED
    BY <2>1, <2>2 DEF CompletedIsDone, SwitchIsRecorded, ReplyIsRecorded, Recorded, Idle
<1>16. CASE UNCHANGED vars
    BY <1>16 DEF vars, instance, TypeOK, RecordInv, DoneInv, StopInv, CompletedIsDone,
           SwitchIsRecorded, ReplyIsRecorded, Recorded, Executes
<1> QED
    BY <1>1, <1>2, <1>6, <1>7, <1>8, <1>9, <1>10, <1>11, <1>12, <1>13, <1>14, <1>15, <1>16
    DEF Next

\* The inductive invariant of the rollback, for every behaviour.
THEOREM InvCorrect == Spec => []Inv
<1> QED
    BY InitInv, NextInv, PTL DEF Spec

\* Every variable keeps its type.
THEOREM TypeCorrect == Spec => []TypeOK
<1>1. Inv => TypeOK
    BY DEF Inv
<1> QED
    BY <1>1, InvCorrect, PTL

\* A rollback recorded as completed is done, and stays so.
THEOREM CompletedCorrect == Spec => []CompletedIsDone
<1>1. Inv => CompletedIsDone
    BY DEF Inv
<1> QED
    BY <1>1, InvCorrect, PTL

\* The pointer only moves to capsules that the history names.
THEOREM SwitchesRecorded == Spec => []SwitchIsRecorded
<1>1. Inv => SwitchIsRecorded
    BY DEF Inv
<1> QED
    BY <1>1, InvCorrect, PTL

\* What the caller was told is what is recorded.
THEOREM RepliesRecorded == Spec => []ReplyIsRecorded
<1>1. Inv => ReplyIsRecorded
    BY DEF Inv
<1> QED
    BY <1>1, InvCorrect, PTL

\* An executing rollback moves the pointer and overwrites data of a stopped
\* instance only.
THEOREM StopsFirst == Spec => RepointsWhenStopped
<1>1. ASSUME Inv, Next, rb.execute, current' # current \/ data' # data PROVE running = None
  <2>1. \/ rb.at = "repoint" /\ ~rb.dry
        \/ rb.at = "restore" /\ ~rb.dry
        \/ rb.at = "restoring"
    BY <1>1 DEF Next, BeginRollback, MarkRunning, Preflight, StopRuntime, SavePrevious,
           RepointCapsule, MarkRepointed, BeginRestore, EndRestore, MarkRestored, StartRuntime,
           RunChecks, Complete, CompletedAuditFails, MarkFailed, FailedAuditFails, Return,
           KillAgent, ClearFailed, DeployInstance, StopInstance, instance
  <2> QED
    BY <1>1, <2>1 DEF Inv, StopInv, DoneInv, Executes, FromSave, FromRepointed
<1>2. Inv /\ [Next]_vars =>
        [rb.execute /\ (current' # current \/ data' # data) => running = None]_vars
    BY <1>1
<1> QED
    BY <1>2, InvCorrect, PTL DEF Spec, RepointsWhenStopped
=============================================================================
