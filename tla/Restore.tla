------------------------------ MODULE Restore ------------------------------
(***************************************************************************)
(* Backups of an instance and restores from them (src/kx_agent/backups/:   *)
(* backup.py, retention.py and restore.py).                                *)
(*                                                                         *)
(* Three actors share the shelf of backups: whoever makes a backup and     *)
(* rewrites its record in place; whoever prunes, by a retention plan that  *)
(* may be old when it is carried out; and RestoreRunner.run, which calls   *)
(* the operations it was given, any of which may fail half-way.  The Agent *)
(* can be killed at any time.  Data is known by where it came from.        *)
(***************************************************************************)
EXTENDS Naturals, Sequences, FiniteSets

CONSTANTS
    MaxBackups,  \* bound on the number of backups made
    MaxMade,     \* bound on how many of them are made apart from restores
    Keep,        \* newest pre-update, and pre-restore, backups that retention keeps
    Window,      \* days that it keeps backups of other classes
    Audit,       \* days that it keeps failed ones
    Made,        \* classes of backups that are made apart from restores
    Plans        \* plans that restores are made with

Optional == {"media", "env", "migrations", "gate", "health"}

\* save is create_pre_restore_backup; strict: the backup's status and contents
\* are verified; undo: there is an operation that rolls a failed restore back.
AllPlans == [same : BOOLEAN, dry : BOOLEAN, strict : BOOLEAN, overwrite : BOOLEAN,
             undo : BOOLEAN, save : BOOLEAN, extras : SUBSET Optional]

ASSUME RestoreAssumption ==
    /\ MaxBackups \in Nat /\ MaxMade \in Nat
    /\ Keep \in Nat
    /\ Window \in Nat
    /\ Audit \in Nat
    /\ Made \subseteq {"manual", "scheduled", "pre_update"}
    /\ Plans \subseteq AllPlans

VARIABLES
    shelf,   \* backups in the order of their ids: class, status on record, age in days
    doomed,  \* what a retention plan told its caller to delete
    rs,      \* the last call of RestoreRunner.run: its plan, what is left to do
    mark,    \* status that this call last gave to mark_restore_status
    report,  \* status that it wrote to restore-report.json, "torn" if it was cut short
    inst,    \* the instance, and the one that a restore last made from its backups
    reply    \* status of the report that run returned, "raised" if it raised

backups == <<shelf, doomed>>
vars == <<shelf, doomed, rs, mark, report, inst, reply>>

Classes == {"manual", "scheduled", "pre_update", "pre_restore"}
Counted == {"pre_update", "pre_restore"}
Statuses == {"created", "running", "verifying", "verified", "failed",
             "expired", "deleted", "quarantined"}
Targets == {"own", "copy"}

-----------------------------------------------------------------------------
(* Backups.  A record that was cut short is "torn", a directory that was   *)
(* removed is "gone".                                                      *)

ValidTransitions == [s \in Statuses |->
    CASE s = "created"   -> {"running", "failed", "deleted"}
      [] s = "running"   -> {"verifying", "failed"}
      [] s = "verifying" -> {"verified", "failed", "quarantined"}
      [] s = "verified"  -> {"expired", "deleted", "quarantined"}
      [] s = "failed"    -> {"deleted", "quarantined"}
      [] s = "deleted"   -> {}
      [] OTHER           -> {"deleted"}]

New(class, status) == Append(shelf, [class |-> class, status |-> status, age |-> 0])
Room == Len(shelf) < MaxBackups
OnShelf(i) == i \in DOMAIN shelf /\ shelf[i].status # "gone"

CreateBackup(class) ==
    /\ Room /\ Cardinality({i \in DOMAIN shelf : shelf[i].class \in Made}) < MaxMade
    /\ shelf' = New(class, "created")
    /\ UNCHANGED <<doomed, rs, mark, report, inst, reply>>

\* The record is rewritten in place.  Nothing expires or deletes by record.
AdvanceBackup(i) ==
    /\ shelf[i].status \in Statuses
    /\ \E s \in (ValidTransitions[shelf[i].status] \ {"verified", "expired", "deleted"})
                \cup {"torn"} :
           shelf' = [shelf EXCEPT ![i].status = s]
    /\ UNCHANGED <<doomed, rs, mark, report, inst, reply>>

\* The verifier's report is accepted, or gives the status quarantined.
VerifyBackup(i) ==
    /\ shelf[i].status = "verifying"
    /\ \E s \in {"verified", "quarantined"} : shelf' = [shelf EXCEPT ![i].status = s]
    /\ UNCHANGED <<doomed, rs, mark, report, inst, reply>>

\* load_backup_index passes over what it cannot read.
Index == {i \in DOMAIN shelf : shelf[i].status \in Statuses}

DecidedByStatus(i) == shelf[i].status \in {"quarantined", "failed", "expired", "deleted"}

\* Mutant of Newer: the oldest backups of a class are kept.
Older(i) == {j \in Index : j < i /\ shelf[j].class = shelf[i].class /\ ~DecidedByStatus(j)}

Newer(i) == {j \in Index : j > i /\ shelf[j].class = shelf[i].class /\ ~DecidedByStatus(j)}

\* Scheduled classes are not the daily, weekly and monthly ones that have
\* windows of their own; they are kept as manual ones are.
Keeps(i) ==
    CASE shelf[i].status = "quarantined" -> TRUE
      [] shelf[i].status \in {"failed", "expired", "deleted"} -> shelf[i].age <= Audit
      [] ~DecidedByStatus(i) /\ shelf[i].class \in Counted -> Cardinality(Newer(i)) < Keep
      [] OTHER -> shelf[i].age <= Window

PlanRetention ==
    /\ doomed' = {i \in Index : ~Keeps(i)}
    /\ UNCHANGED <<shelf, rs, mark, report, inst, reply>>

PruneBackup(i) ==
    /\ doomed' = doomed \ {i}
    /\ shelf' = [shelf EXCEPT ![i].status = "gone", ![i].age = 0]
    /\ UNCHANGED <<rs, mark, report, inst, reply>>

\* Ages matter as far as retention may still ask for them.
Ages(b) ==
    /\ b.status \notin {"torn", "gone", "quarantined"}
    /\ b.class \in Counted => b.status # "verified"
    /\ b.age <= Window \/ b.age <= Audit

\* A day goes by.
Tick ==
    /\ shelf' = [i \in DOMAIN shelf |->
                    IF Ages(shelf[i]) THEN [shelf[i] EXCEPT !.age = @ + 1] ELSE shelf[i]]
    /\ shelf' # shelf
    /\ UNCHANGED <<doomed, rs, mark, report, inst, reply>>

-----------------------------------------------------------------------------
(* RestoreRunner.run.                                                      *)

\* The order of the stages; a plan asks for some of them.
Order == [save |-> 1, stop |-> 2, db |-> 3, media |-> 4, env |-> 5, migrations |-> 6,
          gate |-> 7, health |-> 8]
Stages == DOMAIN Order
Stage == IF rs.todo = {} THEN "finish"
         ELSE CHOOSE s \in rs.todo : \A o \in rs.todo : Order[s] <= Order[o]

NoPlan == [same |-> FALSE, dry |-> FALSE, strict |-> FALSE, overwrite |-> FALSE,
           undo |-> FALSE, save |-> FALSE, extras |-> {}]
Idle == [at |-> "idle", plan |-> NoPlan, source |-> 0, todo |-> {}, safety |-> 0,
         before |-> [db |-> 0, media |-> 0]]
Go(place) == rs' = [rs EXCEPT !.at = place,
                              !.todo = IF place \in {"preflight", "work"} THEN @ ELSE {}]
Advance == rs' = [rs EXCEPT !.todo = @ \ {Stage}]

TargetOf(plan) == IF plan.same THEN "own" ELSE "copy"
Target == TargetOf(rs.plan)
DataOf(t) == [db |-> inst[t].db, media |-> inst[t].media]

Init ==
    /\ shelf = << >> /\ doomed = {}
    /\ rs = Idle
    /\ mark = "none" /\ report = "none"
    /\ inst = [t \in Targets |-> [exists |-> t = "own", db |-> 0, media |-> 0]]
    /\ reply = "none"

\* Every restore into a new instance names another one, which may exist.
BeginRestore(plan, source) ==
    /\ rs.at = "idle"
    /\ \E exists \in (IF plan.same THEN {FALSE} ELSE BOOLEAN) :
           inst' = [inst EXCEPT !["copy"] = [exists |-> exists, db |-> 0, media |-> 0]]
    /\ rs' = [at |-> "plan", plan |-> plan, source |-> source,
              todo |-> {"stop", "db"} \cup plan.extras \cup IF plan.save THEN {"save"} ELSE {},
              safety |-> 0,
              before |-> IF plan.same THEN DataOf("own") ELSE [db |-> 0, media |-> 0]]
    /\ mark' = "none" /\ report' = "none" /\ reply' = "none"
    /\ UNCHANGED backups

\* A status is marked first; the audit record of a step is written last.
\* Either may raise.
MarkPlanned ==
    /\ rs.at = "plan"
    /\ \/ mark' = "preflight" /\ Go("preflight")
       \/ mark' \in {"planned", "preflight"} /\ Go("fail")
    /\ UNCHANGED <<backups, report, inst, reply>>

PlanValid ==
    /\ rs.plan.same => rs.plan.save
    /\ ~rs.plan.same => rs.plan.overwrite \/ ~inst["copy"].exists
    /\ OnShelf(rs.source)
    /\ rs.plan.strict => shelf[rs.source].status = "verified"

Preflight ==
    /\ rs.at = "preflight"
    /\ \/ PlanValid /\ Go(IF rs.plan.dry THEN "report" ELSE "work")
       \/ Go("fail")
    /\ UNCHANGED <<backups, mark, report, inst, reply>>

\* Asked for in any mode, made only over an existing instance.
SkipPreRestoreBackup ==
    /\ rs.at = "work" /\ Stage = "save" /\ ~rs.plan.same
    /\ Advance
    /\ UNCHANGED <<backups, mark, report, inst, reply>>

CreatePreRestoreBackup ==
    /\ rs.at = "work" /\ Stage = "save" /\ rs.plan.same
    /\ mark' = "creating_pre_restore_backup"
    /\ \/ /\ Room /\ shelf' = New("pre_restore", "verified")
          /\ \E r \in {[rs EXCEPT !.todo = @ \ {"save"}], [rs EXCEPT !.at = "fail", !.todo = {}]} :
                 rs' = [r EXCEPT !.safety = Len(shelf')]
       \/ Go("fail") /\ UNCHANGED shelf
    /\ UNCHANGED <<doomed, report, inst, reply>>

\* Whether the instance is stopped is not looked at, and not modelled.
StopTarget ==
    /\ rs.at = "work" /\ Stage = "stop"
    /\ Advance \/ Go("fail")
    /\ UNCHANGED <<backups, mark, report, inst, reply>>

\* Half restored data comes from nowhere: MaxBackups + 1.
Half == MaxBackups + 1
FromSource(old) == {old, Half} \cup IF OnShelf(rs.source) THEN {rs.source} ELSE {}

RestoreDatabase ==
    /\ rs.at = "work" /\ Stage = "db"
    /\ mark' = "restoring_database"
    /\ \E d \in FromSource(inst[Target].db) :
           /\ inst' = [inst EXCEPT ![Target].db = d,
                                   ![Target].exists = @ \/ d # inst[Target].db]
           /\ (d = rs.source /\ OnShelf(d) /\ Advance) \/ Go("fail")
    /\ UNCHANGED <<backups, report, reply>>

\* Mutant of RestoreMedia: a failure is a warning.
RestoreSomeMedia ==
    /\ rs.at = "work" /\ Stage = "media"
    /\ mark' = "restoring_media" /\ Advance
    /\ \E m \in FromSource(inst[Target].media) : inst' = [inst EXCEPT ![Target].media = m]
    /\ UNCHANGED <<backups, report, reply>>

RestoreMedia ==
    /\ rs.at = "work" /\ Stage = "media"
    /\ mark' = "restoring_media"
    /\ \E m \in FromSource(inst[Target].media) :
           /\ inst' = [inst EXCEPT ![Target].media = m]
           /\ (m = rs.source /\ OnShelf(m) /\ Advance) \/ Go("fail")
    /\ UNCHANGED <<backups, report, reply>>

\* The environment's snapshot, which has no status of its own, migrations,
\* the Security Gate and healthchecks: each may fail, or say that it did.
Further == [migrations |-> "running_migrations", gate |-> "running_security_gate",
            health |-> "running_healthchecks"]
RunFurther ==
    /\ rs.at = "work" /\ Stage \in {"env"} \cup DOMAIN Further
    /\ mark' = IF Stage = "env" THEN mark ELSE Further[Stage]
    /\ Advance \/ Go("fail")
    /\ UNCHANGED <<backups, report, inst, reply>>

MarkRestored ==
    /\ rs.at = "work" /\ Stage = "finish"
    /\ mark' = "restored"
    /\ Go("report") \/ Go("fail")
    /\ UNCHANGED <<backups, report, inst, reply>>

\* The report is written in place.
WriteReport(status, otherwise, then) ==
    \/ report' = status /\ reply' = status /\ Go("idle")
    \/ report' \in {report, "torn"} /\ reply' = then /\ Go(otherwise)

ReturnReport ==
    /\ rs.at = "report"
    /\ WriteReport(IF rs.plan.dry THEN "planned" ELSE "restored", "fail", "none")
    /\ UNCHANGED <<backups, mark, inst>>

-----------------------------------------------------------------------------
(* The except branch.                                                      *)

\* If there is no operation, or no pre-restore backup, nothing is undone.
RollBack ==
    /\ rs.at = "fail"
    /\ IF rs.plan.undo /\ rs.safety # 0
       THEN \/ /\ OnShelf(rs.safety) /\ Go("undone")
               /\ inst' = [inst EXCEPT ![Target].db = rs.safety, ![Target].media = rs.safety]
            \/ /\ Go("failed")
               /\ \E d \in {inst[Target].db, Half, rs.safety}, m \in {inst[Target].media, Half} :
                      inst' = [inst EXCEPT ![Target].db = d, ![Target].media = m]
       ELSE Go("undone") /\ UNCHANGED inst
    /\ UNCHANGED <<backups, mark, report, reply>>

MarkRolledBack ==
    /\ rs.at = "undone"
    /\ mark' = "rolled_back"
    /\ Go("explain") \/ Go("failed")
    /\ UNCHANGED <<backups, report, inst, reply>>

\* A status that cannot be marked leaves run without a report.
MarkFailed ==
    /\ rs.at = "failed"
    /\ mark' = "failed"
    /\ \/ Go("explain") /\ UNCHANGED reply
       \/ Go("idle") /\ reply' = "raised"
    /\ UNCHANGED <<backups, report, inst>>

\* The report tells the status that was marked.
ReturnFailure ==
    /\ rs.at = "explain"
    /\ WriteReport(mark, "idle", "raised")
    /\ UNCHANGED <<backups, mark, inst>>

-----------------------------------------------------------------------------
\* The process dies; nothing takes a restore up again.  What it restored
\* over, and what the instance had, is remembered for WayBack only.
Kill ==
    /\ rs.at # "idle"
    /\ rs' = [Idle EXCEPT !.plan.same = rs.plan.same, !.safety = rs.safety, !.before = rs.before]
    /\ reply' = "none"
    /\ UNCHANGED <<backups, mark, report, inst>>

Shelving ==
    \/ \E c \in Made : CreateBackup(c)
    \/ \E i \in DOMAIN shelf : AdvanceBackup(i) \/ VerifyBackup(i)
    \/ PlanRetention
    \/ \E i \in doomed : PruneBackup(i)
    \/ Tick

Restoring ==
    \/ MarkPlanned \/ Preflight
    \/ SkipPreRestoreBackup \/ CreatePreRestoreBackup \/ StopTarget
    \/ RestoreDatabase \/ RestoreMedia \/ RunFurther
    \/ MarkRestored \/ ReturnReport
    \/ RollBack \/ MarkRolledBack \/ MarkFailed \/ ReturnFailure

Next ==
    \/ Shelving
    \/ \E plan \in Plans, source \in DOMAIN shelf : BeginRestore(plan, source)
    \/ Restoring
    \/ Kill

Spec == Init /\ [][Next]_vars

-----------------------------------------------------------------------------
(* Properties.                                                             *)

Marks == {"none", "planned", "preflight", "creating_pre_restore_backup", "restoring_database",
          "restoring_media", "running_migrations", "running_security_gate",
          "running_healthchecks", "restored", "rolled_back", "failed"}
Places == {"idle", "plan", "preflight", "work", "report", "fail", "undone", "failed", "explain"}

Backup == [class : Classes, status : Statuses \cup {"torn", "gone"}, age : Nat]

\* Every variable has its type.
RTypeOK ==
    /\ shelf \in Seq(Backup)
    /\ Len(shelf) <= MaxBackups
    /\ doomed \subseteq DOMAIN shelf
    /\ rs \in [at : Places, plan : AllPlans, source : 0..Len(shelf), todo : SUBSET Stages,
               safety : 0..Len(shelf), before : [db : 0..Half, media : 0..Half]]
    /\ mark \in Marks
    /\ report \in Marks \cup {"torn"}
    /\ inst \in [Targets -> [exists : BOOLEAN, db : 0..Half, media : 0..Half]]
    /\ reply \in Marks \cup {"raised"}

\* Once a restore over an existing instance has replaced any of its data, the
\* backup made before it is on the shelf: whatever was pruned meanwhile, by a
\* plan of whatever age, and also after the process was killed.  A policy that
\* keeps no pre-restore backup (a count of 0 is accepted) promises none.
WayBack ==
    Keep # 0 /\ rs.plan.same /\ DataOf("own") # rs.before =>
        rs.safety # 0 /\ OnShelf(rs.safety) /\ shelf[rs.safety].class = "pre_restore"

\* What run returns is what is marked, what the report says and how the data is:
\* restored, wholly from the backup asked for; planned, untouched; rolled back,
\* as the pre-restore backup has it if there was something to undo it with.
OutcomeIsTrue ==
    /\ reply \in {"restored", "planned", "rolled_back", "failed"} => report = reply
    /\ reply \in {"restored", "rolled_back", "failed"} => mark = reply
    /\ reply = "restored" =>
           /\ inst[Target].db = rs.source
           /\ "media" \in rs.plan.extras => inst[Target].media = rs.source
           /\ "media" \notin rs.plan.extras => inst[Target].media = rs.before.media
    /\ reply = "planned" => DataOf(Target) = rs.before
    /\ reply = "rolled_back" /\ rs.plan.undo /\ rs.safety # 0 =>
           DataOf(Target) = [db |-> rs.safety, media |-> rs.safety]

\* Not so in this code: a restore that was marked restored is not undone.  Its report, or
\* its audit record, may fail to be written.
RestoredIsKept == [][mark = "restored" /\ rs.at # "idle" => inst' = inst]_vars

\* Not so: a restore that failed before it replaced anything is not called
\* rolled back.
UntouchedIsNotRolledBack == reply = "rolled_back" => rs.safety # 0

\* Not so: a backup that was not verified does not displace one that was.
VerifiedOutlivesUnverified ==
    \A i \in doomed : shelf[i].status = "verified" /\ shelf[i].class \in Counted =>
        \E j \in Newer(i) : shelf[j].status = "verified"
=============================================================================
