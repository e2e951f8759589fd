--------------------------- MODULE RestoreProofs ---------------------------
(***************************************************************************)
(* Proofs about Restore: its types, and its two invariants, for any number *)
(* of backups, any retention windows and any plans.                        *)
(*                                                                         *)
(* A restore is followed by the stages it has left to do.  The way back    *)
(* holds because the backup made before the restore is the newest of its   *)
(* class until the next restore begins: a retention that keeps any of that *)
(* class keeps this one.                                                   *)
(***************************************************************************)
EXTENDS Restore, SequenceTheorems, FiniteSetTheorems, TLAPS

\* The backup made before the restore is not on a list of what to delete, and
\* no list made from now on will have it, if retention keeps any of its class.
SafetyKept ==
    Keep # 0 /\ rs.safety # 0 =>
        /\ rs.safety \in DOMAIN shelf /\ rs.safety \notin doomed
        /\ shelf[rs.safety].class = "pre_restore"
        /\ shelf[rs.safety].status \in {"verified", "quarantined", "torn"}
        /\ \A j \in DOMAIN shelf : j > rs.safety => shelf[j].class # "pre_restore"

\* What is left to do was asked for; what is done left its mark on the data.
InOrder ==
    /\ rs.at # "idle" => reply = "none"
    /\ rs.at \in {"plan", "preflight"} =>
           /\ DataOf(Target) = rs.before
           /\ "db" \in rs.todo /\ rs.plan.extras \subseteq rs.todo
           /\ rs.plan.save => "save" \in rs.todo
    /\ rs.at \in {"plan", "preflight", "work"} =>
           rs.todo \subseteq {"save", "stop", "db"} \cup rs.plan.extras
    /\ rs.at = "work" =>
           /\ ~rs.plan.dry
           /\ rs.plan.same /\ "save" \notin rs.todo => rs.safety # 0

Done ==
    /\ "db" \notin rs.todo => inst[Target].db = rs.source
    /\ "media" \in rs.plan.extras \ rs.todo => inst[Target].media = rs.source
    /\ "media" \notin rs.plan.extras => inst[Target].media = rs.before.media

Honest ==
    /\ rs.at = "work" => Done
    /\ rs.at = "report" /\ ~rs.plan.dry => mark = "restored" /\ rs.todo = {} /\ Done
    /\ rs.at = "report" /\ rs.plan.dry => DataOf(Target) = rs.before
    /\ rs.at = "explain" => mark \in {"rolled_back", "failed"}
    /\ rs.at = "undone" \/ (rs.at = "explain" /\ mark = "rolled_back") =>
           (rs.plan.undo /\ rs.safety # 0 =>
                DataOf(Target) = [db |-> rs.safety, media |-> rs.safety])

\* Nothing is replaced before there is a backup of it.
Covered == rs.plan.same /\ DataOf("own") # rs.before => rs.safety # 0

\* The inductive invariant
Story == InOrder /\ Honest /\ Covered /\ OutcomeIsTrue
RInv == RTypeOK /\ SafetyKept /\ Story

-----------------------------------------------------------------------------
LEMMA StagesAre ==
    Stages = {"save", "stop", "db", "media", "env", "migrations", "gate", "health"}
BY DEF Stages, Order

\* The stage that is next is the first of those left.
LEMMA StageIsFirst ==
    ASSUME rs.todo \subseteq Stages, rs.todo # {}
    PROVE  Stage \in rs.todo /\ \A o \in rs.todo : Order[Stage] <= Order[o]
<1>1. \E s \in rs.todo : \A o \in rs.todo : Order[s] <= Order[o]
  <2> DEFINE First(s) == s \in rs.todo /\ \A o \in rs.todo : Order[s] <= Order[o]
  <2>1. CASE "save" \in rs.todo
    BY <2>1, StagesAre DEF Order
  <2>2. CASE "save" \notin rs.todo /\ "stop" \in rs.todo
    BY <2>2, StagesAre DEF Order
  <2>3. CASE rs.todo \intersect {"save", "stop"} = {} /\ "db" \in rs.todo
    BY <2>3, StagesAre DEF Order
  <2>4. CASE rs.todo \intersect {"save", "stop", "db"} = {} /\ "media" \in rs.todo
    BY <2>4, StagesAre DEF Order
  <2>5. CASE rs.todo \intersect {"save", "stop", "db", "media"} = {}
    BY <2>5, StagesAre DEF Order
  <2> QED
    BY <2>1, <2>2, <2>3, <2>4, <2>5
<1> QED
  BY <1>1 DEF Stage

LEMMA StageIs ==
    ASSUME rs.todo \subseteq Stages
    PROVE  /\ Stage = "finish" => rs.todo = {}
           /\ \A s \in Stages : Stage = s => s \in rs.todo
           /\ Stage = "db" => "save" \notin rs.todo
           /\ Stage = "media" => "db" \notin rs.todo /\ "save" \notin rs.todo
<1>1. CASE rs.todo = {}
  BY <1>1, StagesAre DEF Stage
<1>2. CASE rs.todo # {}
  BY <1>2, StageIsFirst, StagesAre DEF Order
<1> QED
  BY <1>1, <1>2

-----------------------------------------------------------------------------
\* Types.
LEMMA TransitionTyped ==
    ASSUME NEW s \in Statuses
    PROVE  ValidTransitions[s] \subseteq Statuses
BY DEF ValidTransitions, Statuses

\* A record is rewritten.
LEMMA Rewritten ==
    ASSUME shelf \in Seq(Backup), NEW i \in DOMAIN shelf, NEW b \in Backup
    PROVE  /\ [shelf EXCEPT ![i] = b] \in Seq(Backup)
           /\ Len([shelf EXCEPT ![i] = b]) = Len(shelf)
           /\ shelf[i] \in Backup
BY ExceptSeq, LenProperties, ElementOfSeq

LEMMA Made1 ==
    ASSUME shelf \in Seq(Backup), NEW c \in Classes, NEW s \in Statuses
    PROVE  /\ New(c, s) \in Seq(Backup) /\ Len(New(c, s)) = Len(shelf) + 1
           /\ Len(shelf) \in Nat /\ DOMAIN New(c, s) = 1 .. Len(shelf) + 1
           /\ DOMAIN shelf = 1 .. Len(shelf)
           /\ \A i \in DOMAIN shelf : New(c, s)[i] = shelf[i]
           /\ New(c, s)[Len(shelf) + 1] = [class |-> c, status |-> s, age |-> 0]
<1>1. [class |-> c, status |-> s, age |-> 0] \in Backup
  BY DEF Backup
<1> QED
  BY <1>1, AppendProperties, LenProperties DEF New

LEMMA InitTyped == Init => RTypeOK
<1> SUFFICES ASSUME Init PROVE RTypeOK
  OBVIOUS
<1>1. shelf \in Seq(Backup) /\ Len(shelf) = 0
  BY EmptySeq DEF Init
<1>2. rs \in [at : Places, plan : AllPlans, source : 0..Len(shelf), todo : SUBSET Stages,
              safety : 0..Len(shelf), before : [db : 0..Half, media : 0..Half]]
  BY <1>1, RestoreAssumption DEF Init, Idle, NoPlan, Places, AllPlans, Half
<1>3. inst \in [Targets -> [exists : BOOLEAN, db : 0..Half, media : 0..Half]]
  BY RestoreAssumption DEF Init, Half
<1> QED
  BY <1>1, <1>2, <1>3, RestoreAssumption DEF Init, RTypeOK, Marks

\* The type of rs, its limits apart
Calls(n) == [at : Places, plan : AllPlans, source : 0..n, todo : SUBSET Stages,
             safety : 0..n, before : [db : 0..Half, media : 0..Half]]

LEMMA ShelvingTyped == RTypeOK /\ Shelving => RTypeOK'
<1> SUFFICES ASSUME RTypeOK, Shelving PROVE RTypeOK'
  OBVIOUS
<1>0. /\ UNCHANGED <<rs, mark, report, inst, reply>>
      /\ Len(shelf) \in Nat /\ DOMAIN shelf = 1 .. Len(shelf) /\ shelf \in Seq(Backup)
  BY LenProperties DEF Shelving, RTypeOK, CreateBackup, AdvanceBackup, VerifyBackup, PlanRetention, PruneBackup, Tick
<1>1. ASSUME shelf' \in Seq(Backup), Len(shelf') \in Len(shelf) .. MaxBackups, doomed' \subseteq DOMAIN shelf'
      PROVE  RTypeOK'
  <2>1. 0 .. Len(shelf) \subseteq 0 .. Len(shelf')
    BY <1>0, <1>1
  <2> QED
    BY <1>0, <1>1, <2>1 DEF RTypeOK
<1>2. ASSUME NEW c \in Made, CreateBackup(c) PROVE RTypeOK'
  <2>1. c \in Classes /\ "created" \in Statuses
    BY RestoreAssumption DEF Classes, Statuses
  <2>2. shelf' \in Seq(Backup) /\ Len(shelf') = Len(shelf) + 1 /\ DOMAIN shelf' = 1 .. Len(shelf) + 1
    BY <1>0, <1>2, <2>1, Made1 DEF CreateBackup
  <2>3. doomed' \subseteq DOMAIN shelf'
    BY <1>0, <1>2, <2>2 DEF CreateBackup, RTypeOK
  <2>4. Len(shelf) < MaxBackups
    BY <1>2 DEF CreateBackup, Room
  <2> QED
    BY <1>0, <1>1, <2>2, <2>3, <2>4, RestoreAssumption
<1>3. ASSUME NEW i \in DOMAIN shelf, NEW b \in Backup, shelf' = [shelf EXCEPT ![i] = b], doomed' \subseteq doomed
      PROVE  RTypeOK'
  <2>1. shelf' \in Seq(Backup) /\ Len(shelf') = Len(shelf) /\ DOMAIN shelf' = DOMAIN shelf
    BY <1>0, <1>3, Rewritten
  <2> QED
    BY <1>0, <1>1, <1>3, <2>1, RestoreAssumption DEF RTypeOK
<1>4. ASSUME NEW i \in DOMAIN shelf, AdvanceBackup(i) \/ VerifyBackup(i) PROVE RTypeOK'
  <2>1. PICK s \in Statuses \cup {"torn"} : shelf' = [shelf EXCEPT ![i].status = s]
    <3>1. CASE AdvanceBackup(i)
      BY <3>1, TransitionTyped DEF AdvanceBackup
    <3>2. CASE VerifyBackup(i)
      BY <3>2 DEF VerifyBackup, Statuses
    <3> QED
      BY <1>4, <3>1, <3>2
  <2>2. [shelf[i] EXCEPT !.status = s] \in Backup
    <3>1. shelf[i] \in Backup
      BY <1>0, ElementOfSeq
    <3> QED
      BY <3>1 DEF Backup
  <2>3. doomed' = doomed
    BY <1>4 DEF AdvanceBackup, VerifyBackup
  <2> QED
    BY <1>3, <2>1, <2>2, <2>3
<1>5. CASE PlanRetention
  BY <1>0, <1>1, <1>5, RestoreAssumption DEF PlanRetention, Index, RTypeOK
<1>6. ASSUME NEW i \in doomed, PruneBackup(i) PROVE RTypeOK'
  <2>1. i \in DOMAIN shelf
    BY DEF RTypeOK
  <2>2. [shelf[i] EXCEPT !.status = "gone", !.age = 0] \in Backup
    <3>1. shelf[i] \in Backup
      BY <1>0, <2>1, ElementOfSeq
    <3> QED
      BY <3>1 DEF Backup
  <2>3. shelf' = [shelf EXCEPT ![i] = [shelf[i] EXCEPT !.status = "gone", !.age = 0]]
    BY <1>0, <1>6, <2>1, ElementOfSeq DEF PruneBackup, Backup
  <2> QED
    BY <1>3, <1>6, <2>1, <2>2, <2>3 DEF PruneBackup
<1>7. CASE Tick
  <2>1. \A i \in 1 .. Len(shelf) : shelf[i] \in Backup
    BY <1>0, ElementOfSeq
  <2>2. shelf' = [i \in 1 .. Len(shelf) |->
                    IF Ages(shelf[i]) THEN [shelf[i] EXCEPT !.age = @ + 1] ELSE shelf[i]]
    BY <1>0, <1>7 DEF Tick
  <2>3. shelf' \in [1 .. Len(shelf) -> Backup]
    BY <2>1, <2>2 DEF Backup
  <2>4. shelf' \in Seq(Backup) /\ Len(shelf') = Len(shelf) /\ DOMAIN shelf' = DOMAIN shelf
    BY <1>0, <2>3
  <2>5. doomed' = doomed
    BY <1>7 DEF Tick
  <2> QED
    BY <1>0, <1>1, <2>4, <2>5, RestoreAssumption DEF RTypeOK
<1> QED
  BY <1>2, <1>4, <1>5, <1>6, <1>7 DEF Shelving

\* Only the save stage touches the shelf.
LEMMA RestoringTyped == RTypeOK /\ Restoring => RTypeOK'
<1> SUFFICES ASSUME RTypeOK, Restoring PROVE RTypeOK'
  OBVIOUS
<1> USE DEF RTypeOK
<1>0. /\ rs \in Calls(Len(shelf)) /\ Len(shelf) \in Nat /\ MaxBackups \in Nat
      /\ Target \in Targets
  BY LenProperties, RestoreAssumption DEF Calls, Target, TargetOf, Targets
<1>1. ASSUME NEW n \in Nat, rs \in Calls(n), NEW p \in Places, Go(p) PROVE rs' \in Calls(n)
  BY <1>1 DEF Go, Calls
<1>2. ASSUME NEW n \in Nat, rs \in Calls(n), Advance PROVE rs' \in Calls(n)
  BY <1>2 DEF Advance, Calls
<1>3. ASSUME UNCHANGED backups, rs' \in Calls(Len(shelf)), mark' \in Marks,
             report' \in Marks \cup {"torn"},
             inst' \in [Targets -> [exists : BOOLEAN, db : 0..Half, media : 0..Half]],
             reply' \in Marks \cup {"raised"}
      PROVE  RTypeOK'
  BY <1>3 DEF backups, Calls
<1>4. {"preflight", "planned", "creating_pre_restore_backup", "restoring_database", "restoring_media",
       "restored", "rolled_back", "failed", "none"} \subseteq Marks
      /\ {"preflight", "work", "report", "fail", "undone", "failed", "explain", "idle"} \subseteq Places
  BY DEF Marks, Places
<1>5. \A d \in 0 .. Half, m \in 0 .. Half :
          [inst EXCEPT ![Target].db = d, ![Target].media = m]
              \in [Targets -> [exists : BOOLEAN, db : 0..Half, media : 0..Half]]
  BY <1>0
<1>6. rs.source \in 0 .. Half /\ rs.safety \in 0 .. Half /\ Half \in 0 .. Half
  BY <1>0 DEF Half, Calls
<1>7. CASE MarkPlanned
  BY <1>0, <1>1, <1>3, <1>4, <1>7 DEF MarkPlanned
<1>8. CASE Preflight
  <2>1. \E p \in Places : Go(p)
    BY <1>4, <1>8 DEF Preflight
  <2> QED
    BY <1>0, <1>1, <1>3, <1>8, <2>1 DEF Preflight
<1>9. CASE SkipPreRestoreBackup \/ StopTarget
  BY <1>0, <1>1, <1>2, <1>3, <1>4, <1>9 DEF SkipPreRestoreBackup, StopTarget
<1>10. CASE CreatePreRestoreBackup
  <2>1. CASE Go("fail") /\ UNCHANGED shelf
    BY <1>0, <1>1, <1>3, <1>4, <1>10, <2>1 DEF CreatePreRestoreBackup, backups
  <2>2. CASE /\ Room /\ shelf' = New("pre_restore", "verified")
             /\ \E r \in {[rs EXCEPT !.todo = @ \ {"save"}], [rs EXCEPT !.at = "fail", !.todo = {}]} :
                    rs' = [r EXCEPT !.safety = Len(shelf')]
    <3>1. "pre_restore" \in Classes /\ "verified" \in Statuses
      BY DEF Classes, Statuses
    <3>2. /\ shelf' \in Seq(Backup) /\ Len(shelf') = Len(shelf) + 1
          /\ DOMAIN shelf' = 1 .. Len(shelf) + 1 /\ DOMAIN shelf = 1 .. Len(shelf)
      BY <2>2, <3>1, Made1
    <3>3. rs \in Calls(Len(shelf'))
      BY <1>0, <3>2 DEF Calls
    <3>4. rs' \in Calls(Len(shelf'))
      <4>1. PICK r \in {[rs EXCEPT !.todo = @ \ {"save"}], [rs EXCEPT !.at = "fail", !.todo = {}]} :
               rs' = [r EXCEPT !.safety = Len(shelf')]
        BY <2>2
      <4>2. r \in Calls(Len(shelf'))
        <5>1. CASE r = [rs EXCEPT !.todo = @ \ {"save"}]
          BY <3>3, <5>1 DEF Calls
        <5>2. CASE r = [rs EXCEPT !.at = "fail", !.todo = {}]
          BY <1>4, <3>3, <5>2 DEF Calls
        <5> QED
          BY <4>1, <5>1, <5>2
      <4>3. Len(shelf') \in 0 .. Len(shelf')
        BY <1>0, <3>2
      <4> QED
        BY <4>1, <4>2, <4>3 DEF Calls
    <3>5. Len(shelf') <= MaxBackups
      BY <1>0, <2>2, <3>2 DEF Room
    <3>6. doomed' \subseteq DOMAIN shelf'
      BY <1>10, <3>2 DEF CreatePreRestoreBackup
    <3> QED
      BY <1>4, <1>10, <3>2, <3>4, <3>5, <3>6 DEF CreatePreRestoreBackup, Calls
  <2> QED
    BY <1>10, <2>1, <2>2 DEF CreatePreRestoreBackup
<1>11. ASSUME NEW d, d \in FromSource(inst[Target].db) \/ d \in FromSource(inst[Target].media)
       PROVE  d \in 0 .. Half
  BY <1>0, <1>6, <1>11 DEF FromSource, Targets
<1>12. CASE RestoreDatabase
  <2>1. PICK d \in FromSource(inst[Target].db) :
           inst' = [inst EXCEPT ![Target].db = d, ![Target].exists = @ \/ d # inst[Target].db]
    BY <1>12 DEF RestoreDatabase
  <2>2. inst' \in [Targets -> [exists : BOOLEAN, db : 0..Half, media : 0..Half]]
    <3>1. PICK e \in BOOLEAN : e = (inst[Target].exists \/ d # inst[Target].db)
      OBVIOUS
    <3>2. inst' = [inst EXCEPT ![Target] = [inst[Target] EXCEPT !.db = d, !.exists = e]]
      BY <1>0, <2>1, <3>1
    <3>3. [inst[Target] EXCEPT !.db = d, !.exists = e] \in [exists : BOOLEAN, db : 0..Half, media : 0..Half]
      <4>1. inst[Target] \in [exists : BOOLEAN, db : 0..Half, media : 0..Half] /\ d \in 0 .. Half
        BY <1>0, <1>11
      <4> QED
        BY <3>1, <4>1
    <3> QED
      BY <1>0, <3>2, <3>3
  <2>3. rs' \in Calls(Len(shelf))
    BY <1>0, <1>1, <1>2, <1>4, <1>12 DEF RestoreDatabase
  <2> QED
    BY <1>3, <1>4, <1>12, <2>2, <2>3 DEF RestoreDatabase
<1>13. CASE RestoreMedia
  <2>1. PICK d \in FromSource(inst[Target].media) : inst' = [inst EXCEPT ![Target].media = d]
    BY <1>13 DEF RestoreMedia
  <2>2. inst' \in [Targets -> [exists : BOOLEAN, db : 0..Half, media : 0..Half]]
    BY <1>0, <1>11, <2>1
  <2>3. rs' \in Calls(Len(shelf))
    BY <1>0, <1>1, <1>2, <1>4, <1>13 DEF RestoreMedia
  <2> QED
    BY <1>3, <1>4, <1>13, <2>2, <2>3 DEF RestoreMedia
<1>14. CASE RunFurther
  <2>1. mark' \in Marks
    BY <1>14 DEF RunFurther, Further, Marks
  <2> QED
    BY <1>0, <1>1, <1>2, <1>3, <1>4, <1>14, <2>1 DEF RunFurther
<1>15. CASE MarkRestored
  BY <1>0, <1>1, <1>3, <1>4, <1>15 DEF MarkRestored
<1>16. ASSUME NEW st \in Marks, NEW o \in Places, NEW th \in Marks \cup {"raised"}, WriteReport(st, o, th)
       PROVE  /\ report' \in Marks \cup {"torn"} /\ reply' \in Marks \cup {"raised"}
              /\ rs' \in Calls(Len(shelf))
  BY <1>0, <1>1, <1>4, <1>16 DEF WriteReport
<1>17. CASE ReturnReport
  <2>1. (IF rs.plan.dry THEN "planned" ELSE "restored") \in Marks
    BY <1>4
  <2> QED
    BY <1>3, <1>4, <1>16, <1>17, <2>1 DEF ReturnReport
<1>18. CASE RollBack
  <2>1. rs' \in Calls(Len(shelf))
    BY <1>0, <1>1, <1>4, <1>18 DEF RollBack
  <2>2. inst' \in [Targets -> [exists : BOOLEAN, db : 0..Half, media : 0..Half]]
    <3>1. {inst[Target].db, Half, rs.safety} \subseteq 0 .. Half /\ {inst[Target].media, Half} \subseteq 0 .. Half
      BY <1>0, <1>6
    <3>2. \/ inst' = inst
          \/ \E d \in {inst[Target].db, Half, rs.safety}, m \in {inst[Target].media, Half, rs.safety} :
                 inst' = [inst EXCEPT ![Target].db = d, ![Target].media = m]
      BY <1>18 DEF RollBack
    <3>3. ASSUME NEW d \in {inst[Target].db, Half, rs.safety}, NEW m \in {inst[Target].media, Half, rs.safety}
          PROVE  d \in 0 .. Half /\ m \in 0 .. Half
      BY <1>6, <3>1
    <3>4. CASE inst' = inst
      BY <3>4
    <3>5. CASE inst' # inst
      <4>1. PICK d \in {inst[Target].db, Half, rs.safety}, m \in {inst[Target].media, Half, rs.safety} :
               inst' = [inst EXCEPT ![Target].db = d, ![Target].media = m]
        BY <3>2, <3>5
      <4>2. d \in 0 .. Half /\ m \in 0 .. Half
        BY <3>3
      <4> HIDE DEF RTypeOK
      <4> QED
        BY <1>5, <4>1, <4>2, Zenon
    <3> QED
      BY <3>4, <3>5
  <2> QED
    BY <1>3, <1>18, <2>1, <2>2 DEF RollBack
<1>19. CASE MarkRolledBack
  BY <1>0, <1>1, <1>3, <1>4, <1>19 DEF MarkRolledBack
<1>20. CASE MarkFailed
  BY <1>0, <1>1, <1>3, <1>4, <1>20 DEF MarkFailed
<1>21. CASE ReturnFailure
  BY <1>3, <1>4, <1>16, <1>21 DEF ReturnFailure
<1> QED
  BY <1>7, <1>8, <1>9, <1>10, <1>12, <1>13, <1>14, <1>15, <1>17, <1>18, <1>19, <1>20, <1>21 DEF Restoring

LEMMA NextTyped == RTypeOK /\ [Next]_vars => RTypeOK'
<1> SUFFICES ASSUME RTypeOK, [Next]_vars PROVE RTypeOK'
  OBVIOUS
<1>0. Len(shelf) \in Nat /\ DOMAIN shelf = 1 .. Len(shelf) /\ MaxBackups \in Nat
  BY LenProperties, RestoreAssumption DEF RTypeOK
<1>1. ASSUME NEW plan \in Plans, NEW source \in DOMAIN shelf, BeginRestore(plan, source) PROVE RTypeOK'
  <2>1. plan \in AllPlans
    BY RestoreAssumption
  <2>2. /\ {"stop", "db"} \cup plan.extras \cup (IF plan.save THEN {"save"} ELSE {}) \subseteq Stages
        /\ source \in 0 .. Len(shelf) /\ 0 \in 0 .. Len(shelf) /\ 0 \in 0 .. Half
    BY <1>0, <2>1, StagesAre DEF AllPlans, Optional, Half
  <2>3. rs' \in Calls(Len(shelf))
    <3>1. [db |-> 0, media |-> 0] \in [db : 0..Half, media : 0..Half]
          /\ DataOf("own") \in [db : 0..Half, media : 0..Half]
      BY <2>2 DEF DataOf, RTypeOK, Targets
    <3> QED
      BY <1>1, <2>1, <2>2, <3>1 DEF BeginRestore, Calls, Places
  <2>4. inst' \in [Targets -> [exists : BOOLEAN, db : 0..Half, media : 0..Half]]
    <3>1. PICK e \in BOOLEAN : inst' = [inst EXCEPT !["copy"] = [exists |-> e, db |-> 0, media |-> 0]]
      BY <1>1 DEF BeginRestore
    <3>2. [exists |-> e, db |-> 0, media |-> 0] \in [exists : BOOLEAN, db : 0..Half, media : 0..Half]
      BY <2>2
    <3> QED
      BY <3>1, <3>2 DEF RTypeOK
  <2> QED
    BY <1>1, <2>3, <2>4 DEF BeginRestore, RTypeOK, Calls, backups, Marks
<1>2. CASE Kill
  <2>1. rs' \in Calls(Len(shelf))
    <3>1. rs \in Calls(Len(shelf))
      BY <1>2 DEF RTypeOK, Calls
    <3>2. Idle \in Calls(Len(shelf))
      BY <1>0 DEF Idle, NoPlan, AllPlans, Places, Calls, Half
    <3>3. rs.plan.same \in BOOLEAN
      BY <3>1 DEF Calls, AllPlans
    <3>4. [Idle.plan EXCEPT !.same = rs.plan.same] \in AllPlans
      BY <3>2, <3>3 DEF Calls, AllPlans
    <3>5. rs' = [Idle EXCEPT !.plan = [Idle.plan EXCEPT !.same = rs.plan.same],
                             !.safety = rs.safety, !.before = rs.before]
      BY <1>2, <3>2 DEF Kill, Calls
    <3> QED
      BY <3>1, <3>2, <3>4, <3>5 DEF Calls
  <2> QED
    BY <1>2, <2>1 DEF Kill, RTypeOK, Calls, backups, Marks
<1>3. CASE UNCHANGED vars
  BY <1>3 DEF vars, backups, RTypeOK
<1> QED
  BY <1>1, <1>2, <1>3, ShelvingTyped, RestoringTyped DEF Next

\* The state keeps its type.
THEOREM RestoreTyped == Spec => []RTypeOK
BY InitTyped, NextTyped, PTL DEF Spec

-----------------------------------------------------------------------------
\* The backup made before the restore stays.
LEMMA NeverDoomed ==
    ASSUME RTypeOK, SafetyKept, Keep # 0, rs.safety # 0
    PROVE  rs.safety \in Index => Keeps(rs.safety)
<1>1. shelf[rs.safety].class = "pre_restore"
      /\ shelf[rs.safety].status \in {"verified", "quarantined", "torn"}
      /\ \A j \in DOMAIN shelf : j > rs.safety => shelf[j].class # "pre_restore"
  BY DEF SafetyKept
<1>2. Cardinality(Newer(rs.safety)) < Keep
  <2>1. Newer(rs.safety) = {}
    BY <1>1 DEF Newer, Index
  <2> QED
    BY <2>1, FS_EmptySet, RestoreAssumption
<1>3. CASE shelf[rs.safety].status = "quarantined"
  BY <1>3 DEF Keeps, DecidedByStatus
<1>4. CASE shelf[rs.safety].status = "verified"
  BY <1>1, <1>2, <1>4 DEF Keeps, DecidedByStatus, Counted
<1>5. CASE shelf[rs.safety].status = "torn"
  BY <1>5 DEF Index, Statuses
<1> QED
  BY <1>1, <1>3, <1>4, <1>5

\* Records keep their class; what is not verified, quarantined or torn now was
\* not before, the pruned ones apart.
LEMMA SafetyShelving ==
    ASSUME RTypeOK, SafetyKept, Shelving
    PROVE  SafetyKept'
<1> USE DEF RTypeOK
<1>0. /\ rs' = rs /\ Len(shelf) \in Nat /\ DOMAIN shelf = 1 .. Len(shelf)
      /\ \A i \in DOMAIN shelf : shelf[i] \in Backup
  <2>1. Len(shelf) \in Nat /\ DOMAIN shelf = 1 .. Len(shelf) /\ shelf \in Seq(Backup)
    BY LenProperties
  <2>2. \A i \in 1 .. Len(shelf) : shelf[i] \in Backup
    BY <2>1, ElementOfSeq
  <2> QED
    BY <2>1, <2>2
    DEF Shelving, CreateBackup, AdvanceBackup, VerifyBackup, PlanRetention, PruneBackup, Tick
<1> SUFFICES ASSUME Keep # 0, rs.safety # 0
             PROVE  /\ rs.safety \in DOMAIN shelf' /\ rs.safety \notin doomed'
                    /\ shelf'[rs.safety].class = "pre_restore"
                    /\ shelf'[rs.safety].status \in {"verified", "quarantined", "torn"}
                    /\ \A j \in DOMAIN shelf' : j > rs.safety => shelf'[j].class # "pre_restore"
  BY <1>0 DEF SafetyKept
<1>1. /\ rs.safety \in DOMAIN shelf /\ rs.safety \notin doomed
      /\ shelf[rs.safety].class = "pre_restore"
      /\ shelf[rs.safety].status \in {"verified", "quarantined", "torn"}
      /\ \A j \in DOMAIN shelf : j > rs.safety => shelf[j].class # "pre_restore"
  BY DEF SafetyKept
<1>2. ASSUME NEW c \in Made, CreateBackup(c)
      PROVE  /\ \A i \in DOMAIN shelf : shelf'[i] = shelf[i]
             /\ DOMAIN shelf \subseteq DOMAIN shelf' /\ doomed' = doomed
             /\ \A i \in DOMAIN shelf' \ DOMAIN shelf : shelf'[i].class # "pre_restore"
  <2>1. c \in Classes /\ c # "pre_restore" /\ "created" \in Statuses
    BY RestoreAssumption DEF Classes, Statuses
  <2>2. /\ DOMAIN shelf' = 1 .. Len(shelf) + 1
        /\ \A i \in DOMAIN shelf : shelf'[i] = shelf[i]
        /\ shelf'[Len(shelf) + 1] = [class |-> c, status |-> "created", age |-> 0]
    BY <1>2, <2>1, Made1 DEF CreateBackup
  <2> QED
    BY <1>0, <1>2, <2>1, <2>2 DEF CreateBackup
<1>3. ASSUME NEW i \in DOMAIN shelf, AdvanceBackup(i)
      PROVE  /\ DOMAIN shelf' = DOMAIN shelf /\ doomed' = doomed
             /\ \A j \in DOMAIN shelf : shelf'[j].class = shelf[j].class
             /\ shelf'[rs.safety].status \in {"verified", "quarantined", "torn"}
  <2>1. PICK s \in (ValidTransitions[shelf[i].status] \ {"verified", "expired", "deleted"}) \cup {"torn"} :
           shelf' = [shelf EXCEPT ![i].status = s]
    BY <1>3 DEF AdvanceBackup
  <2>2. shelf[i].status \in {"verified", "quarantined"} => s \in {"quarantined", "torn"}
    BY <2>1 DEF ValidTransitions, Statuses
  <2>3. shelf[i].status # "torn"
    BY <1>3 DEF AdvanceBackup, Statuses
  <2>4. \A j \in DOMAIN shelf : /\ shelf'[j].class = shelf[j].class
                                /\ shelf'[j].status = IF j = i THEN s ELSE shelf[j].status
    BY <1>0, <2>1 DEF Backup
  <2>5. shelf'[rs.safety].status \in {"verified", "quarantined", "torn"}
    BY <1>1, <2>2, <2>3, <2>4
  <2> QED
    BY <1>3, <2>1, <2>4, <2>5 DEF AdvanceBackup
<1>4. ASSUME NEW i \in DOMAIN shelf, VerifyBackup(i)
      PROVE  /\ DOMAIN shelf' = DOMAIN shelf /\ doomed' = doomed
             /\ \A j \in DOMAIN shelf : shelf'[j].class = shelf[j].class
             /\ shelf'[rs.safety].status \in {"verified", "quarantined", "torn"}
  BY <1>0, <1>1, <1>4 DEF VerifyBackup, Backup
<1>5. ASSUME PlanRetention PROVE rs.safety \notin doomed' /\ shelf' = shelf
  BY <1>5, NeverDoomed DEF PlanRetention
<1>6. ASSUME NEW i \in doomed, PruneBackup(i)
      PROVE  /\ DOMAIN shelf' = DOMAIN shelf /\ doomed' \subseteq doomed
             /\ \A j \in DOMAIN shelf : shelf'[j].class = shelf[j].class
             /\ shelf'[rs.safety].status = shelf[rs.safety].status
  BY <1>0, <1>1, <1>6 DEF PruneBackup, Backup
<1>7. ASSUME Tick
      PROVE  /\ DOMAIN shelf' = DOMAIN shelf /\ doomed' = doomed
             /\ \A j \in DOMAIN shelf : shelf'[j].class = shelf[j].class
             /\ shelf'[rs.safety].status = shelf[rs.safety].status
  BY <1>0, <1>1, <1>7 DEF Tick, Backup
<1>8. CASE \E c \in Made : CreateBackup(c)
  BY <1>1, <1>2, <1>8
<1>9. CASE \E i \in DOMAIN shelf : AdvanceBackup(i) \/ VerifyBackup(i)
  BY <1>1, <1>3, <1>4, <1>9
<1>10. CASE PlanRetention
  BY <1>1, <1>5, <1>10
<1>11. CASE \E i \in doomed : PruneBackup(i)
  BY <1>1, <1>6, <1>11
<1>12. CASE Tick
  BY <1>1, <1>7, <1>12
<1> QED
  BY <1>8, <1>9, <1>10, <1>11, <1>12 DEF Shelving

LEMMA SafetyNext ==
    ASSUME RTypeOK, SafetyKept, [Next]_vars
    PROVE  SafetyKept'
<1> USE DEF RTypeOK
<1>1. ASSUME rs'.safety = rs.safety, UNCHANGED backups PROVE SafetyKept'
  BY <1>1 DEF SafetyKept, backups
<1>2. ASSUME NEW p \in Places, Go(p) PROVE rs'.safety = rs.safety
  BY <1>2 DEF Go
<1>3. ASSUME Advance PROVE rs'.safety = rs.safety
  BY <1>3 DEF Advance
<1>4. {"preflight", "work", "report", "fail", "undone", "failed", "explain", "idle"} \subseteq Places
  BY DEF Places
<1>5. ASSUME \/ MarkPlanned \/ Preflight \/ SkipPreRestoreBackup \/ StopTarget
             \/ RestoreDatabase \/ RestoreMedia \/ RunFurther \/ MarkRestored \/ ReturnReport
             \/ RollBack \/ MarkRolledBack \/ MarkFailed \/ ReturnFailure
      PROVE  (\E p \in Places : Go(p)) \/ Advance
  BY <1>4, <1>5 DEF MarkPlanned, Preflight, SkipPreRestoreBackup, StopTarget, RestoreDatabase,
     RestoreMedia, RunFurther, MarkRestored, ReturnReport, RollBack, MarkRolledBack, MarkFailed,
     ReturnFailure, WriteReport
<1>6. ASSUME \/ MarkPlanned \/ Preflight \/ SkipPreRestoreBackup \/ StopTarget
             \/ RestoreDatabase \/ RestoreMedia \/ RunFurther \/ MarkRestored \/ ReturnReport
             \/ RollBack \/ MarkRolledBack \/ MarkFailed \/ ReturnFailure
      PROVE  UNCHANGED backups
  BY <1>6 DEF MarkPlanned, Preflight, SkipPreRestoreBackup, StopTarget, RestoreDatabase,
     RestoreMedia, RunFurther, MarkRestored, ReturnReport, RollBack, MarkRolledBack, MarkFailed,
     ReturnFailure
<1>7. CASE CreatePreRestoreBackup
  <2>1. CASE Go("fail") /\ UNCHANGED shelf
    BY <1>1, <1>2, <1>4, <1>7, <2>1 DEF CreatePreRestoreBackup, backups
  <2>2. CASE /\ shelf' = New("pre_restore", "verified")
             /\ \E r \in {[rs EXCEPT !.todo = @ \ {"save"}], [rs EXCEPT !.at = "fail", !.todo = {}]} :
                    rs' = [r EXCEPT !.safety = Len(shelf')]
    <3>1. "pre_restore" \in Classes /\ "verified" \in Statuses
      BY DEF Classes, Statuses
    <3>2. /\ Len(shelf') = Len(shelf) + 1 /\ DOMAIN shelf' = 1 .. Len(shelf) + 1
          /\ DOMAIN shelf = 1 .. Len(shelf) /\ Len(shelf) \in Nat
          /\ shelf'[Len(shelf) + 1] = [class |-> "pre_restore", status |-> "verified", age |-> 0]
      BY <2>2, <3>1, Made1
    <3>3. rs'.safety = Len(shelf) + 1
      BY <2>2, <3>2
    <3>4. rs'.safety \notin doomed'
      BY <1>7, <3>2, <3>3 DEF CreatePreRestoreBackup
    <3> QED
      BY <3>2, <3>3, <3>4 DEF SafetyKept
  <2> QED
    BY <1>7, <2>1, <2>2 DEF CreatePreRestoreBackup
<1>8. CASE \E plan \in Plans, source \in DOMAIN shelf : BeginRestore(plan, source)
  BY <1>8 DEF BeginRestore, SafetyKept
<1>9. CASE Kill
  BY <1>1, <1>9 DEF Kill, Idle
<1>10. CASE UNCHANGED vars
  BY <1>1, <1>10 DEF vars, backups
<1> QED
  BY <1>1, <1>2, <1>3, <1>5, <1>6, <1>7, <1>8, <1>9, <1>10, SafetyShelving DEF Next, Restoring

-----------------------------------------------------------------------------
\* A restore does its stages in order, and tells what it did.
LEMMA StoryInit == Init => Story
<1> SUFFICES ASSUME Init PROVE Story
  OBVIOUS
<1>1. rs = Idle /\ reply = "none" /\ DataOf("own") = [db |-> 0, media |-> 0]
  BY DEF Init, DataOf, Targets
<1> QED
  BY <1>1 DEF Story, InOrder, Honest, Covered, OutcomeIsTrue, Idle

LEMMA StoryStays ==
    ASSUME Story, UNCHANGED <<rs, mark, report, inst, reply>>
    PROVE  Story'
BY DEF Story, InOrder, Honest, Done, Covered, OutcomeIsTrue, DataOf, Target, TargetOf

\* What a step that goes somewhere, or on, leaves alone
Same == rs'.plan = rs.plan /\ rs'.source = rs.source /\ rs'.before = rs.before

LEMMA GoIs ==
    ASSUME RTypeOK, NEW p, Go(p)
    PROVE  /\ Same /\ rs'.safety = rs.safety /\ rs'.at = p
           /\ rs'.todo = IF p \in {"preflight", "work"} THEN rs.todo ELSE {}
           /\ Target' = Target
BY DEF RTypeOK, Go, Same, Target, TargetOf

LEMMA AdvanceIs ==
    ASSUME RTypeOK, Advance
    PROVE  /\ Same /\ rs'.safety = rs.safety /\ rs'.at = rs.at
           /\ rs'.todo = rs.todo \ {Stage}
           /\ Target' = Target
BY DEF RTypeOK, Advance, Same, Target, TargetOf

\* A failing step before the last ones has nothing to say yet.
LEMMA FailIsSilent ==
    ASSUME RTypeOK, Story, rs.at # "idle", Go("fail") \/ Go("failed"), reply' = "none",
           rs.plan.same /\ DataOf("own")' # rs.before => rs.safety # 0
    PROVE  Story'
<1>1. Same /\ rs'.safety = rs.safety /\ rs'.at \in {"fail", "failed"}
  BY GoIs
<1> QED
  BY <1>1 DEF Story, InOrder, Honest, Covered, OutcomeIsTrue, Same

LEMMA StoryRestoring ==
    ASSUME RTypeOK, Story, Restoring
    PROVE  Story'
<1> USE DEF RTypeOK
<1>0. /\ rs.at # "idle" /\ reply = "none"
      /\ rs.plan.same => rs.plan \in AllPlans
      /\ Target \in Targets /\ (rs.plan.same <=> Target = "own")
  BY DEF Restoring, MarkPlanned, Preflight, SkipPreRestoreBackup, CreatePreRestoreBackup, StopTarget,
     RestoreDatabase, RestoreMedia, RunFurther, MarkRestored, ReturnReport, RollBack, MarkRolledBack,
     MarkFailed, ReturnFailure, Story, InOrder, Target, TargetOf, Targets
<1>1. rs.plan.same /\ DataOf("own") # rs.before => rs.safety # 0
  BY DEF Story, Covered
<1>2. ASSUME Go("fail") \/ Go("failed"), reply' = reply, inst' = inst PROVE Story'
  BY <1>0, <1>1, <1>2, FailIsSilent DEF DataOf
<1>3. CASE MarkPlanned
  <2>1. CASE Go("preflight") /\ UNCHANGED <<inst, reply>> /\ rs.at = "plan"
    BY <1>0, <2>1, GoIs DEF Story, InOrder, Honest, Covered, OutcomeIsTrue, Same, DataOf
  <2> QED
    BY <1>2, <1>3, <2>1 DEF MarkPlanned
<1>4. CASE Preflight
  <2>1. CASE Go("fail")
    BY <1>2, <1>4, <2>1 DEF Preflight
  <2>2. CASE PlanValid /\ Go("report") /\ rs.plan.dry
    BY <1>0, <1>4, <2>2, GoIs DEF Preflight, Story, InOrder, Honest, Covered, OutcomeIsTrue, Same, DataOf
  <2>3. CASE PlanValid /\ Go("work") /\ ~rs.plan.dry
    <3>1. /\ Same /\ rs'.safety = rs.safety /\ rs'.at = "work" /\ rs'.todo = rs.todo /\ Target' = Target
          /\ UNCHANGED <<mark, report, inst, reply>> /\ rs.at = "preflight"
      BY <1>4, <2>3, GoIs DEF Preflight
    <3>2. rs.plan.same => "save" \in rs.todo
      BY <2>3, <3>1 DEF PlanValid, Story, InOrder
    <3>3. inst[Target].media = rs.before.media
      BY <3>1 DEF Story, InOrder, DataOf
    <3> QED
      BY <1>0, <2>3, <3>1, <3>2, <3>3 DEF Story, InOrder, Honest, Done, Covered, OutcomeIsTrue, Same, DataOf
  <2> QED
    BY <1>4, <2>1, <2>2, <2>3 DEF Preflight
<1>5. rs.at = "work" => Done /\ ~rs.plan.dry /\ rs.todo \subseteq {"save", "stop", "db"} \cup rs.plan.extras
                        /\ (rs.plan.same /\ "save" \notin rs.todo => rs.safety # 0)
  BY DEF Story, InOrder, Honest
<1>6. /\ Stage = "finish" => rs.todo = {}
      /\ Stage = "db" => "db" \in rs.todo /\ "save" \notin rs.todo
      /\ Stage = "media" => "media" \in rs.todo /\ "db" \notin rs.todo /\ "save" \notin rs.todo
  BY StageIs, StagesAre
\* A stage is done: what it has to have left is that much more of Done.
<1>7. ASSUME rs.at = "work", Same, rs'.at = "work", rs'.todo = rs.todo \ {Stage}, Target' = Target,
             reply' = reply, rs'.plan.same /\ "save" \notin rs'.todo => rs'.safety # 0,
             rs'.plan.same /\ DataOf("own")' # rs.before => rs'.safety # 0, Done'
      PROVE  Story'
  BY <1>0, <1>5, <1>7 DEF Story, InOrder, Honest, Covered, OutcomeIsTrue, Same
<1>8. ASSUME rs.at = "work", Same, rs'.todo = rs.todo \ {Stage}, Target' = Target, inst' = inst,
             Stage \notin {"db", "media"}
      PROVE  Done'
  BY <1>5, <1>8 DEF Done, Same
<1>9. CASE SkipPreRestoreBackup \/ StopTarget \/ RunFurther
  <2>1. rs.at = "work" /\ UNCHANGED <<inst, reply>> /\ Stage \notin {"db", "media"}
        /\ (Stage = "save" => ~rs.plan.same)
    BY <1>9 DEF SkipPreRestoreBackup, StopTarget, RunFurther, Further
  <2>2. CASE Go("fail")
    BY <1>2, <2>1, <2>2
  <2>3. CASE Advance
    <3>1. /\ Same /\ rs'.safety = rs.safety /\ rs'.at = "work" /\ rs'.todo = rs.todo \ {Stage}
          /\ Target' = Target
      BY <2>1, <2>3, AdvanceIs
    <3>2. Done'
      BY <1>8, <2>1, <3>1
    <3>3. rs'.plan.same /\ "save" \notin rs'.todo => rs'.safety # 0
      BY <1>5, <2>1, <3>1 DEF Same
    <3>4. rs'.plan.same /\ DataOf("own")' # rs.before => rs'.safety # 0
      BY <1>1, <2>1, <3>1 DEF Same, DataOf
    <3> QED
      BY <1>7, <2>1, <3>1, <3>2, <3>3, <3>4
  <2> QED
    BY <1>9, <2>2, <2>3 DEF SkipPreRestoreBackup, StopTarget, RunFurther
<1>10. CASE CreatePreRestoreBackup
  <2>0. rs.at = "work" /\ Stage = "save" /\ rs.plan.same /\ UNCHANGED <<inst, reply>>
    BY <1>10 DEF CreatePreRestoreBackup
  <2>1. CASE Go("fail")
    BY <1>2, <2>0, <2>1
  <2>2. ASSUME Room, shelf' = New("pre_restore", "verified"),
               NEW r \in {[rs EXCEPT !.todo = @ \ {"save"}], [rs EXCEPT !.at = "fail", !.todo = {}]},
               rs' = [r EXCEPT !.safety = Len(shelf')]
        PROVE  Story'
    <3>1. "pre_restore" \in Classes /\ "verified" \in Statuses
      BY DEF Classes, Statuses
    <3>2. Len(shelf') # 0
      <4>1. Len(New("pre_restore", "verified")) = Len(shelf) + 1 /\ Len(shelf) \in Nat
        BY <3>1, Made1
      <4> QED
        BY <2>2, <4>1
    <3>3. Same /\ rs'.safety # 0 /\ Target' = Target
      BY <2>2, <3>2 DEF Same, Target, TargetOf
    <3>4. CASE r = [rs EXCEPT !.at = "fail", !.todo = {}]
      <4>1. rs'.at = "fail"
        BY <2>2, <3>4
      <4> QED
        BY <1>0, <2>0, <3>3, <4>1 DEF Story, InOrder, Honest, Covered, OutcomeIsTrue, Same
    <3>5. CASE r = [rs EXCEPT !.todo = @ \ {"save"}]
      <4>1. rs'.at = "work" /\ rs'.todo = rs.todo \ {Stage}
        BY <2>0, <2>2, <3>5
      <4>2. Done'
        BY <1>8, <2>0, <3>3, <4>1
      <4> QED
        BY <1>7, <2>0, <3>3, <4>1, <4>2
    <3> QED
      BY <2>2, <3>4, <3>5
  <2> QED
    BY <1>10, <2>1, <2>2 DEF CreatePreRestoreBackup
<1>11. CASE RestoreDatabase
  <2>0. rs.at = "work" /\ Stage = "db" /\ reply' = reply
    BY <1>11 DEF RestoreDatabase
  <2>1. rs.plan.same => rs.safety # 0
    BY <1>5, <1>6, <2>0
  <2>2. CASE Go("fail")
    BY <1>0, <2>0, <2>1, <2>2, FailIsSilent
  <2>3. CASE Advance /\ inst'[Target].db = rs.source /\ inst'[Target].media = inst[Target].media
    <3>1. /\ Same /\ rs'.safety = rs.safety /\ rs'.at = "work" /\ rs'.todo = rs.todo \ {Stage}
          /\ Target' = Target
      BY <2>0, <2>3, AdvanceIs
    <3>2. Done'
      BY <1>5, <2>0, <2>3, <3>1 DEF Done, Same
    <3> QED
      BY <1>7, <2>0, <2>1, <3>1, <3>2 DEF Same
  <2>4. \/ Go("fail")
        \/ Advance /\ inst'[Target].db = rs.source /\ inst'[Target].media = inst[Target].media
    BY <1>0, <1>11 DEF RestoreDatabase
  <2> QED
    BY <2>2, <2>3, <2>4
<1>12. CASE RestoreMedia
  <2>0. rs.at = "work" /\ Stage = "media" /\ reply' = reply
    BY <1>12 DEF RestoreMedia
  <2>1. rs.plan.same => rs.safety # 0
    BY <1>5, <1>6, <2>0
  <2>2. CASE Go("fail")
    BY <1>0, <2>0, <2>1, <2>2, FailIsSilent
  <2>3. CASE Advance /\ inst'[Target].media = rs.source /\ inst'[Target].db = inst[Target].db
    <3>1. /\ Same /\ rs'.safety = rs.safety /\ rs'.at = "work" /\ rs'.todo = rs.todo \ {Stage}
          /\ Target' = Target
      BY <2>0, <2>3, AdvanceIs
    <3>2. "media" \in rs.plan.extras
      BY <1>5, <1>6, <2>0
    <3>3. Done'
      BY <1>5, <2>0, <2>3, <3>1, <3>2 DEF Done, Same
    <3> QED
      BY <1>7, <2>0, <2>1, <3>1, <3>3 DEF Same
  <2>4. \/ Go("fail")
        \/ Advance /\ inst'[Target].media = rs.source /\ inst'[Target].db = inst[Target].db
    BY <1>0, <1>12 DEF RestoreMedia
  <2> QED
    BY <2>2, <2>3, <2>4
<1>13. CASE MarkRestored
  <2>1. CASE Go("fail")
    BY <1>2, <1>13, <2>1 DEF MarkRestored
  <2>2. CASE Go("report")
    <3>1. /\ Same /\ rs'.safety = rs.safety /\ rs'.at = "report" /\ rs'.todo = {} /\ Target' = Target
          /\ mark' = "restored" /\ UNCHANGED <<inst, reply>> /\ rs.at = "work" /\ rs.todo = {}
      BY <1>6, <1>13, <2>2, GoIs DEF MarkRestored
    <3>2. Done'
      BY <1>5, <3>1 DEF Done, Same
    <3> QED
      BY <1>0, <1>1, <1>5, <3>1, <3>2 DEF Story, InOrder, Honest, Covered, OutcomeIsTrue, Same, DataOf
  <2> QED
    BY <1>13, <2>1, <2>2 DEF MarkRestored
<1>14. CASE ReturnReport
  <2>0. rs.at = "report" /\ UNCHANGED <<mark, inst>>
    BY <1>14 DEF ReturnReport
  <2>1. CASE Go("fail") /\ reply' = "none"
    BY <1>0, <1>2, <2>0, <2>1
  <2>2. CASE /\ Go("idle") /\ reply' = report'
             /\ report' = IF rs.plan.dry THEN "planned" ELSE "restored"
    <3>1. Same /\ rs'.safety = rs.safety /\ rs'.at = "idle" /\ Target' = Target
      BY <2>2, GoIs
    <3>2. CASE rs.plan.dry
      BY <1>1, <2>0, <2>2, <3>1, <3>2 DEF Story, InOrder, Honest, Covered, OutcomeIsTrue, Same, DataOf
    <3>3. CASE ~rs.plan.dry
      <4>1. mark = "restored" /\ rs.todo = {} /\ Done
        BY <2>0, <3>3 DEF Story, Honest
      <4>2. OutcomeIsTrue'
        BY <2>0, <2>2, <3>1, <3>3, <4>1 DEF OutcomeIsTrue, Same, Done
      <4> QED
        BY <1>1, <2>0, <3>1, <4>2 DEF Story, InOrder, Honest, Covered, Same, DataOf
    <3> QED
      BY <3>2, <3>3
  <2> QED
    BY <1>14, <2>1, <2>2 DEF ReturnReport, WriteReport
<1>15. CASE RollBack
  <2>0. rs.at = "fail" /\ reply' = reply
    BY <1>15 DEF RollBack
  <2>1. CASE ~(rs.plan.undo /\ rs.safety # 0)
    <3>1. Same /\ rs'.safety = rs.safety /\ rs'.at = "undone" /\ Target' = Target /\ inst' = inst
      BY <1>15, <2>1, GoIs DEF RollBack
    <3> QED
      BY <1>0, <1>1, <2>0, <2>1, <3>1 DEF Story, InOrder, Honest, Covered, OutcomeIsTrue, Same, DataOf
  <2>2. CASE rs.plan.undo /\ rs.safety # 0
    <3>1. CASE Go("failed")
      BY <1>0, <2>0, <2>2, <3>1, FailIsSilent
    <3>2. CASE Go("undone") /\ inst' = [inst EXCEPT ![Target].db = rs.safety, ![Target].media = rs.safety]
      <4>1. Same /\ rs'.safety = rs.safety /\ rs'.at = "undone" /\ Target' = Target
        BY <3>2, GoIs
      <4>2. DataOf(Target)' = [db |-> rs.safety, media |-> rs.safety]
        BY <1>0, <3>2, <4>1 DEF DataOf
      <4> QED
        BY <1>0, <2>0, <2>2, <4>1, <4>2 DEF Story, InOrder, Honest, Covered, OutcomeIsTrue, Same
    <3> QED
      BY <1>15, <2>2, <3>1, <3>2 DEF RollBack
  <2> QED
    BY <2>1, <2>2
<1>16. CASE MarkRolledBack
  <2>1. CASE Go("failed")
    BY <1>2, <1>16, <2>1 DEF MarkRolledBack
  <2>2. CASE Go("explain")
    <3>1. /\ Same /\ rs'.safety = rs.safety /\ rs'.at = "explain" /\ Target' = Target
          /\ UNCHANGED <<inst, reply>> /\ mark' = "rolled_back" /\ rs.at = "undone"
      BY <1>16, <2>2, GoIs DEF MarkRolledBack
    <3> QED
      BY <1>0, <1>1, <3>1 DEF Story, InOrder, Honest, Covered, OutcomeIsTrue, Same, DataOf
  <2> QED
    BY <1>16, <2>1, <2>2 DEF MarkRolledBack
<1>17. CASE MarkFailed
  <2>0. mark' = "failed" /\ inst' = inst
    BY <1>17 DEF MarkFailed
  <2>1. CASE Go("explain") /\ UNCHANGED reply
    <3>1. Same /\ rs'.safety = rs.safety /\ rs'.at = "explain" /\ Target' = Target
      BY <2>1, GoIs
    <3> QED
      BY <1>0, <1>1, <2>0, <2>1, <3>1 DEF Story, InOrder, Honest, Covered, OutcomeIsTrue, Same, DataOf
  <2>2. CASE Go("idle") /\ reply' = "raised"
    <3>1. Same /\ rs'.safety = rs.safety /\ rs'.at = "idle" /\ Target' = Target
      BY <2>2, GoIs
    <3> QED
      BY <1>0, <1>1, <2>0, <2>2, <3>1 DEF Story, InOrder, Honest, Covered, OutcomeIsTrue, Same, DataOf
  <2> QED
    BY <1>17, <2>1, <2>2 DEF MarkFailed
<1>18. CASE ReturnFailure
  <2>0. rs.at = "explain" /\ UNCHANGED <<mark, inst>> /\ Go("idle")
        /\ \/ report' = mark /\ reply' = mark
           \/ reply' = "raised"
    BY <1>18 DEF ReturnFailure, WriteReport
  <2>1. Same /\ rs'.safety = rs.safety /\ rs'.at = "idle" /\ Target' = Target
    BY <2>0, GoIs
  <2>2. mark \in {"rolled_back", "failed"}
        /\ (mark = "rolled_back" /\ rs.plan.undo /\ rs.safety # 0 =>
                DataOf(Target) = [db |-> rs.safety, media |-> rs.safety])
    BY <2>0 DEF Story, Honest
  <2>3. DataOf(Target)' = DataOf(Target)
    BY <2>0, <2>1 DEF DataOf
  <2>4. OutcomeIsTrue'
    BY <2>0, <2>1, <2>2, <2>3 DEF OutcomeIsTrue, Same
  <2> QED
    BY <1>1, <2>0, <2>1, <2>4 DEF Story, InOrder, Honest, Covered, Same, DataOf
<1> QED
  BY <1>3, <1>4, <1>9, <1>10, <1>11, <1>12, <1>13, <1>14, <1>15, <1>16, <1>17, <1>18 DEF Restoring

LEMMA StoryNext ==
    ASSUME RTypeOK, Story, [Next]_vars
    PROVE  Story'
<1>1. CASE Shelving
  <2>1. UNCHANGED <<rs, mark, report, inst, reply>>
    BY <1>1 DEF Shelving, CreateBackup, AdvanceBackup, VerifyBackup, PlanRetention, PruneBackup, Tick
  <2> QED
    BY <2>1, StoryStays
<1>2. ASSUME NEW plan \in Plans, NEW source \in DOMAIN shelf, BeginRestore(plan, source) PROVE Story'
  <2>1. /\ rs'.at = "plan" /\ rs'.plan = plan /\ reply' = "none"
        /\ rs'.todo = {"stop", "db"} \cup plan.extras \cup IF plan.save THEN {"save"} ELSE {}
        /\ rs'.before = IF plan.same THEN DataOf("own") ELSE [db |-> 0, media |-> 0]
    BY <1>2 DEF BeginRestore
  <2>2. DataOf("own")' = DataOf("own")
    BY <1>2 DEF BeginRestore, DataOf
  <2>3. DataOf("copy")' = [db |-> 0, media |-> 0]
    BY <1>2 DEF BeginRestore, DataOf, RTypeOK, Targets
  <2>4. DataOf(Target)' = rs'.before
    BY <2>1, <2>2, <2>3 DEF Target, TargetOf, DataOf
  <2> QED
    BY <2>1, <2>2, <2>4 DEF Story, InOrder, Honest, Covered, OutcomeIsTrue
<1>3. CASE Kill
  <2>1. /\ rs'.at = "idle" /\ rs'.plan.same = rs.plan.same /\ rs'.before = rs.before
        /\ rs'.safety = rs.safety /\ reply' = "none" /\ inst' = inst
    BY <1>3 DEF Kill, Idle, NoPlan
  <2> QED
    BY <2>1 DEF Story, InOrder, Honest, Covered, OutcomeIsTrue, DataOf
<1>4. CASE UNCHANGED vars
  BY <1>4, StoryStays DEF vars
<1> QED
  BY <1>1, <1>2, <1>3, <1>4, StoryRestoring DEF Next

-----------------------------------------------------------------------------
LEMMA RInvHolds == Spec => []RInv
<1>1. Init => RInv
  BY InitTyped, StoryInit DEF RInv, SafetyKept, Init, Idle
<1>2. RInv /\ [Next]_vars => RInv'
  BY NextTyped, SafetyNext, StoryNext DEF RInv
<1> QED
  BY <1>1, <1>2, PTL DEF Spec

\* The backup made before a restore stays as long as its data may be wanted.
THEOREM BackupStays == Spec => []WayBack
<1>1. RInv => WayBack
  <2> SUFFICES ASSUME RInv, Keep # 0, rs.plan.same, DataOf("own") # rs.before
               PROVE  rs.safety # 0 /\ OnShelf(rs.safety) /\ shelf[rs.safety].class = "pre_restore"
    BY DEF WayBack
  <2>1. rs.safety # 0
    BY DEF RInv, Story, Covered
  <2> QED
    BY <2>1 DEF RInv, SafetyKept, OnShelf
<1> QED
  BY <1>1, RInvHolds, PTL

\* What run returns is what is marked, reported and done.
THEOREM OutcomesTrue == Spec => []OutcomeIsTrue
BY RInvHolds, PTL DEF RInv, Story
=============================================================================
