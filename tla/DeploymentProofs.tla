-------------------------- MODULE DeploymentProofs --------------------------
(***************************************************************************)
(* Proofs about Deployment: its types, what a completed deployment left    *)
(* running, and that its Agent keeps InstanceContract, with what that is   *)
(* worth; for any deployments, capsules, builds and hosts, and any number  *)
(* of lost, late and repeated calls.                                       *)
(*                                                                         *)
(* The calls are served in their order, and the one that is waited for is  *)
(* the last of them: once it is answered, nothing is left that could undo  *)
(* what it did, from this deployment or from an earlier one.               *)
(***************************************************************************)
EXTENDS Deployment, SequenceTheorems, TLAPS

Builds0 == Builds \cup {None}
JobPlaces == {"idle", "configure", "settled", "rendered", "start", "load", "down", "up", "outcome"}
Answers == {"ok", "error", "refused", "failed", "blocked"}
Whys == {"none", "invalid", "unverified", "failed", "lost", "refused", "blocked"}

JobTypes == [at : JobPlaces, capsule : Capsules \cup {None}, host : Hosts \cup {None},
             gate : BOOLEAN, result : Results \cup {"none"}]
ManagerTypes == [at : Chain \cup {"idle", "failed"}, r : Deployments \cup {None},
                 attempt : 1..3, waiting : BOOLEAN, why : Whys]

JobSound ==
    /\ job \in JobTypes
    /\ job.at = "outcome" => job.result \in Results
    /\ job.at = "settled" => job.capsule \in Capsules

\* All types, those of the Agent's job among them
Typed ==
    /\ file \in [Capsules -> Builds0] /\ shelf \in [Capsules -> Builds0]
    /\ rendered \in [capsule : Capsules, host : Hosts \cup {None}] \cup {None}
    /\ loaded \in Builds \cup {Unloaded} /\ running \in Builds0
    /\ mgr \in ManagerTypes /\ (mgr.at # "idle" => mgr.r \in Deployments)
    /\ pending \in Seq(Calls)
    /\ JobSound

\* Only the last call is waited for, and it is the one of the current step.
Queued ==
    /\ mgr.waiting => mgr.at \in CallSteps /\ Now(mgr.at)
    /\ \A i \in 1 .. Len(pending) :
           /\ pending[i].live => i = Len(pending) /\ mgr.waiting /\ pending[i] = Body(mgr.at)
           /\ pending[i].op \in {"import", "configure", "start"} => pending[i].capsule \in Capsules
           /\ pending[i].op = "import" => pending[i].overwrite

\* The job is the call that is due.
Serving ==
    job.at # "idle" =>
        /\ pending # <<>> /\ pending[1].op \in {"configure", "start"}
        /\ job.capsule = pending[1].capsule /\ job.host = pending[1].host /\ job.gate = pending[1].gate
        /\ pending[1].op = "configure" => job.at \in {"configure", "settled", "rendered", "outcome"}
        /\ pending[1].op = "start" => job.at \in {"start", "load", "down", "up", "outcome"}

\* What the job has done so far
Configured(c, h) == rendered = [capsule |-> c, host |-> h]
Work ==
    /\ job.at = "rendered" => Configured(job.capsule, job.host)
    /\ job.at = "load" /\ job.gate /\ rendered # None => shelf[job.capsule] \in Signed
    /\ job.at \in {"down", "up"} =>
           /\ shelf[job.capsule] # None => loaded = shelf[job.capsule]
           /\ job.gate /\ rendered # None => loaded \in Signed
    /\ job.at = "outcome" /\ job.result = "ok" =>
           IF pending[1].op = "configure" THEN Configured(job.capsule, job.host)
           ELSE /\ shelf[job.capsule] # None => running = shelf[job.capsule]
                /\ job.gate => running \in Signed

Plain == mgr.at # "idle" /\ ~mgr.r.plan
Whole == Plain /\ ~mgr.r.only
Late == {"instance", "profile", "check", "start", "completed"}
Given == mgr.r.copy \/ ~mgr.r.droplet

\* The file that an import will read
Filed ==
    /\ mgr.at # "idle" /\ ~mgr.r.droplet => file[mgr.r.capsule] = mgr.r.build
    /\ Whole /\ mgr.at \in {"runtime", "import"} /\ Given => file[mgr.r.capsule] = mgr.r.build

\* What a deployment has reached, and no call in the queue will undo
Held ==
    Whole /\ mgr.at \in Late =>
        /\ shelf[mgr.r.capsule] # None /\ (Given => shelf[mgr.r.capsule] = mgr.r.build)
        /\ mgr.at \in {"check", "start", "completed"} => Configured(mgr.r.capsule, mgr.r.host)
        /\ \A i \in 1 .. Len(pending) : mgr.at \in CallSteps /\ pending[i].op = Body(mgr.at).op
        /\ Skipped(mgr.r, mgr.at) => pending = <<>>

Ended ==
    Plain /\ mgr.at = "completed" /\ mgr.r.start =>
        /\ pending = <<>>
        /\ Whole => running = shelf[mgr.r.capsule]
        /\ mgr.r.gate => running \in Signed

\* The inductive invariant
DInv == Typed /\ Queued /\ Serving /\ Work /\ Filed /\ Held /\ Ended

-----------------------------------------------------------------------------
LEMMA Asked ==
    ASSUME NEW r \in Deployments
    PROVE  /\ r.capsule \in Capsules /\ r.build \in Builds /\ r.host \in Hosts
           /\ r.droplet \in BOOLEAN /\ r.temporary \in BOOLEAN /\ r.verify \in BOOLEAN /\ r.gate \in BOOLEAN
           /\ r # None /\ r.capsule # None /\ r.build # None
BY DeploymentAssumption

LEMMA Queue ==
    ASSUME Typed
    PROVE  /\ Len(pending) \in Nat /\ DOMAIN pending = 1 .. Len(pending)
           /\ \A i \in 1 .. Len(pending) : pending[i] \in Calls
           /\ pending # <<>> => Len(pending) >= 1 /\ Head(pending) = pending[1] /\ Head(pending) \in Calls
<1>1. pending \in Seq(Calls)
  BY DEF Typed
<1>2. Len(pending) \in Nat /\ DOMAIN pending = 1 .. Len(pending)
  BY <1>1, LenProperties
<1>3. \A i \in 1 .. Len(pending) : pending[i] \in Calls
  BY <1>1, ElementOfSeq
<1>4. pending # <<>> => Len(pending) \in Nat \ {0}
  BY <1>1, EmptySeq
<1> QED
  BY <1>1, <1>2, <1>3, <1>4, HeadTailProperties

\* What becomes of the queue when it is put to, forgotten or served
LEMMA QueueAppend ==
    ASSUME Typed, NEW c \in Calls
    PROVE  /\ Append(pending, c) \in Seq(Calls)
           /\ Len(Append(pending, c)) = Len(pending) + 1
           /\ \A i \in 1 .. Len(pending) : Append(pending, c)[i] = pending[i]
           /\ Append(pending, c)[Len(pending) + 1] = c
           /\ Append(pending, c) # <<>>
BY AppendProperties DEF Typed

LEMMA QueueForgotten ==
    ASSUME Typed
    PROVE  /\ Forgotten \in Seq(Calls) /\ Len(Forgotten) = Len(pending)
           /\ \A i \in 1 .. Len(pending) : Forgotten[i] = [pending[i] EXCEPT !.live = FALSE]
           /\ pending # <<>> => Forgotten # <<>>
<1>1. Forgotten \in [1 .. Len(pending) -> Calls]
  BY Queue DEF Forgotten, Calls
<1>2. Forgotten \in Seq(Calls) /\ Len(Forgotten) = Len(pending)
  BY <1>1, Queue
<1>3. pending # <<>> => Forgotten # <<>>
  BY <1>2, Queue, EmptySeq
<1> QED
  BY <1>2, <1>3, Queue DEF Forgotten

LEMMA QueueTail ==
    ASSUME Typed, pending # <<>>
    PROVE  /\ Tail(pending) \in Seq(Calls) /\ Len(Tail(pending)) = Len(pending) - 1
           /\ \A i \in 1 .. Len(Tail(pending)) : Tail(pending)[i] = pending[i + 1]
           /\ Len(pending) = 1 => Tail(pending) = <<>>
<1>1. /\ Tail(pending) \in Seq(Calls) /\ Len(Tail(pending)) = Len(pending) - 1
      /\ \A i \in 1 .. Len(Tail(pending)) : Tail(pending)[i] = pending[i + 1]
  BY HeadTailProperties DEF Typed
<1>2. Len(pending) = 1 => Tail(pending) = <<>>
  <2>1. Tail(pending) # <<>> => Len(Tail(pending)) \in Nat \ {0}
    BY <1>1, EmptySeq
  <2> QED
    BY <1>1, <2>1
<1> QED
  BY <1>1, <1>2

LEMMA BodyTyped ==
    ASSUME Typed, mgr.at \in CallSteps
    PROVE  /\ Body(mgr.at) \in Calls /\ Body(mgr.at).live
           /\ Body(mgr.at).op \in {"import", "configure", "start"} => Body(mgr.at).capsule = mgr.r.capsule
           /\ Body(mgr.at).op = "import" => Body(mgr.at).overwrite
           /\ Body(mgr.at).op = "configure" => Body(mgr.at).host = mgr.r.host
           /\ Body(mgr.at).op = "start" => Body(mgr.at).gate = mgr.r.gate
           /\ Body(mgr.at).op =
                 CASE mgr.at = "import" -> "import"
                   [] mgr.at = "instance" -> IF mgr.r.update THEN "update" ELSE "configure"
                   [] mgr.at = "profile" -> "configure"
                   [] mgr.at = "check" -> "check"
                   [] OTHER -> "start"
<1>1. mgr.r \in Deployments
  BY DEF Typed, CallSteps
<1> QED
  BY <1>1, Asked DEF Body, ImportCall, CreateCall, UpdateCall, ProfileCall, CheckCall, StartCall,
     Call, Calls, CallSteps

-----------------------------------------------------------------------------
\* Types.
LEMMA InitTyped == DInit => Typed
<1> SUFFICES ASSUME DInit PROVE Typed
  OBVIOUS
<1>1. pending \in Seq(Calls)
  BY EmptySeq DEF DInit
<1>2. mgr \in ManagerTypes
  BY DEF DInit, Resting, ManagerTypes, Whys
<1>3. job \in JobTypes
  BY DEF DInit, Init, Idle, JobTypes, JobPlaces
<1> QED
  BY <1>1, <1>2, <1>3 DEF DInit, Init, Typed, JobSound, Resting, Idle, Builds0

\* Where a step leaves the Manager
LEMMA MgrGoes ==
    ASSUME Typed, mgr.at # "idle",
           \/ \E s \in Chain : Enter(s)
           \/ \E w \in Whys : Fail(w)
           \/ Retry
           \/ mgr' = Resting
           \/ mgr' = mgr
           \/ mgr' = [mgr EXCEPT !.waiting = TRUE]
    PROVE  mgr' \in ManagerTypes /\ (mgr'.at # "idle" => mgr'.r \in Deployments)
<1>0. mgr \in ManagerTypes /\ mgr.r \in Deployments
  BY DEF Typed
<1>1. CASE Retry
  <2>1. mgr.attempt \in Nat /\ mgr.attempt < 3
    BY <1>0, <1>1 DEF Retry, Attempts, ManagerTypes
  <2>2. mgr' = [mgr EXCEPT !.attempt = mgr.attempt + 1, !.waiting = FALSE] /\ mgr.attempt + 1 \in 1 .. 3
    BY <1>0, <1>1, <2>1 DEF Retry, ManagerTypes
  <2> QED
    BY <1>0, <2>2 DEF ManagerTypes
<1>2. CASE \E s \in Chain : Enter(s)
  <2>1. PICK s \in Chain : mgr' = [mgr EXCEPT !.at = s, !.attempt = 1, !.waiting = FALSE]
    BY <1>2 DEF Enter
  <2>2. mgr' \in ManagerTypes
    <3>1. 1 \in 1 .. 3 /\ s \in Chain \cup {"idle", "failed"}
      OBVIOUS
    <3> HIDE DEF Chain
    <3> DEFINE m1 == [mgr EXCEPT !.at = s]
               m2 == [m1 EXCEPT !.attempt = 1]
    <3>2. m1 \in ManagerTypes
      BY <1>0, <3>1 DEF ManagerTypes
    <3>3. m2 \in ManagerTypes
      BY <3>1, <3>2 DEF ManagerTypes
    <3>4. mgr' = [m2 EXCEPT !.waiting = FALSE]
      BY <2>1
    <3> QED
      BY <3>3, <3>4 DEF ManagerTypes
  <2>3. mgr'.r = mgr.r
    BY <1>0, <2>1 DEF ManagerTypes
  <2> QED
    BY <1>0, <2>2, <2>3
<1>3. CASE \E w \in Whys : Fail(w)
  BY <1>0, <1>3 DEF Fail, ManagerTypes
<1>4. CASE mgr' = Resting
  BY <1>4 DEF Resting, ManagerTypes, Whys
<1>5. CASE mgr' = mgr \/ mgr' = [mgr EXCEPT !.waiting = TRUE]
  BY <1>0, <1>5 DEF ManagerTypes
<1> QED
  BY <1>1, <1>2, <1>3, <1>4, <1>5

LEMMA PassEnters ==
    ASSUME mgr.at \in DOMAIN After, Pass
    PROVE  (\E s \in Chain : Enter(s)) /\ Enter(After[mgr.at])
BY DEF Pass, After, Chain

LEMMA AgentTyped ==
    ASSUME Typed, \/ Settle \/ Render \/ Complete \/ Gate \/ Load \/ Down \/ Up \/ Answer \/ Kill
                  \/ \E e \in Errors : Refuse(e)
                  \/ \E c \in Capsules, b \in Builds0 : Shelve(c, b)
                  \/ UNCHANGED agent
                  \/ \E c \in Calls : c.op \in {"configure", "start"} /\ Begin(c.op, c.capsule, c.host, c.gate)
    PROVE  /\ shelf' \in [Capsules -> Builds0]
           /\ rendered' \in [capsule : Capsules, host : Hosts \cup {None}] \cup {None}
           /\ loaded' \in Builds \cup {Unloaded} /\ running' \in Builds0
           /\ JobSound'
<1> USE DEF Typed, JobSound
<1>0. job \in JobTypes
  OBVIOUS
<1>1. ASSUME NEW p \in JobPlaces, Go(p) PROVE job' \in JobTypes /\ job'.at = p
  BY <1>0, <1>1 DEF Go, JobTypes
<1>2. ASSUME NEW r \in Results, Finish(r) PROVE job' \in JobTypes /\ job'.result \in Results /\ job'.at = "outcome"
  BY <1>0, <1>2 DEF Finish, JobTypes, JobPlaces
<1>3. /\ {"idle", "configure", "settled", "rendered", "start", "load", "down", "up"} \subseteq JobPlaces
      /\ {"ok", "failed", "blocked"} = Results
  BY DEF JobPlaces, Results
<1>4. Idle \in JobTypes /\ Idle.at = "idle"
  BY DEF Idle, JobTypes, JobPlaces
<1>5. Meant \subseteq Capsules \cup {None}
  BY DEF Meant, JobTypes
<1>6. CASE Settle
  <2>1. ASSUME NEW c \in Meant \ {None}, job' = [job EXCEPT !.at = "settled", !.capsule = c]
        PROVE  job' \in JobTypes /\ job'.at = "settled" /\ job'.capsule \in Capsules
    BY <1>0, <1>5, <2>1 DEF JobTypes, JobPlaces
  <2> QED
    BY <1>2, <1>3, <1>6, <2>1 DEF Settle
<1>7. CASE Render
  <2>1. CASE rendered' = [capsule |-> job.capsule, host |-> job.host] /\ Go("rendered")
    <3>1. job.capsule \in Capsules
      BY <1>7 DEF Render
    <3>2. rendered' \in [capsule : Capsules, host : Hosts \cup {None}]
      BY <1>0, <2>1, <3>1 DEF JobTypes
    <3>3. job' \in JobTypes /\ job'.at = "rendered"
      BY <1>1, <2>1 DEF JobPlaces
    <3> QED
      BY <1>7, <3>2, <3>3 DEF Render
  <2> QED
    BY <1>1, <1>2, <1>3, <1>7, <2>1 DEF Render
<1>8. CASE Complete
  BY <1>2, <1>3, <1>8 DEF Complete
<1>9. CASE Gate
  BY <1>1, <1>2, <1>3, <1>9 DEF Gate
<1>10. CASE Load
  <2>1. loaded' \in Builds \cup {Unloaded}
    BY <1>5, <1>10 DEF Load, Builds0
  <2> QED
    BY <1>1, <1>2, <1>3, <1>10, <2>1 DEF Load
<1>11. CASE Down
  BY <1>1, <1>2, <1>3, <1>11 DEF Down, Builds0
<1>12. CASE Up
  BY <1>2, <1>3, <1>12 DEF Up, Builds0
<1>13. CASE Answer \/ Kill
  BY <1>4, <1>13 DEF Answer, Kill
<1>14. CASE (\E e \in Errors : Refuse(e)) \/ UNCHANGED agent
  BY <1>14 DEF Refuse, agent, contract
<1>15. CASE \E c \in Capsules, b \in Builds0 : Shelve(c, b)
  BY <1>15 DEF Shelve
<1>16. CASE \E c \in Calls : c.op \in {"configure", "start"} /\ Begin(c.op, c.capsule, c.host, c.gate)
  <2>1. job' \in JobTypes /\ job'.at \notin {"outcome", "settled"}
    BY <1>4, <1>16 DEF Begin, Calls, JobTypes, JobPlaces, Idle
  <2> QED
    BY <1>16, <2>1 DEF Begin
<1> QED
  BY <1>6, <1>7, <1>8, <1>9, <1>10, <1>11, <1>12, <1>13, <1>14, <1>15, <1>16

-----------------------------------------------------------------------------
\* What each step does with the Manager, the queue and the files
LEMMA Quiet ==
    ASSUME Typed, Queued, ~mgr.waiting
    PROVE  \A i \in 1 .. Len(pending) : ~pending[i].live
BY DEF Queued

LEMMA LiveIsLast ==
    ASSUME Typed, Queued, pending # <<>>, Head(pending).live
    PROVE  /\ mgr.waiting /\ mgr.at \in CallSteps /\ Now(mgr.at) /\ Head(pending) = Body(mgr.at)
           /\ Tail(pending) = <<>>
<1>1. Len(pending) >= 1 /\ Head(pending) = pending[1] /\ Len(pending) \in Nat
  BY Queue
<1>2. Len(pending) = 1 /\ mgr.waiting /\ pending[1] = Body(mgr.at)
  <2>1. 1 \in 1 .. Len(pending) /\ pending[1].live
    BY <1>1
  <2> QED
    BY <2>1 DEF Queued
<1> QED
  BY <1>1, <1>2, QueueTail DEF Queued

\* A step that the Manager takes on its own
LEMMA OwnMove ==
    ASSUME Typed, Queued,
           Validate \/ Skip \/ Verify \/ Copy \/ PrepareRuntime \/ Unprepared
    PROVE  /\ mgr.at # "idle" /\ ~mgr.waiting /\ UNCHANGED <<agent, pending, begun>>
           /\ \/ \E s \in Chain : Enter(s)
              \/ \E w \in Whys \ {"refused"} : Fail(w)
           /\ file' \in [Capsules -> Builds0]
<1>0. mgr.waiting => mgr.at \in CallSteps /\ Now(mgr.at)
  BY DEF Queued
<1>1. {"invalid", "unverified", "failed"} \subseteq Whys \ {"refused"} /\ {"start", "verify"} \subseteq Chain
  BY DEF Whys, Chain, After
<1>2. CASE Validate
  <2>1. mgr.at = "validate" /\ "validate" \in DOMAIN After
    BY <1>2 DEF Validate, After
  <2>2. Enter("start") \/ Pass \/ Fail("invalid")
    BY <1>2 DEF Validate
  <2> QED
    BY <1>0, <1>1, <1>2, <2>1, <2>2, PassEnters DEF Validate, CallSteps, Typed
<1>3. CASE Skip
  <2>1. mgr.at \in DOMAIN After
    BY <1>3 DEF Skip, Skipped, Planned, After, CallSteps
  <2>2. ~Now(mgr.at)
    BY <1>3 DEF Skip, Now
  <2> QED
    BY <1>0, <1>3, <2>1, <2>2, PassEnters DEF Skip, After, Typed
<1>4. CASE Verify
  BY <1>0, <1>1, <1>4, PassEnters DEF Verify, Now, CallSteps, Typed, After
<1>5. CASE Copy
  <2>1. mgr.at = "copy" /\ mgr.r \in Deployments
    BY <1>5 DEF Copy, Now, Typed
  <2>2. file' \in [Capsules -> Builds0]
    BY <1>5, <2>1, Asked DEF Copy, Typed, Builds0
  <2>3. Pass \/ Fail("failed")
    BY <1>5 DEF Copy
  <2> QED
    BY <1>0, <1>1, <1>5, <2>1, <2>2, <2>3, PassEnters DEF Copy, CallSteps, After
<1>6. CASE PrepareRuntime
  BY <1>0, <1>1, <1>6, PassEnters DEF PrepareRuntime, Now, CallSteps, Typed, After
<1>7. CASE Unprepared
  BY <1>1, <1>7 DEF Unprepared, Now, Typed
<1> QED
  BY <1>2, <1>3, <1>4, <1>5, <1>6, <1>7

\* The Manager stops waiting: for the call it lost, or because it is killed.
LEMMA Forgets ==
    ASSUME Typed, Queued, Lose \/ KillManager
    PROVE  /\ mgr.at # "idle" /\ pending' = Forgotten /\ UNCHANGED <<agent, file, begun>>
           /\ Retry \/ Fail("lost") \/ mgr' = Resting
BY DEF Lose, KillManager, CallSteps

\* An answer is delivered.
LEMMA Delivers ==
    ASSUME Typed, Queued, pending # <<>>, NEW result \in Answers, Deliver(result)
    PROVE  /\ pending' = Tail(pending)
           /\ \/ ~Head(pending).live /\ mgr' = mgr
              \/ /\ Head(pending) = Body(mgr.at) /\ Now(mgr.at) /\ mgr.at \in CallSteps
                 /\ pending' = <<>>
                 /\ \/ result = "ok" /\ Enter(After[mgr.at])
                    \/ result = "error" /\ (Retry \/ Fail("failed"))
                    \/ result \notin {"ok", "error"} /\ Fail(result)
<1>1. CASE Head(pending).live
  <2>1. Heard(result)
    BY <1>1 DEF Deliver
  <2>2. mgr.at \in DOMAIN After
    BY <1>1, LiveIsLast DEF CallSteps, After
  <2> QED
    BY <1>1, <2>1, <2>2, LiveIsLast, PassEnters DEF Deliver, Heard
<1>2. CASE ~Head(pending).live
  BY <1>2 DEF Deliver
<1> QED
  BY <1>1, <1>2

\* What the Agent does with the call that is due
LEMMA Serves ==
    ASSUME Typed, Queued, AgentStep, job.at # "idle" => pending # <<>>
    PROVE  /\ pending # <<>>
           /\ UNCHANGED <<file, begun>>
           /\ \/ \E result \in Answers :
                    /\ Deliver(result)
                    /\ result = "ok" => \/ ServeImport /\ shelf'[Head(pending).capsule] = file[Head(pending).capsule]
                                           /\ file[Head(pending).capsule] # None
                                        \/ ServeCheck
                                        \/ AnswerCall /\ job.result = "ok"
              \/ UNCHANGED <<mgr, pending>> /\ (ServeCall \/ Serve)
<1>1. Answers = {"refused", "error", "ok", "failed", "blocked"}
  BY DEF Answers
<1>2. CASE Reject
  BY <1>1, <1>2 DEF Reject, Due, Turn, Rejected, agent
<1>3. CASE TurnAway
  BY <1>1, <1>3 DEF TurnAway, Due
<1>4. CASE ServeImport
  <2>1. Head(pending).overwrite /\ Head(pending).capsule \in Capsules
    <3>1. pending # <<>> /\ Head(pending).op = "import"
      BY <1>4 DEF ServeImport, Due, Turn
    <3>2. 1 \in 1 .. Len(pending) /\ Head(pending) = pending[1]
      BY <3>1, Queue
    <3> QED
      BY <3>1, <3>2 DEF Queued
  <2>2. \/ /\ file[Head(pending).capsule] # None
           /\ Shelve(Head(pending).capsule, file[Head(pending).capsule])
           /\ Deliver("ok") \/ Deliver("error")
        \/ Deliver("failed")
    BY <1>4, <2>1 DEF ServeImport, Turn
  <2>3. Shelve(Head(pending).capsule, file[Head(pending).capsule])
            => shelf'[Head(pending).capsule] = file[Head(pending).capsule]
    BY <2>1 DEF Shelve, Typed
  <2>4. pending # <<>> /\ UNCHANGED <<file, begun>>
    BY <1>4 DEF ServeImport, Due
  <2> QED
    BY <1>1, <1>4, <2>2, <2>3, <2>4
<1>5. CASE ServeCheck
  BY <1>1, <1>5 DEF ServeCheck, Due
<1>6. CASE ServeCall
  BY <1>6 DEF ServeCall, Due
<1>7. CASE Serve
  BY <1>7 DEF Serve, Settle, Render, Complete, Gate, Load, Down, Up
<1>8. CASE AnswerCall
  <2>1. reply' \in {job.result, "error"} /\ job.result \in Results
    BY <1>8 DEF AnswerCall, Answer, Typed, JobSound
  <2>0. pending # <<>>
    BY <1>8 DEF AnswerCall, Answer
  <2>2. reply' \in Answers \ {"refused"} /\ (reply' = "ok" => job.result = "ok")
    BY <2>1 DEF Answers, Results
  <2> QED
    BY <1>8, <2>0, <2>2 DEF AnswerCall
<1> QED
  BY <1>2, <1>3, <1>4, <1>5, <1>6, <1>7, <1>8 DEF AgentStep

-----------------------------------------------------------------------------
\* The types, and the order of the queue
LEMMA TypedNext ==
    ASSUME Typed, Queued, Serving, [DNext]_vars
    PROVE  Typed'
<1> USE DEF Typed
<1>0. mgr.at # "idle" => mgr.r \in Deployments
  OBVIOUS
<1>1. ASSUME UNCHANGED agent, file' \in [Capsules -> Builds0], pending' \in Seq(Calls),
             mgr' \in ManagerTypes, mgr'.at # "idle" => mgr'.r \in Deployments
      PROVE  Typed'
  BY <1>1 DEF agent, contract, JobSound
<1>2. CASE \E r \in Deployments : BeginDeployment(r)
  <2>1. PICK r \in Deployments : /\ mgr' = [Resting EXCEPT !.at = "validate", !.r = r]
                                 /\ file' = IF r.droplet THEN file ELSE [file EXCEPT ![r.capsule] = r.build]
                                 /\ UNCHANGED <<agent, pending>>
    BY <1>2 DEF BeginDeployment
  <2>2. mgr' \in ManagerTypes /\ mgr'.r = r
    <3>1. Resting \in ManagerTypes /\ "validate" \in Chain
      BY DEF Resting, ManagerTypes, Chain, After, Whys
    <3> HIDE DEF Chain
    <3> QED
      BY <2>1, <3>1 DEF ManagerTypes
  <2>3. file' \in [Capsules -> Builds0]
    BY <2>1, Asked DEF Builds0
  <2> QED
    BY <1>1, <2>1, <2>2, <2>3
<1>3. CASE Validate \/ Skip \/ Verify \/ Copy \/ PrepareRuntime \/ Unprepared
  <2>1. /\ mgr.at # "idle" /\ UNCHANGED <<agent, pending, begun>>
        /\ (\E s \in Chain : Enter(s)) \/ (\E w \in Whys : Fail(w))
        /\ file' \in [Capsules -> Builds0]
    BY <1>3, OwnMove
  <2>2. mgr' \in ManagerTypes /\ (mgr'.at # "idle" => mgr'.r \in Deployments)
    BY <2>1, MgrGoes
  <2> QED
    BY <1>1, <2>1, <2>2
<1>4. CASE Send
  <2>1. mgr.at # "idle" /\ mgr.at \in CallSteps /\ mgr' = [mgr EXCEPT !.waiting = TRUE]
    BY <1>4 DEF Send, CallSteps
  <2>2. pending' \in Seq(Calls)
    BY <1>4, <2>1, BodyTyped, QueueAppend DEF Send
  <2>3. mgr' \in ManagerTypes /\ (mgr'.at # "idle" => mgr'.r \in Deployments)
    BY <2>1, MgrGoes
  <2> QED
    BY <1>1, <1>4, <2>2, <2>3 DEF Send
<1>5. CASE Lose \/ KillManager
  <2>1. /\ mgr.at # "idle" /\ pending' = Forgotten /\ UNCHANGED <<agent, file, begun>>
        /\ Retry \/ Fail("lost") \/ mgr' = Resting
    BY <1>5, Forgets
  <2>2. mgr' \in ManagerTypes /\ (mgr'.at # "idle" => mgr'.r \in Deployments)
    BY <2>1, MgrGoes DEF Whys
  <2> QED
    BY <1>1, <2>1, <2>2, QueueForgotten
<1>6. CASE AgentStep
  <2>1. pending # <<>> /\ UNCHANGED <<file, begun>>
    BY <1>6, Serves DEF Serving
  <2>2. pending' \in Seq(Calls) /\ mgr' \in ManagerTypes /\ (mgr'.at # "idle" => mgr'.r \in Deployments)
    <3>1. CASE \E result \in Answers : Deliver(result)
      <4>1. pending' = Tail(pending)
        BY <3>1 DEF Deliver
      <4>2. \/ mgr' = mgr
            \/ mgr.at # "idle" /\ ((\E s \in Chain : Enter(s)) \/ (\E w \in Whys : Fail(w)) \/ Retry)
        <5>1. PICK result \in Answers :
                 \/ mgr' = mgr
                 \/ /\ mgr.at \in CallSteps
                    /\ \/ result = "ok" /\ Enter(After[mgr.at])
                       \/ result = "error" /\ (Retry \/ Fail("failed"))
                       \/ result \notin {"ok", "error"} /\ Fail(result)
          BY <2>1, <3>1, Delivers
        <5>2. mgr.at \in CallSteps => After[mgr.at] \in Chain /\ mgr.at # "idle"
          BY DEF CallSteps, After, Chain
        <5>3. result \notin {"ok", "error"} => result \in Whys
          BY DEF Answers, Whys
        <5> QED
          BY <5>1, <5>2, <5>3 DEF Whys
      <4> QED
        BY <2>1, <4>1, <4>2, QueueTail, MgrGoes
    <3>2. CASE UNCHANGED <<mgr, pending>>
      BY <3>2
    <3> QED
      BY <1>6, <3>1, <3>2, Serves DEF Serving
  <2>3. \/ Settle \/ Render \/ Complete \/ Gate \/ Load \/ Down \/ Up \/ Answer
        \/ \E e \in Errors : Refuse(e)
        \/ \E c \in Capsules, b \in Builds0 : Shelve(c, b)
        \/ UNCHANGED agent
        \/ \E c \in Calls : c.op \in {"configure", "start"} /\ Begin(c.op, c.capsule, c.host, c.gate)
    <3>1. CASE Reject \/ ServeCheck
      BY <3>1 DEF Reject, ServeCheck
    <3>2. CASE TurnAway
      BY <3>2 DEF TurnAway
    <3>3. CASE ServeImport
      <4>1. Head(pending).capsule \in Capsules
        <5>1. 1 \in 1 .. Len(pending) /\ Head(pending) = pending[1] /\ Head(pending).op = "import"
          BY <2>1, <3>3, Queue DEF ServeImport, Turn
        <5> QED
          BY <5>1 DEF Queued
      <4>2. file[Head(pending).capsule] \in Builds0 /\ shelf[Head(pending).capsule] \in Builds0 /\ None \in Builds0
        BY <4>1 DEF Builds0
      <4> QED
        BY <3>3, <4>1, <4>2 DEF ServeImport, Turn
    <3>4. CASE ServeCall
      BY <2>1, <3>4, Queue DEF ServeCall, Turn
    <3>5. CASE Serve
      BY <3>5 DEF Serve
    <3>6. CASE AnswerCall
      BY <3>6 DEF AnswerCall
    <3> QED
      BY <1>6, <3>1, <3>2, <3>3, <3>4, <3>5, <3>6 DEF AgentStep
  <2> QED
    BY <2>1, <2>2, <2>3, AgentTyped
<1>7. CASE Dismiss
  <2>1. mgr' = Resting /\ mgr.at # "idle" /\ UNCHANGED <<agent, file, pending>>
    BY <1>7 DEF Dismiss
  <2> QED
    BY <1>1, <2>1, MgrGoes
<1>8. CASE KillAgent
  <2>1. pending' = <<>> /\ UNCHANGED <<file, mgr>> /\ (Kill \/ UNCHANGED agent)
    BY <1>8 DEF KillAgent
  <2>2. pending' \in Seq(Calls)
    BY <2>1, EmptySeq
  <2> QED
    BY <2>1, <2>2, AgentTyped
<1>9. CASE UNCHANGED vars
  <2>1. UNCHANGED <<file, mgr, pending>> /\ UNCHANGED agent
    BY <1>9 DEF vars, agent, contract
  <2> QED
    BY <1>1, <2>1
<1> QED
  BY <1>2, <1>3, <1>4, <1>5, <1>6, <1>7, <1>8, <1>9 DEF DNext, ManagerStep

\* The call of a step depends on the step and on what is asked for.
LEMMA BodyStays ==
    ASSUME mgr'.at = mgr.at, mgr'.r = mgr.r
    PROVE  Body(mgr.at)' = Body(mgr.at) /\ Now(mgr.at)' = Now(mgr.at)
<1>1. Call' = Call
  BY DEF Call
<1>2. /\ ImportCall' = ImportCall /\ CreateCall' = CreateCall /\ UpdateCall' = UpdateCall
      /\ ProfileCall' = ProfileCall /\ CheckCall' = CheckCall /\ StartCall' = StartCall
  BY <1>1 DEF ImportCall, CreateCall, UpdateCall, ProfileCall, CheckCall, StartCall
<1>3. Body(mgr.at)' = Body(mgr.at)
  BY <1>2 DEF Body
<1> QED
  BY <1>3 DEF Now

LEMMA QueuedNext ==
    ASSUME Typed, Typed', Queued, Serving, [DNext]_vars
    PROVE  Queued'
<1> DEFINE Sound(c) == /\ c.op \in {"import", "configure", "start"} => c.capsule \in Capsules
                       /\ c.op = "import" => c.overwrite
<1>0. /\ \A i \in 1 .. Len(pending) : Sound(pending[i])
      /\ Len(pending) \in Nat /\ Len(pending)' \in Nat
  BY Queue, LenProperties DEF Queued, Typed
<1>1. ASSUME mgr'.waiting = FALSE, \A i \in 1 .. Len(pending)' : ~pending'[i].live /\ Sound(pending'[i])
      PROVE  Queued'
  BY <1>1 DEF Queued
<1>2. ASSUME ~mgr.waiting, mgr'.waiting = FALSE, pending' = pending PROVE Queued'
  BY <1>0, <1>1, <1>2, Quiet
<1>3. mgr \in ManagerTypes
  BY DEF Typed
<1>4. ASSUME (\E s \in Chain : Enter(s)) \/ (\E w \in Whys : Fail(w)) \/ Retry \/ mgr' = Resting
      PROVE  mgr'.waiting = FALSE
  <2>1. CASE \E s \in Chain : Enter(s)
    BY <1>3, <2>1 DEF ManagerTypes, Enter
  <2>2. CASE \E w \in Whys : Fail(w)
    BY <1>3, <2>2 DEF ManagerTypes, Fail
  <2>3. CASE Retry
    BY <1>3, <2>3 DEF ManagerTypes, Retry
  <2>4. CASE mgr' = Resting
    BY <2>4 DEF Resting
  <2> QED
    BY <1>4, <2>1, <2>2, <2>3, <2>4
<1>5. CASE \E r \in Deployments : BeginDeployment(r)
  <2>1. mgr.at = "idle" /\ mgr'.waiting = FALSE /\ pending' = pending
    BY <1>5 DEF BeginDeployment, Resting
  <2> QED
    BY <1>2, <2>1 DEF Queued, CallSteps
<1>6. CASE Validate \/ Skip \/ Verify \/ Copy \/ PrepareRuntime \/ Unprepared
  BY <1>2, <1>4, <1>6, OwnMove
<1>7. CASE Send
  <2>1. /\ mgr.at \in CallSteps /\ Now(mgr.at) /\ ~mgr.waiting
        /\ pending' = Append(pending, Body(mgr.at)) /\ mgr' = [mgr EXCEPT !.waiting = TRUE]
    BY <1>7 DEF Send
  <2>2. /\ Body(mgr.at) \in Calls /\ Sound(Body(mgr.at)) /\ mgr.r \in Deployments
    BY <2>1, BodyTyped, Asked DEF Typed, CallSteps
  <2>3. /\ mgr'.at = mgr.at /\ mgr'.r = mgr.r /\ mgr'.waiting
    BY <1>3, <2>1 DEF ManagerTypes
  <2>4. Body(mgr.at)' = Body(mgr.at) /\ (Now(mgr.at))'
    BY <2>1, <2>3, BodyStays
  <2>5. /\ Len(pending)' = Len(pending) + 1
        /\ \A i \in 1 .. Len(pending) : pending'[i] = pending[i]
        /\ pending'[Len(pending) + 1] = Body(mgr.at)
    BY <2>1, <2>2, QueueAppend
  <2>6. \A i \in 1 .. Len(pending) : ~pending[i].live
    BY <2>1, Quiet
  <2>7. ASSUME NEW i \in 1 .. Len(pending)'
        PROVE  /\ pending'[i].live => i = Len(pending)' /\ pending'[i] = Body(mgr.at)'
               /\ Sound(pending'[i])
    <3>1. i \in 1 .. Len(pending) \/ i = Len(pending) + 1
      BY <1>0, <2>5
    <3> QED
      BY <1>0, <2>2, <2>4, <2>5, <2>6, <3>1
  <2>8. (mgr.waiting => mgr.at \in CallSteps /\ Now(mgr.at))'
    BY <2>1, <2>3, <2>4
  <2> QED
    BY <2>3, <2>7, <2>8 DEF Queued
<1>8. CASE Lose \/ KillManager
  <2>1. pending' = Forgotten /\ mgr'.waiting = FALSE
    BY <1>4, <1>8, Forgets DEF Whys
  <2>2. \A i \in 1 .. Len(pending)' : ~pending'[i].live /\ Sound(pending'[i])
    <3>1. Len(pending)' = Len(pending) /\ \A i \in 1 .. Len(pending) : pending'[i] = [pending[i] EXCEPT !.live = FALSE]
      BY <2>1, QueueForgotten
    <3>2. \A i \in 1 .. Len(pending) : pending[i] \in Calls
      BY Queue
    <3> SUFFICES ASSUME NEW i \in 1 .. Len(pending) PROVE ~pending'[i].live /\ Sound(pending'[i])
      BY <3>1
    <3>3. /\ ~pending'[i].live /\ pending'[i].op = pending[i].op
          /\ pending'[i].capsule = pending[i].capsule /\ pending'[i].overwrite = pending[i].overwrite
      BY <3>1, <3>2 DEF Calls
    <3> QED
      BY <1>0, <3>3
  <2> QED
    BY <1>1, <2>1, <2>2
<1>9. CASE AgentStep
  <2>1. pending # <<>> /\ UNCHANGED <<file, begun>>
    BY <1>9, Serves DEF Serving
  <2>2. CASE UNCHANGED <<mgr, pending>>
    BY <2>2, BodyStays DEF Queued
  <2>3. ASSUME NEW result \in Answers, Deliver(result) PROVE Queued'
    <3>1. CASE ~Head(pending).live /\ mgr' = mgr /\ pending' = Tail(pending)
      <4>1. /\ Len(pending)' = Len(pending) - 1
            /\ \A i \in 1 .. Len(pending)' : pending'[i] = pending[i + 1]
        BY <2>1, <3>1, QueueTail
      <4>2. Body(mgr.at)' = Body(mgr.at) /\ (Now(mgr.at))' = Now(mgr.at)
        BY <3>1, BodyStays
      <4>3. ASSUME NEW i \in 1 .. Len(pending)'
            PROVE  /\ pending'[i].live => i = Len(pending)' /\ mgr'.waiting /\ pending'[i] = Body(mgr.at)'
                   /\ Sound(pending'[i])
        <5>1. i + 1 \in 1 .. Len(pending) /\ pending'[i] = pending[i + 1]
          BY <1>0, <4>1
        <5>2. pending[i + 1].live => i + 1 = Len(pending) /\ mgr.waiting /\ pending[i + 1] = Body(mgr.at)
          BY <5>1 DEF Queued
        <5> QED
          BY <1>0, <3>1, <4>1, <4>2, <5>1, <5>2
      <4> QED
        BY <3>1, <4>2, <4>3 DEF Queued
    <3>2. CASE /\ pending' = <<>> /\ mgr.at \in CallSteps
               /\ Enter(After[mgr.at]) \/ Retry \/ (\E w \in Whys : Fail(w))
      <4>1. Len(pending)' = 0
        BY <3>2, EmptySeq
      <4>2. mgr'.waiting = FALSE
        BY <1>3, <3>2 DEF ManagerTypes, Enter, Fail, Retry
      <4>3. 1 .. Len(pending)' = {}
        BY <4>1
      <4> QED
        BY <1>1, <4>2, <4>3
    <3> QED
      BY <2>1, <2>3, <3>1, <3>2, Delivers DEF Answers, Whys
  <2> QED
    BY <1>9, <2>2, <2>3, Serves DEF Serving
<1>10. CASE Dismiss
  <2>1. ~mgr.waiting /\ mgr' = Resting /\ pending' = pending
    BY <1>10 DEF Dismiss, Queued, CallSteps
  <2> QED
    BY <1>2, <1>4, <2>1
<1>11. CASE KillAgent
  <2>1. pending' = <<>> /\ mgr' = mgr
    BY <1>11 DEF KillAgent
  <2>2. Len(pending)' = 0
    BY <2>1, EmptySeq
  <2> QED
    BY <2>1, <2>2 DEF Queued, Now
<1>12. CASE UNCHANGED vars
  <2>1. UNCHANGED <<mgr, pending>>
    BY <1>12 DEF vars
  <2> QED
    BY <2>1, BodyStays DEF Queued
<1> QED
  BY <1>5, <1>6, <1>7, <1>8, <1>9, <1>10, <1>11, <1>12 DEF DNext, ManagerStep

-----------------------------------------------------------------------------
\* The job does what the call that is due asks for.
LEMMA WorkStays ==
    ASSUME Serving, Work, UNCHANGED agent,
           pending # <<>> => /\ pending' # <<>> /\ pending'[1].op = pending[1].op
                             /\ pending'[1].capsule = pending[1].capsule
                             /\ pending'[1].host = pending[1].host /\ pending'[1].gate = pending[1].gate
    PROVE  Serving' /\ Work'
BY DEF agent, contract, Serving, Work, Configured

LEMMA ServeWorks ==
    ASSUME Typed, Queued, Serving, Work, Serve
    PROVE  Serving' /\ Work'
<1> USE DEF Typed
<1>0. job \in JobTypes /\ UNCHANGED <<pending, mgr, file>> /\ job.at # "idle"
  BY DEF JobSound, Serve, Settle, Render, Complete, Gate, Load, Down, Up
<1>1. /\ pending # <<>> /\ pending[1].op \in {"configure", "start"} /\ pending[1].capsule \in Capsules
      /\ job.capsule = pending[1].capsule /\ job.host = pending[1].host /\ job.gate = pending[1].gate
      /\ pending[1].op = "configure" => job.at \in {"configure", "settled", "rendered", "outcome"}
      /\ pending[1].op = "start" => job.at \in {"start", "load", "down", "up", "outcome"}
  <2>1. pending # <<>> /\ pending[1].op \in {"configure", "start"}
    BY <1>0 DEF Serving
  <2>2. 1 \in 1 .. Len(pending)
    BY <2>1, Queue
  <2> QED
    BY <1>0, <2>1, <2>2 DEF Serving, Queued
<1>2. Meant = {job.capsule} /\ job.capsule # None
  BY <1>1, DeploymentAssumption DEF Meant
<1>3. ASSUME NEW p \in JobPlaces, Go(p)
      PROVE  /\ job'.at = p /\ job'.capsule = job.capsule /\ job'.host = job.host /\ job'.gate = job.gate
             /\ job'.result = job.result
  BY <1>0, <1>3 DEF Go, JobTypes
<1>4. ASSUME NEW r \in Results, Finish(r)
      PROVE  /\ job'.at = "outcome" /\ job'.capsule = job.capsule /\ job'.host = job.host
             /\ job'.gate = job.gate /\ job'.result = r
  BY <1>0, <1>4 DEF Finish, JobTypes
<1>5. /\ {"settled", "rendered", "load", "down", "up"} \subseteq JobPlaces
      /\ {"ok", "failed", "blocked"} = Results
  BY DEF JobPlaces, Results
<1>6. ASSUME NEW r \in Results \ {"ok"}, Finish(r) PROVE Serving' /\ Work'
  BY <1>0, <1>1, <1>4, <1>6 DEF Serving, Work
<1>7. CASE Settle
  <2>1. CASE job' = [job EXCEPT !.at = "settled", !.capsule = job.capsule]
    <3>1. job'.at = "settled" /\ job'.capsule = job.capsule /\ job'.host = job.host /\ job'.gate = job.gate
      BY <1>0, <2>1 DEF JobTypes
    <3>2. pending[1].op = "configure"
      BY <1>1, <1>7 DEF Settle
    <3> QED
      BY <1>0, <1>1, <3>1, <3>2 DEF Serving, Work
  <2> QED
    BY <1>2, <1>5, <1>6, <1>7, <2>1 DEF Settle
<1>8. CASE Render
  <2>1. CASE rendered' = [capsule |-> job.capsule, host |-> job.host] /\ Go("rendered")
    <3>1. pending[1].op = "configure"
      BY <1>1, <1>8 DEF Render
    <3> QED
      BY <1>0, <1>1, <1>3, <1>5, <2>1, <3>1 DEF Serving, Work, Configured
  <2> QED
    BY <1>5, <1>6, <1>8, <2>1 DEF Render
<1>9. CASE Complete
  <2>1. pending[1].op = "configure" /\ Configured(job.capsule, job.host) /\ rendered' = rendered
    BY <1>1, <1>9 DEF Complete, Work
  <2>2. CASE Finish("ok")
    BY <1>0, <1>1, <1>4, <1>5, <2>1, <2>2 DEF Serving, Work, Configured
  <2>3. CASE Finish("failed")
    BY <1>5, <1>6, <1>9, <2>3 DEF Complete
  <2> QED
    BY <1>9, <2>2, <2>3 DEF Complete
<1>10. CASE Gate
  <2>1. CASE Go("load") /\ (Gated => \A c \in Meant : shelf[c] \in Signed)
    <3>1. pending[1].op = "start" /\ UNCHANGED <<rendered, shelf>>
      BY <1>1, <1>10 DEF Gate
    <3> QED
      BY <1>0, <1>1, <1>2, <1>3, <1>5, <2>1, <3>1 DEF Serving, Work, Gated
  <2> QED
    BY <1>5, <1>6, <1>10, <2>1 DEF Gate
<1>11. CASE Load
  <2>0. pending[1].op = "start" /\ UNCHANGED <<rendered, shelf, running>> /\ job.at = "load"
        /\ (job.gate /\ rendered # None => shelf[job.capsule] \in Signed)
    BY <1>1, <1>11 DEF Load, Work
  <2>1. CASE shelf[job.capsule] # None /\ loaded' = shelf[job.capsule] /\ (Go("down") \/ Go("up"))
    <3>1. job'.at \in {"down", "up"} /\ job'.capsule = job.capsule /\ job'.host = job.host /\ job'.gate = job.gate
      BY <1>3, <1>5, <2>1
    <3> QED
      BY <1>0, <1>1, <2>0, <2>1, <3>1 DEF Serving, Work
  <2>2. CASE shelf[job.capsule] = None /\ Go("up") /\ UNCHANGED loaded
    <3>1. ~(job.gate /\ rendered # None)
      BY <2>0, <2>2, DeploymentAssumption
    <3>2. job'.at = "up" /\ job'.capsule = job.capsule /\ job'.host = job.host /\ job'.gate = job.gate
      BY <1>3, <1>5, <2>2
    <3> QED
      BY <1>0, <1>1, <2>0, <2>2, <3>1, <3>2 DEF Serving, Work
  <2>3. CASE Finish("failed")
    BY <1>5, <1>6, <2>3
  <2> QED
    BY <1>2, <1>11, <2>1, <2>2, <2>3 DEF Load
<1>12. CASE Down
  <2>1. job.at = "down" /\ pending[1].op = "start" /\ UNCHANGED <<rendered, shelf, loaded>>
    BY <1>1, <1>12 DEF Down
  <2>2. CASE Go("up")
    <3>1. job'.at = "up" /\ job'.capsule = job.capsule /\ job'.host = job.host /\ job'.gate = job.gate
      BY <1>3, <1>5, <2>2
    <3> QED
      BY <1>0, <1>1, <2>1, <3>1 DEF Serving, Work
  <2> QED
    BY <1>5, <1>6, <1>12, <2>1, <2>2 DEF Down
<1>13. CASE Up
  <2>1. job.at = "up" /\ pending[1].op = "start" /\ UNCHANGED <<rendered, shelf, loaded>>
    BY <1>1, <1>13 DEF Up
  <2>2. CASE rendered # None /\ running' = loaded /\ Finish("ok")
    <3>1. /\ job'.at = "outcome" /\ job'.capsule = job.capsule /\ job'.host = job.host
          /\ job'.gate = job.gate /\ job'.result = "ok"
      BY <1>4, <1>5, <2>2
    <3>2. /\ shelf'[job'.capsule] # None => running' = shelf'[job'.capsule]
          /\ job'.gate => running' \in Signed
      BY <2>1, <2>2, <3>1 DEF Work
    <3> QED
      BY <1>0, <1>1, <2>1, <3>1, <3>2 DEF Serving, Work
  <2> QED
    BY <1>5, <1>6, <1>13, <2>2 DEF Up
<1> QED
  BY <1>7, <1>8, <1>9, <1>10, <1>11, <1>12, <1>13 DEF Serve

LEMMA WorkNext ==
    ASSUME Typed, Queued, Serving, Work, [DNext]_vars
    PROVE  Serving' /\ Work'
<1>0. Len(pending) \in Nat /\ (pending # <<>> => 1 \in 1 .. Len(pending) /\ pending[1] \in Calls /\ Head(pending) = pending[1])
  BY Queue
<1>1. ASSUME job'.at = "idle" PROVE Serving' /\ Work'
  BY <1>1 DEF Serving, Work
<1>2. CASE \/ \E r \in Deployments : BeginDeployment(r)
           \/ Validate \/ Skip \/ Verify \/ Copy \/ PrepareRuntime \/ Unprepared
           \/ Dismiss \/ UNCHANGED vars
  <2>1. UNCHANGED <<agent, pending>>
    BY <1>2 DEF BeginDeployment, Validate, Skip, Verify, Copy, PrepareRuntime, Unprepared, Dismiss, vars,
       agent, contract
  <2> QED
    BY <2>1, WorkStays
<1>3. CASE Send
  <2>1. Body(mgr.at) \in Calls /\ pending' = Append(pending, Body(mgr.at)) /\ UNCHANGED agent
    BY <1>3, BodyTyped DEF Send
  <2>2. pending # <<>> => pending' # <<>> /\ pending'[1] = pending[1]
    BY <1>0, <2>1, QueueAppend
  <2> QED
    BY <2>1, <2>2, WorkStays
<1>4. CASE Lose \/ KillManager
  <2>1. UNCHANGED agent /\ pending' = Forgotten
    BY <1>4, Forgets
  <2>2. pending # <<>> => pending' # <<>> /\ pending'[1] = [pending[1] EXCEPT !.live = FALSE]
    BY <1>0, <2>1, QueueForgotten
  <2>3. pending # <<>> => /\ pending' # <<>> /\ pending'[1].op = pending[1].op
                          /\ pending'[1].capsule = pending[1].capsule
                          /\ pending'[1].host = pending[1].host /\ pending'[1].gate = pending[1].gate
    BY <1>0, <2>2 DEF Calls
  <2> QED
    BY <2>1, <2>3, WorkStays
<1>5. CASE Reject \/ TurnAway \/ ServeImport \/ ServeCheck
  <2>1. job.at = "idle" /\ job' = job
    BY <1>5 DEF Reject, TurnAway, ServeImport, ServeCheck, Due, Refuse, Shelve, agent, contract
  <2> QED
    BY <1>1, <2>1
<1>6. CASE ServeCall
  <2>1. /\ pending # <<>> /\ pending' = pending /\ pending[1].op \in {"configure", "start"}
        /\ job' = [Idle EXCEPT !.at = pending[1].op, !.capsule = pending[1].capsule,
                               !.host = pending[1].host, !.gate = pending[1].gate]
    BY <1>0, <1>6 DEF ServeCall, Due, Turn, Begin
  <2>2. /\ job'.at = pending[1].op /\ job'.capsule = pending[1].capsule
        /\ job'.host = pending[1].host /\ job'.gate = pending[1].gate
    BY <2>1 DEF Idle
  <2> QED
    BY <2>1, <2>2 DEF Serving, Work
<1>7. CASE AnswerCall
  BY <1>1, <1>7 DEF AnswerCall, Answer, Idle
<1>8. CASE KillAgent
  <2>1. job'.at = "idle"
    BY <1>8 DEF KillAgent, Kill, agent, contract, Idle
  <2> QED
    BY <1>1, <2>1
<1> QED
  BY <1>2, <1>3, <1>4, <1>5, <1>6, <1>7, <1>8, ServeWorks DEF DNext, ManagerStep, AgentStep

-----------------------------------------------------------------------------
\* What a deployment has reached stays reached.
Progress == Filed /\ Held /\ Ended

LEMMA Fields ==
    ASSUME Typed
    PROVE  /\ \A s \in Chain : Enter(s) => mgr'.at = s /\ mgr'.r = mgr.r /\ mgr'.why = mgr.why
           /\ \A w \in Whys : Fail(w) => mgr'.at = "failed" /\ mgr'.r = mgr.r /\ mgr'.why = w
           /\ Retry => mgr'.at = mgr.at /\ mgr'.r = mgr.r /\ mgr'.why = mgr.why
<1>1. mgr \in ManagerTypes
  BY DEF Typed
<1> QED
  BY <1>1 DEF ManagerTypes, Enter, Fail, Retry

LEMMA Rests ==
    ASSUME mgr' = Resting
    PROVE  Progress'
BY DEF Resting, Progress, Filed, Held, Ended, Plain, Whole

LEMMA Fails ==
    ASSUME Typed, Progress, mgr.at # "idle", NEW w \in Whys, Fail(w), file' = file
    PROVE  Progress'
<1>1. mgr'.at = "failed" /\ mgr'.r = mgr.r /\ mgr'.why = w
  BY Fields
<1> QED
  BY <1>1 DEF Progress, Filed, Held, Ended, Plain, Whole, Late

\* The Manager stays where it is, and nothing that it has reached is undone.
LEMMA Keeps ==
    ASSUME Typed, Progress, file' = file,
           mgr'.at = mgr.at, mgr'.r = mgr.r, mgr'.why = mgr.why,
           Whole /\ mgr.at \in Late => shelf' = shelf,
           Whole /\ mgr.at \in {"check", "start", "completed"} => rendered' = rendered,
           Plain /\ mgr.at = "completed" /\ mgr.r.start => running' = running /\ shelf' = shelf,
           \A i \in 1 .. Len(pending)' :
              \/ mgr.at \in CallSteps /\ pending'[i].op = Body(mgr.at).op
              \/ \E j \in 1 .. Len(pending) : pending'[i].op = pending[j].op,
           Skipped(mgr.r, mgr.at) \/ mgr.at = "completed" => (pending = <<>> => pending' = <<>>)
    PROVE  Progress'
<1>1. Plain' = Plain /\ Whole' = Whole /\ Given' = Given /\ Skipped(mgr.r, mgr.at)' = Skipped(mgr.r, mgr.at)
  BY DEF Plain, Whole, Given, Skipped
<1>2. Body(mgr.at)' = Body(mgr.at)
  BY BodyStays
<1>3. Held'
  <2> SUFFICES ASSUME Whole, mgr.at \in Late PROVE Held'
    BY <1>1 DEF Held
  <2>1. /\ shelf[mgr.r.capsule] # None /\ (Given => shelf[mgr.r.capsule] = mgr.r.build)
        /\ mgr.at \in {"check", "start", "completed"} => Configured(mgr.r.capsule, mgr.r.host)
        /\ \A i \in 1 .. Len(pending) : mgr.at \in CallSteps /\ pending[i].op = Body(mgr.at).op
        /\ Skipped(mgr.r, mgr.at) => pending = <<>>
    BY DEF Progress, Held
  <2>2. \A i \in 1 .. Len(pending)' : mgr.at \in CallSteps /\ pending'[i].op = Body(mgr.at).op
    BY <2>1
  <2>3. Skipped(mgr.r, mgr.at) => pending' = <<>>
    BY <2>1
  <2> QED
    BY <1>1, <1>2, <2>1, <2>2, <2>3 DEF Held, Configured
<1> QED
  BY <1>1, <1>3 DEF Progress, Filed, Ended, Whole, Late

\* The calls of a later step neither import nor, in the end, configure.
LEMMA Calm ==
    ASSUME Typed, Progress, Whole, mgr.at \in Late, pending # <<>>
    PROVE  /\ mgr.at \in CallSteps
           /\ Head(pending).op # "import" /\ pending[1].op # "import"
           /\ mgr.at \in {"check", "start", "completed"} =>
                 pending[1].op # "configure" /\ Head(pending).op # "configure"
<1>1. 1 \in 1 .. Len(pending) /\ Head(pending) = pending[1]
  BY Queue
<1>2. mgr.at \in CallSteps /\ pending[1].op = Body(mgr.at).op
  BY <1>1 DEF Progress, Held
<1>3. mgr.at # "import"
  BY DEF Late
<1> QED
  BY <1>1, <1>2, <1>3, BodyTyped DEF CallSteps

\* The Manager goes on to the next step: the conditions on each
LEMMA Goes ==
    ASSUME Typed, Progress, mgr.at # "idle", NEW s \in Chain, Enter(s),
           file' \in [Capsules -> Builds0],
           ~mgr.r.droplet => file'[mgr.r.capsule] = mgr.r.build,
           Whole /\ s \in {"runtime", "import"} /\ Given => file'[mgr.r.capsule] = mgr.r.build,
           Whole /\ s \in Late =>
              /\ pending' = <<>> /\ shelf'[mgr.r.capsule] # None
              /\ Given => shelf'[mgr.r.capsule] = mgr.r.build
              /\ s \in {"check", "start", "completed"} => Configured(mgr.r.capsule, mgr.r.host)',
           Plain /\ s = "completed" /\ mgr.r.start =>
              /\ pending' = <<>>
              /\ Whole => running' = shelf'[mgr.r.capsule]
              /\ mgr.r.gate => running' \in Signed
    PROVE  Progress'
<1>1. mgr'.at = s /\ mgr'.r = mgr.r /\ mgr'.why = mgr.why
  BY Fields
<1>2. Plain' = (mgr'.at # "idle" /\ Plain) /\ Whole' = (mgr'.at # "idle" /\ Whole) /\ Given' = Given
  BY <1>1 DEF Plain, Whole, Given
<1>3. s # "idle"
  BY DEF Chain, After
<1>4. Filed'
  BY <1>1, <1>2 DEF Filed
<1>5. Held'
  <2> SUFFICES ASSUME Whole, s \in Late PROVE Held'
    BY <1>1, <1>2 DEF Held
  <2>1. pending' = <<>> /\ 1 .. Len(pending)' = {}
    <3>1. Len(pending)' = 0
      BY EmptySeq
    <3> QED
      BY <3>1
  <2> QED
    BY <1>1, <1>2, <2>1 DEF Held, Configured
<1>6. Ended'
  BY <1>1, <1>2, <1>3 DEF Ended
<1> QED
  BY <1>1, <1>4, <1>5, <1>6 DEF Progress

LEMMA OwnMoveProgress ==
    ASSUME Typed, Queued, Progress,
           Validate \/ Skip \/ Verify \/ Copy \/ PrepareRuntime \/ Unprepared
    PROVE  Progress'
<1>0. mgr.at # "idle" /\ UNCHANGED <<agent, pending, begun>> /\ file' \in [Capsules -> Builds0]
  BY OwnMove
<1>1. mgr.r \in Deployments /\ mgr.r.capsule \in Capsules /\ file \in [Capsules -> Builds0]
  BY <1>0, Asked DEF Typed
<1>2. UNCHANGED <<shelf, rendered, running>>
  BY <1>0 DEF agent, contract
<1>3. {"invalid", "unverified", "failed"} \subseteq Whys \ {"refused"}
  BY DEF Whys
<1>4. ASSUME NEW w \in {"invalid", "unverified", "failed"}, Fail(w), file' = file PROVE Progress'
  BY <1>0, <1>3, <1>4, Fails
<1>5. ~mgr.r.droplet => file[mgr.r.capsule] = mgr.r.build
  BY <1>0 DEF Progress, Filed
<1>6. ASSUME NEW s \in Chain, s \notin Late \cup {"runtime", "import"}, Enter(s), file' = file PROVE Progress'
  BY <1>0, <1>5, <1>6, Goes DEF Late
<1>7. CASE Validate
  <2>1. mgr.at = "validate" /\ file' = file
    BY <1>7 DEF Validate
  <2>2. CASE mgr.r.only /\ Enter("start")
    <3>1. "start" \in Chain /\ ~Whole
      BY <2>2 DEF Chain, After, Whole
    <3> QED
      BY <1>0, <1>5, <2>1, <2>2, <3>1, Goes
  <2>3. CASE Enter("verify")
    BY <1>6, <2>1, <2>3 DEF Chain, After, Late
  <2> QED
    BY <1>4, <1>7, <2>1, <2>2, <2>3 DEF Validate, Pass, After
<1>8. CASE Skip
  <2>1. mgr.at \in DOMAIN After /\ Enter(After[mgr.at]) /\ After[mgr.at] \in Chain /\ file' = file /\ pending' = pending
    BY <1>0, <1>8 DEF Skip, Skipped, Planned, After, CallSteps, Pass, Chain
  <2>2. Plain => Skipped(mgr.r, mgr.at)
    BY <1>8 DEF Skip, Planned, Plain
  <2>3. CASE ~Plain
    BY <1>0, <1>5, <2>1, <2>3, Goes DEF Whole
  <2>4. CASE Plain /\ mgr.at = "verify"
    BY <1>6, <2>1, <2>4 DEF After, Late
  <2>5. CASE Plain /\ mgr.at = "copy"
    <3>1. Given => file[mgr.r.capsule] = mgr.r.build
      BY <1>1, <1>5, <2>2, <2>5 DEF Skipped, Given
    <3> QED
      BY <1>0, <1>5, <2>1, <2>5, <3>1, Goes DEF After, Late
  <2>6. CASE Plain /\ mgr.at = "runtime"
    <3>1. Whole /\ Given => file[mgr.r.capsule] = mgr.r.build
      BY <2>6 DEF Progress, Filed
    <3> QED
      BY <1>0, <1>5, <2>1, <2>6, <3>1, Goes DEF After, Late
  <2>7. CASE Plain /\ mgr.at \in {"check", "start"}
    <3>1. After[mgr.at] \in {"start", "completed"}
      BY <2>7 DEF After
    <3>2. Whole => /\ pending = <<>> /\ shelf[mgr.r.capsule] # None
                   /\ Given => shelf[mgr.r.capsule] = mgr.r.build
                   /\ Configured(mgr.r.capsule, mgr.r.host)
      BY <2>2, <2>7 DEF Progress, Held, Late
    <3>3. mgr.at = "start" => ~mgr.r.start
      BY <1>1, <2>2, <2>7 DEF Skipped
    <3>4. Configured(mgr.r.capsule, mgr.r.host) => After[mgr.at] \in Late /\ rendered' = [capsule |-> mgr.r.capsule, host |-> mgr.r.host]
      BY <1>2, <3>1 DEF Configured, Late
    <3>5. After[mgr.at] = "completed" => mgr.at = "start"
      BY <2>7 DEF After
    <3>7. mgr'.r = mgr.r
      BY <2>1, Fields
    <3> QED
      BY <1>0, <1>2, <1>5, <2>1, <3>1, <3>2, <3>3, <3>4, <3>5, <3>7, Goes DEF Configured
  <2>8. Plain => mgr.at \in {"verify", "copy", "runtime", "check", "start"}
    BY <2>2 DEF Skipped
  <2> QED
    BY <2>3, <2>4, <2>5, <2>6, <2>7, <2>8
<1>9. CASE Verify
  <2>1. mgr.at = "verify" /\ file' = file /\ (Enter("copy") \/ Fail("unverified"))
    BY <1>9 DEF Verify, Now, Pass, After
  <2> QED
    BY <1>4, <1>6, <2>1 DEF Chain, After, Late
<1>10. CASE Copy
  <2>0. mgr.at = "copy" /\ mgr.r.droplet
    BY <1>1, <1>10 DEF Copy, Now, Skipped
  <2>1. CASE file' = [file EXCEPT ![mgr.r.capsule] = mgr.r.build] /\ Enter("runtime")
    <3>1. file'[mgr.r.capsule] = mgr.r.build /\ "runtime" \in Chain /\ "runtime" \notin Late
      BY <1>1, <2>1 DEF Chain, After, Late
    <3> QED
      BY <1>0, <2>1, <3>1, Goes
  <2>2. CASE Fail("failed")
    <3>1. mgr'.at = "failed" /\ mgr'.r = mgr.r /\ mgr'.why = "failed"
      BY <2>2, <1>3, Fields
    <3> QED
      BY <2>0, <3>1 DEF Progress, Filed, Held, Ended, Plain, Whole, Late
  <2> QED
    BY <1>10, <2>0, <2>1, <2>2 DEF Copy, Pass, After
<1>11. CASE PrepareRuntime
  <2>1. mgr.at = "runtime" /\ file' = file /\ (Enter("import") \/ Fail("failed"))
    BY <1>11 DEF PrepareRuntime, Now, Pass, After
  <2>2. Whole /\ Given => file[mgr.r.capsule] = mgr.r.build
    BY <2>1 DEF Progress, Filed
  <2>3. "import" \in Chain /\ "import" \notin Late
    BY DEF Chain, After, Late
  <2> QED
    BY <1>0, <1>4, <1>5, <2>1, <2>2, <2>3, Goes
<1>12. CASE Unprepared
  BY <1>4, <1>12 DEF Unprepared
<1> QED
  BY <1>7, <1>8, <1>9, <1>10, <1>11, <1>12

LEMMA BeginProgress ==
    ASSUME Typed, Progress, NEW r \in Deployments, BeginDeployment(r)
    PROVE  Progress'
<1>1. /\ mgr' = [Resting EXCEPT !.at = "validate", !.r = r]
      /\ file' = IF r.droplet THEN file ELSE [file EXCEPT ![r.capsule] = r.build]
  BY DEF BeginDeployment
<1>2. mgr'.at = "validate" /\ mgr'.r = r /\ mgr'.why = "none"
  BY <1>1 DEF Resting
<1>3. ~r.droplet => file'[r.capsule] = r.build
  BY <1>1, Asked DEF Typed
<1> QED
  BY <1>2, <1>3 DEF Progress, Filed, Held, Ended, Plain, Whole, Late

LEMMA SendProgress ==
    ASSUME Typed, Queued, Progress, Send
    PROVE  Progress'
<1>1. /\ mgr.at \in CallSteps /\ Now(mgr.at) /\ mgr \in ManagerTypes
      /\ pending' = Append(pending, Body(mgr.at)) /\ mgr' = [mgr EXCEPT !.waiting = TRUE]
      /\ UNCHANGED <<file, shelf, rendered, running>>
  BY DEF Send, agent, contract, Typed
<1>2. mgr'.at = mgr.at /\ mgr'.r = mgr.r /\ mgr'.why = mgr.why
  BY <1>1 DEF ManagerTypes
<1>3. \A i \in 1 .. Len(pending)' :
         \/ pending'[i].op = Body(mgr.at).op
         \/ \E j \in 1 .. Len(pending) : pending'[i].op = pending[j].op
  <2>1. /\ Len(pending)' = Len(pending) + 1
        /\ \A i \in 1 .. Len(pending) : pending'[i] = pending[i]
        /\ pending'[Len(pending) + 1] = Body(mgr.at)
    BY <1>1, BodyTyped, QueueAppend
  <2> SUFFICES ASSUME NEW i \in 1 .. Len(pending)'
               PROVE  \/ pending'[i].op = Body(mgr.at).op
                      \/ \E j \in 1 .. Len(pending) : pending'[i].op = pending[j].op
    OBVIOUS
  <2>2. i \in 1 .. Len(pending) \/ i = Len(pending) + 1
    BY <2>1, Queue
  <2> QED
    BY <2>1, <2>2
<1>4. ~Skipped(mgr.r, mgr.at) /\ mgr.at # "completed"
  BY <1>1 DEF Now, CallSteps
<1> QED
  BY <1>1, <1>2, <1>3, <1>4, Keeps

LEMMA ForgetsProgress ==
    ASSUME Typed, Queued, Progress, Lose \/ KillManager
    PROVE  Progress'
<1>1. /\ mgr.at # "idle" /\ pending' = Forgotten /\ UNCHANGED <<file, shelf, rendered, running>>
      /\ Retry \/ Fail("lost") \/ mgr' = Resting
  BY Forgets DEF agent, contract
<1>2. CASE Retry
  <2>1. mgr'.at = mgr.at /\ mgr'.r = mgr.r /\ mgr'.why = mgr.why
    BY <1>2, Fields
  <2>2. /\ Len(pending)' = Len(pending)
        /\ \A i \in 1 .. Len(pending) : pending'[i] = [pending[i] EXCEPT !.live = FALSE] /\ pending[i] \in Calls
    BY <1>1, QueueForgotten, Queue
  <2>3. \A i \in 1 .. Len(pending)' : \E j \in 1 .. Len(pending) : pending'[i].op = pending[j].op
    <3>1. \A i \in 1 .. Len(pending) : pending'[i].op = pending[i].op
      BY <2>2 DEF Calls
    <3> QED
      BY <2>2, <3>1
  <2>4. pending = <<>> => pending' = <<>>
    BY <2>2, <1>1, QueueForgotten, EmptySeq DEF Typed
  <2> QED
    BY <1>1, <2>1, <2>3, <2>4, Keeps
<1>3. CASE Fail("lost")
  BY <1>1, <1>3, Fails DEF Whys
<1> QED
  BY <1>1, <1>2, <1>3, Rests

\* Answers to calls that nobody waits for, and steps within a call
LEMMA AsideProgress ==
    ASSUME Typed, Queued, Progress, pending # <<>>, mgr' = mgr, file' = file,
           pending' = pending \/ pending' = Tail(pending) \/ pending' = <<>>,
           Head(pending).op # "import" => shelf' = shelf,
           Head(pending).op # "configure" => rendered' = rendered
    PROVE  Progress'
<1>1. \A i \in 1 .. Len(pending)' : \E j \in 1 .. Len(pending) : pending'[i].op = pending[j].op
  <2>1. CASE pending' = pending
    BY <2>1
  <2>2. CASE pending' = Tail(pending)
    <3> SUFFICES ASSUME NEW i \in 1 .. Len(pending)' PROVE \E j \in 1 .. Len(pending) : pending'[i].op = pending[j].op
      OBVIOUS
    <3>1. Len(pending)' = Len(pending) - 1 /\ pending'[i] = pending[i + 1] /\ Len(pending) \in Nat
      BY <2>2, QueueTail, Queue
    <3>2. i + 1 \in 1 .. Len(pending)
      BY <3>1
    <3> QED
      BY <3>1, <3>2
  <2>3. CASE pending' = <<>>
    <3>1. Len(pending)' = 0
      BY <2>3, EmptySeq
    <3>2. 1 .. Len(pending)' = {}
      BY <3>1
    <3> QED
      BY <3>2
  <2> QED
    BY <2>1, <2>2, <2>3
<1>2. Whole /\ mgr.at \in Late => shelf' = shelf
  BY Calm
<1>3. Whole /\ mgr.at \in {"check", "start", "completed"} => rendered' = rendered
  BY Calm DEF Late
<1>4. ~(Plain /\ mgr.at = "completed" /\ mgr.r.start)
  BY DEF Progress, Ended
<1> QED
  BY <1>1, <1>2, <1>3, <1>4, Keeps

LEMMA AgentProgress ==
    ASSUME Typed, Queued, Serving, Work, Progress, AgentStep
    PROVE  Progress'
<1>0. /\ pending # <<>> /\ UNCHANGED <<file, begun>> /\ Len(pending) \in Nat
      /\ 1 \in 1 .. Len(pending) /\ Head(pending) = pending[1]
  BY Serves, Queue DEF Serving
<1>1. Head(pending).op # "import" => shelf' = shelf
  BY DEF AgentStep, Reject, TurnAway, ServeImport, ServeCheck, ServeCall, Serve, AnswerCall, Turn,
         agent, contract, Refuse, Begin, Settle, Render, Complete, Gate, Load, Down, Up, Answer
<1>2. Head(pending).op # "configure" => rendered' = rendered
  <2>1. CASE Serve
    <3>1. Head(pending).op # "configure" => job.at \in {"idle", "start", "load", "down", "up", "outcome"}
      BY <1>0 DEF Serving
    <3> QED
      BY <2>1, <3>1 DEF Serve, Settle, Render, Complete, Gate, Load, Down, Up
  <2> QED
    BY <2>1 DEF AgentStep, Reject, TurnAway, ServeImport, ServeCheck, ServeCall, AnswerCall,
         agent, contract, Refuse, Begin, Answer, Shelve
<1>3. ASSUME NEW result \in Answers, Deliver(result),
             result = "ok" => \/ ServeImport /\ shelf'[Head(pending).capsule] = file[Head(pending).capsule]
                                 /\ file[Head(pending).capsule] # None
                              \/ ServeCheck
                              \/ AnswerCall /\ job.result = "ok"
      PROVE  Progress'
  <2>1. CASE ~Head(pending).live /\ mgr' = mgr
    BY <1>0, <1>1, <1>2, <1>3, <2>1, AsideProgress DEF Deliver
  <2>2. CASE /\ Head(pending) = Body(mgr.at) /\ Now(mgr.at) /\ mgr.at \in CallSteps /\ pending' = <<>>
             /\ \/ result = "ok" /\ Enter(After[mgr.at])
                \/ result = "error" /\ (Retry \/ Fail("failed"))
                \/ result \notin {"ok", "error"} /\ Fail(result)
    <3>0. mgr.at # "idle" /\ mgr.r \in Deployments
      BY <2>2 DEF CallSteps, Typed
    <3>1. CASE result = "error" /\ Retry
      <4>1. Len(pending)' = 0 /\ mgr'.at = mgr.at /\ mgr'.r = mgr.r /\ mgr'.why = mgr.why
        BY <2>2, <3>1, EmptySeq, Fields
      <4>2. 1 .. Len(pending)' = {}
        BY <4>1
      <4>3. mgr.at # "completed" /\ ~Skipped(mgr.r, mgr.at)
        BY <2>2 DEF CallSteps, Now
      <4>4. Whole /\ mgr.at \in Late => shelf' = shelf
        BY <1>0, <1>1, Calm
      <4>5. Whole /\ mgr.at \in {"check", "start", "completed"} => rendered' = rendered
        BY <1>0, <1>2, Calm DEF Late
      <4> QED
        BY <1>0, <4>1, <4>2, <4>3, <4>4, <4>5, Keeps
    <3>2. CASE result # "ok" /\ (result = "error" => Fail("failed")) /\ (result # "error" => Fail(result))
      <4>1. "failed" \in Whys /\ (result # "error" => result \in Whys)
        BY <3>2 DEF Answers, Whys
      <4> QED
        BY <1>0, <3>0, <3>2, <4>1, Fails
    <3>3. CASE result = "ok"
      <4>0. /\ Enter(After[mgr.at]) /\ After[mgr.at] \in Chain
            /\ pending' = <<>> /\ UNCHANGED file /\ mgr.r.capsule \in Capsules
        BY <1>0, <2>2, <3>0, <3>3, Asked DEF CallSteps, After, Chain
      <4>1. ~mgr.r.droplet => file[mgr.r.capsule] = mgr.r.build
        BY <3>0 DEF Progress, Filed
      <4>2. Body(mgr.at).op = Head(pending).op
        BY <2>2
      <4>3. CASE mgr.at = "import"
        <5>1. After[mgr.at] = "instance" /\ Head(pending).op = "import" /\ Head(pending).capsule = mgr.r.capsule
          BY <2>2, <4>3, BodyTyped DEF After
        <5>2. shelf'[mgr.r.capsule] = file[mgr.r.capsule] /\ file[mgr.r.capsule] # None
          <6>1. ~ServeCheck
            BY <5>1 DEF ServeCheck, Turn
          <6>2. ~(AnswerCall /\ job.result = "ok")
            BY <1>0, <5>1 DEF AnswerCall, Answer, Serving
          <6> QED
            BY <1>3, <3>3, <5>1, <6>1, <6>2
        <5>3. Whole /\ Given => file[mgr.r.capsule] = mgr.r.build
          BY <4>3 DEF Progress, Filed
        <5> QED
          BY <3>0, <4>0, <4>1, <5>1, <5>2, <5>3, Goes DEF Typed
      <4>4. mgr.at # "import" /\ Whole => /\ shelf' = shelf /\ shelf[mgr.r.capsule] # None
                                          /\ Given => shelf[mgr.r.capsule] = mgr.r.build
        BY <1>0, <1>1, <2>2, Calm DEF Progress, Held, Late, CallSteps
      <4>5. Head(pending).op \in {"configure", "start"} =>
               AnswerCall /\ job.result = "ok" /\ job.at = "outcome" /\ UNCHANGED <<rendered, shelf, running>>
        BY <1>3, <3>3 DEF ServeImport, ServeCheck, Turn, AnswerCall, Answer
      <4>6. CASE mgr.at = "instance"
        <5>1. After[mgr.at] = "profile"
          BY <4>6 DEF After
        <5> QED
          BY <3>0, <4>0, <4>1, <4>4, <4>6, <5>1, Goes DEF Typed
      <4>7. CASE mgr.at = "profile"
        <5>1. /\ After[mgr.at] = "check" /\ Head(pending).op = "configure"
              /\ Head(pending).capsule = mgr.r.capsule /\ Head(pending).host = mgr.r.host
          BY <2>2, <4>7, BodyTyped DEF After
        <5>2. mgr'.r = mgr.r
          BY <4>0, Fields
        <5>3. job.capsule = mgr.r.capsule /\ job.host = mgr.r.host
          BY <1>0, <4>5, <5>1 DEF Serving
        <5>4. Configured(job.capsule, job.host) /\ rendered' = rendered
          BY <1>0, <4>5, <5>1 DEF Work
        <5>5. Configured(mgr.r.capsule, mgr.r.host)'
          BY <5>2, <5>3, <5>4 DEF Configured
        <5> QED
          BY <3>0, <4>0, <4>1, <4>4, <4>7, <5>1, <5>5, Goes DEF Typed
      <4>8. CASE mgr.at = "check"
        <5>1. After[mgr.at] = "start" /\ Head(pending).op = "check"
          BY <2>2, <4>8, BodyTyped DEF After
        <5>2. Whole => Configured(mgr.r.capsule, mgr.r.host)
          BY <4>8 DEF Progress, Held, Late
        <5>3. mgr'.r = mgr.r /\ rendered' = rendered
          BY <1>2, <4>0, <5>1, Fields
        <5>4. Whole => Configured(mgr.r.capsule, mgr.r.host)'
          BY <5>2, <5>3 DEF Configured
        <5> QED
          BY <3>0, <4>0, <4>1, <4>4, <4>8, <5>1, <5>4, Goes DEF Typed
      <4>9. CASE mgr.at = "start"
        <5>1. /\ After[mgr.at] = "completed" /\ Head(pending).op = "start"
              /\ Head(pending).capsule = mgr.r.capsule /\ Head(pending).gate = mgr.r.gate
          BY <2>2, <4>9, BodyTyped DEF After
        <5>2. Whole => Configured(mgr.r.capsule, mgr.r.host)
          BY <4>9 DEF Progress, Held, Late
        <5>3. mgr'.r = mgr.r /\ UNCHANGED <<rendered, shelf, running>>
          BY <4>0, <4>5, <5>1, Fields
        <5>4. Whole => Configured(mgr.r.capsule, mgr.r.host)'
          BY <5>2, <5>3 DEF Configured
        <5>5. job.capsule = mgr.r.capsule /\ job.gate = mgr.r.gate
          BY <1>0, <4>5, <5>1 DEF Serving
        <5>6. /\ shelf[job.capsule] # None => running = shelf[job.capsule]
              /\ job.gate => running \in Signed
          BY <1>0, <4>5, <5>1 DEF Work
        <5>7. /\ Whole => running' = shelf'[mgr.r.capsule]
              /\ mgr.r.gate => running' \in Signed
          BY <4>4, <4>9, <5>3, <5>5, <5>6
        <5> QED
          BY <3>0, <4>0, <4>1, <4>4, <4>9, <5>1, <5>4, <5>7, Goes DEF Typed
      <4> QED
        BY <2>2, <4>3, <4>6, <4>7, <4>8, <4>9 DEF CallSteps
    <3> QED
      BY <2>2, <3>1, <3>2, <3>3
  <2> QED
    BY <1>0, <1>3, <2>1, <2>2, Delivers
<1>4. CASE UNCHANGED <<mgr, pending>>
  BY <1>0, <1>1, <1>2, <1>4, AsideProgress
<1> QED
  BY <1>3, <1>4, Serves DEF Serving

-----------------------------------------------------------------------------
LEMMA InitInv == DInit => DInv
<1> SUFFICES ASSUME DInit PROVE DInv
  OBVIOUS
<1>1. Typed
  BY InitTyped
<1>2. Len(pending) = 0 /\ mgr = Resting /\ job = Idle
  BY EmptySeq DEF DInit, Init
<1>3. 1 .. Len(pending) = {}
  BY <1>2
<1> QED
  BY <1>1, <1>2, <1>3 DEF DInv, Queued, Serving, Work, Filed, Held, Ended, Resting, Idle,
     Plain, Whole

LEMMA StepInv == DInv /\ [DNext]_vars => DInv'
<1> SUFFICES ASSUME DInv, [DNext]_vars PROVE DInv'
  OBVIOUS
<1>1. Typed /\ Queued /\ Serving /\ Work /\ Progress
  BY DEF DInv, Progress
<1>2. Typed' /\ Queued' /\ Serving' /\ Work'
  BY <1>1, TypedNext, QueuedNext, WorkNext
<1>3. Progress'
  <2>1. CASE \E r \in Deployments : BeginDeployment(r)
    BY <1>1, <2>1, BeginProgress
  <2>2. CASE Validate \/ Skip \/ Verify \/ Copy \/ PrepareRuntime \/ Unprepared
    BY <1>1, <2>2, OwnMoveProgress
  <2>3. CASE Send
    BY <1>1, <2>3, SendProgress
  <2>4. CASE Lose \/ KillManager
    BY <1>1, <2>4, ForgetsProgress
  <2>5. CASE AgentStep
    BY <1>1, <2>5, AgentProgress
  <2>6. CASE Dismiss
    BY <2>6, Rests DEF Dismiss
  <2>7. CASE KillAgent
    <3>1. pending # <<>> /\ pending' = <<>> /\ UNCHANGED <<file, mgr, shelf, rendered>>
      BY <2>7 DEF KillAgent, Kill, agent, contract
    <3> QED
      BY <1>1, <3>1, AsideProgress
  <2>8. CASE UNCHANGED vars
    <3>1. UNCHANGED <<file, mgr, pending, shelf, rendered, running>>
      BY <2>8 DEF vars, agent, contract
    <3> QED
      BY <1>1, <3>1, Keeps
  <2> QED
    BY <2>1, <2>2, <2>3, <2>4, <2>5, <2>6, <2>7, <2>8 DEF DNext, ManagerStep
<1> QED
  BY <1>2, <1>3 DEF DInv, Progress

LEMMA AlwaysInv == DSpec => []DInv
BY InitInv, StepInv, PTL DEF DSpec

\* All state of the Manager, the queue of calls and the Agent keeps its type.
THEOREM DeploymentTyped == DSpec => []DTypeOK
<1>1. DInv => DTypeOK
  <2> SUFFICES ASSUME Typed PROVE DTypeOK
    BY DEF DInv
  <2>1. mgr \in ManagerTypes /\ (mgr.at # "idle" => mgr.r # None)
    BY Asked DEF Typed
  <2>2. /\ mgr.at \in Chain \cup {"idle", "failed"} /\ mgr.r \in Deployments \cup {None}
        /\ mgr.attempt \in 1..3 /\ mgr.waiting \in BOOLEAN
    <3> HIDE DEF Chain
    <3> QED
      BY <2>1 DEF ManagerTypes
  <2> QED
    BY <2>1, <2>2 DEF Typed, DTypeOK, Builds0
<1> QED
  BY <1>1, AlwaysInv, PTL

\* A deployment reported complete has configured the instance as asked and left
\* it running its capsule (deploy.py, run_deployment_workflow), whatever the
\* number of capsules, builds, hosts and deployments, and of lost and late calls.
THEOREM CompletedRunIt == DSpec => []CompletedRuns
<1>1. DInv => CompletedRuns
  <2> SUFFICES ASSUME DInv, mgr.at = "completed", ~mgr.r.plan PROVE CompletedRuns
    BY DEF CompletedRuns
  <2>1. Plain /\ Held /\ Ended
    BY DEF Plain, DInv
  <2>2. ~mgr.r.only => /\ Configured(mgr.r.capsule, mgr.r.host)
                       /\ Given => shelf[mgr.r.capsule] = mgr.r.build
    BY <2>1 DEF Held, Whole, Late
  <2> QED
    BY <2>1, <2>2 DEF Ended, Whole, Given, Configured, CompletedRuns
<1> QED
  BY <1>1, AlwaysInv, PTL

-----------------------------------------------------------------------------
(* The Agent of a deployment keeps the contract that AgentRuntime          *)
(* implements: every call it is sent is one that the contract has.         *)

Sent(c) ==
    /\ c.op \in {"import", "configure", "start"} => c.capsule \in Capsules
    /\ c.op = "configure" => c.host \in Hosts /\ c.gate = FALSE
    /\ c.op = "start" => c.host = None
Sendable == \A i \in 1 .. Len(pending) : Sent(pending[i])

\* How a step can change the queue
LEMMA QueueMoves ==
    ASSUME DInv, [DNext]_vars
    PROVE  \/ pending' \in {pending, Forgotten, <<>>}
           \/ mgr.at \in CallSteps /\ pending' = Append(pending, Body(mgr.at))
           \/ pending # <<>> /\ pending' = Tail(pending)
<1>0. Typed /\ Queued /\ Serving
  BY DEF DInv
<1>1. CASE (\E r \in Deployments : BeginDeployment(r)) \/ Dismiss
  BY <1>1 DEF BeginDeployment, Dismiss
<1>2. CASE Validate \/ Skip \/ Verify \/ Copy \/ PrepareRuntime \/ Unprepared
  BY <1>0, <1>2, OwnMove
<1>3. CASE Send
  BY <1>3 DEF Send
<1>4. CASE Lose \/ KillManager
  BY <1>0, <1>4, Forgets
<1>5. CASE AgentStep
  <2>1. pending # <<>> /\ ((\E result \in Answers : Deliver(result)) \/ UNCHANGED pending)
    BY <1>0, <1>5, Serves DEF Serving
  <2> QED
    BY <2>1 DEF Deliver
<1>6. CASE KillAgent
  BY <1>6 DEF KillAgent
<1>7. CASE UNCHANGED vars
  BY <1>7 DEF vars
<1> QED
  BY <1>1, <1>2, <1>3, <1>4, <1>5, <1>6, <1>7 DEF DNext, ManagerStep

\* What the client sends is a call of the contract, or an import or a check.
LEMMA BodySent ==
    ASSUME Typed, mgr.at \in CallSteps
    PROVE  Sent(Body(mgr.at))
<1>1. mgr.r \in Deployments
  BY DEF Typed, CallSteps
<1> QED
  BY <1>1, Asked DEF Body, ImportCall, CreateCall, UpdateCall, ProfileCall, CheckCall, StartCall,
     Call, CallSteps, Sent

LEMMA SendableNext ==
    ASSUME DInv, Sendable, [DNext]_vars
    PROVE  Sendable'
<1>0. Typed /\ Len(pending) \in Nat
  BY Queue DEF DInv
<1>1. CASE pending' = pending
  BY <1>1 DEF Sendable
<1>2. CASE pending' = <<>>
  <2>1. 1 .. Len(pending)' = {}
    BY <1>2, EmptySeq
  <2> QED
    BY <2>1 DEF Sendable
<1>3. CASE pending' = Forgotten
  <2>1. /\ Len(pending)' = Len(pending)
        /\ \A i \in 1 .. Len(pending) : pending'[i] = [pending[i] EXCEPT !.live = FALSE]
        /\ \A i \in 1 .. Len(pending) : pending[i] \in Calls
    BY <1>0, <1>3, QueueForgotten, Queue
  <2> SUFFICES ASSUME NEW i \in 1 .. Len(pending) PROVE Sent(pending'[i])
    BY <2>1 DEF Sendable
  <2>2. /\ pending'[i].op = pending[i].op /\ pending'[i].capsule = pending[i].capsule
        /\ pending'[i].host = pending[i].host /\ pending'[i].gate = pending[i].gate
    BY <2>1 DEF Calls
  <2>3. Sent(pending[i])
    BY DEF Sendable
  <2> QED
    BY <2>2, <2>3 DEF Sent
<1>4. CASE mgr.at \in CallSteps /\ pending' = Append(pending, Body(mgr.at))
  <2>1. Body(mgr.at) \in Calls /\ Sent(Body(mgr.at))
    BY <1>0, <1>4, BodyTyped, BodySent
  <2>2. /\ Len(pending)' = Len(pending) + 1 /\ pending'[Len(pending) + 1] = Body(mgr.at)
        /\ \A i \in 1 .. Len(pending) : pending'[i] = pending[i]
    BY <1>0, <1>4, <2>1, QueueAppend
  <2>3. ASSUME NEW i \in 1 .. Len(pending)' PROVE Sent(pending'[i])
    <3>1. i \in 1 .. Len(pending) \/ i = Len(pending) + 1
      BY <1>0, <2>2
    <3> QED
      BY <2>1, <2>2, <3>1 DEF Sendable
  <2> QED
    BY <2>3 DEF Sendable
<1>5. CASE pending # <<>> /\ pending' = Tail(pending)
  <2>1. Len(pending)' = Len(pending) - 1 /\ \A i \in 1 .. Len(pending)' : pending'[i] = pending[i + 1]
    BY <1>0, <1>5, QueueTail
  <2>2. ASSUME NEW i \in 1 .. Len(pending)' PROVE Sent(pending'[i])
    <3>1. i + 1 \in 1 .. Len(pending)
      BY <1>0, <2>1
    <3> QED
      BY <2>1, <3>1 DEF Sendable
  <2> QED
    BY <2>2 DEF Sendable
<1> QED
  BY <1>1, <1>2, <1>3, <1>4, <1>5, QueueMoves

LEMMA AgentStepKeeps ==
    ASSUME DInv, Sendable, AgentStep
    PROVE  [Next]_contract
<1>0. Typed /\ Queued
  BY DEF DInv
<1>1. ASSUME Due
      PROVE  job.at = "idle" /\ Turn \in Calls /\ Sent(Turn)
  <2>1. pending # <<>> /\ Turn = pending[1] /\ 1 \in 1 .. Len(pending) /\ pending[1] \in Calls
    BY <1>0, <1>1, Queue DEF Due, Turn
  <2> QED
    BY <1>1, <2>1 DEF Due, Sendable
<1>2. CASE Reject \/ ServeCheck
  BY <1>2 DEF Reject, ServeCheck, agent
<1>3. CASE TurnAway
  BY <1>1, <1>3 DEF TurnAway, Next
<1>4. CASE ServeImport
  <2>1. Due /\ Turn.op = "import"
    BY <1>4 DEF ServeImport
  <2>2. job.at = "idle" /\ Turn.capsule \in Capsules
    BY <1>1, <2>1 DEF Sent
  <2>3. file[Turn.capsule] \in Builds \cup {None} /\ shelf[Turn.capsule] \in Builds \cup {None}
    BY <1>0, <2>2 DEF Typed, Builds0
  <2>4. \/ UNCHANGED agent
        \/ \E kept \in Builds \cup {None} : Shelve(Turn.capsule, kept)
    BY <1>4, <2>3 DEF ServeImport
  <2> QED
    BY <2>2, <2>4 DEF Next, agent
<1>5. CASE ServeCall
  <2>1. /\ Due /\ Turn.op \in {"configure", "start"}
        /\ Begin(Turn.op, Turn.capsule, Turn.host, Turn.gate)
    BY <1>5 DEF ServeCall
  <2>2. job.at = "idle" /\ Turn.capsule \in Capsules /\ Turn.gate \in BOOLEAN
    BY <1>1, <2>1 DEF Sent, Calls
  <2>3. CASE Turn.op = "configure"
    <3>1. Turn.host \in Hosts /\ Turn.gate = FALSE
      BY <1>1, <2>1, <2>3 DEF Sent
    <3>2. Begin("configure", Turn.capsule, Turn.host, FALSE)
      BY <2>1, <2>3, <3>1
    <3> QED
      BY <2>2, <3>1, <3>2 DEF Next
  <2>4. CASE Turn.op = "start"
    <3>1. Turn.host = None
      BY <1>1, <2>1, <2>4 DEF Sent
    <3>2. Begin("start", Turn.capsule, None, Turn.gate)
      BY <2>1, <2>4, <3>1
    <3> QED
      BY <2>2, <3>2 DEF Next
  <2> QED
    BY <2>1, <2>3, <2>4
<1>6. CASE Serve
  <2>1. Settle \/ Render \/ Complete \/ Gate \/ Load \/ Down \/ Up
    BY <1>6 DEF Serve
  <2>2. job.at # "idle"
    BY <2>1 DEF Settle, Render, Complete, Gate, Load, Down, Up
  <2> QED
    BY <2>1, <2>2 DEF Next
<1>7. CASE AnswerCall
  <2>1. Answer /\ job.at # "idle"
    BY <1>7 DEF AnswerCall, Answer
  <2> QED
    BY <2>1 DEF Next
<1> QED
  BY <1>2, <1>3, <1>4, <1>5, <1>6, <1>7 DEF AgentStep

LEMMA StepKeeps ==
    ASSUME DInv, Sendable, [DNext]_vars
    PROVE  [Next]_contract
<1>1. CASE AgentStep
  BY <1>1, AgentStepKeeps
<1>2. CASE KillAgent
  <2>1. Kill \/ UNCHANGED agent
    BY <1>2 DEF KillAgent
  <2>2. Kill => job.at # "idle"
    BY DEF Kill
  <2> QED
    BY <2>1, <2>2 DEF Next, agent
<1>3. CASE ManagerStep \/ Dismiss \/ KillManager \/ \E r \in Deployments : BeginDeployment(r)
  <2>1. UNCHANGED agent
    BY <1>3 DEF ManagerStep, Validate, Skip, Verify, Copy, PrepareRuntime, Unprepared, Send, Lose,
       Dismiss, KillManager, BeginDeployment
  <2> QED
    BY <2>1 DEF agent
<1>4. CASE UNCHANGED vars
  BY <1>4 DEF vars
<1> QED
  BY <1>1, <1>2, <1>3, <1>4 DEF DNext

\* However calls are repeated, late or forgotten, what the Agent does in a
\* deployment are the steps of InstanceContract and no others: the calls that
\* the clients send, one after another, are calls that the Agent has.
THEOREM AgentKeepsContract == DSpec => Spec
<1>1. DInit => Sendable
  <2> SUFFICES ASSUME DInit PROVE Sendable
    OBVIOUS
  <2>1. 1 .. Len(pending) = {}
    BY EmptySeq DEF DInit
  <2> QED
    BY <2>1 DEF Sendable
<1>2. DInit => Init
  BY DEF DInit
<1>3. DInv /\ Sendable /\ [DNext]_vars => Sendable'
  BY SendableNext
<1>4. DInv /\ Sendable /\ [DNext]_vars => [Next]_contract
  BY StepKeeps
<1> QED
  BY <1>1, <1>2, <1>3, <1>4, AlwaysInv, PTL DEF DSpec, Spec

-----------------------------------------------------------------------------
(* What the contract is worth to whoever calls the Agent, of which a       *)
(* deployment is one: the capsule that the gate saw signed is still the    *)
(* one on the shelf when it is loaded, and loaded when it is brought up.   *)

ContractJobs == [at : JobPlaces \cup {"stop"}, capsule : Capsules \cup {None},
                 host : Hosts \cup {None}, gate : BOOLEAN, result : Results \cup {"none"}]
ContractTyped ==
    /\ job \in ContractJobs
    /\ rendered \in [capsule : Capsules, host : Hosts \cup {None}] \cup {None}
    /\ job.at \in {"settled", "rendered"} => job.capsule \in Capsules

GateHolds ==
    /\ Gated /\ job.at = "load" => \A c \in Meant : shelf[c] \in Signed
    /\ Gated /\ job.at \in {"down", "up"} => loaded \in Signed

GateInv == ContractTyped /\ GateHolds

\* Where a step leaves the job
LEMMA JobGoes ==
    ASSUME job \in ContractJobs
    PROVE  /\ \A p \in JobPlaces : Go(p) =>
                  /\ job' \in ContractJobs /\ job'.at = p
                  /\ job'.capsule = job.capsule /\ job'.gate = job.gate /\ job'.result = job.result
           /\ \A r \in Results : Finish(r) => job' \in ContractJobs /\ job'.at = "outcome" /\ job'.result = r
           /\ \A c \in Capsules : job' = [job EXCEPT !.at = "settled", !.capsule = c] =>
                  job' \in ContractJobs /\ job'.at = "settled" /\ job'.capsule = c
           /\ Idle \in ContractJobs /\ Idle.at = "idle"
<1>1. ASSUME NEW p \in JobPlaces, Go(p)
      PROVE  /\ job' \in ContractJobs /\ job'.at = p
             /\ job'.capsule = job.capsule /\ job'.gate = job.gate /\ job'.result = job.result
  BY <1>1 DEF Go, ContractJobs
<1>2. ASSUME NEW r \in Results, Finish(r)
      PROVE  job' \in ContractJobs /\ job'.at = "outcome" /\ job'.result = r
  BY <1>2 DEF Finish, ContractJobs, JobPlaces
<1>3. ASSUME NEW c \in Capsules, job' = [job EXCEPT !.at = "settled", !.capsule = c]
      PROVE  job' \in ContractJobs /\ job'.at = "settled" /\ job'.capsule = c
  BY <1>3 DEF ContractJobs, JobPlaces
<1>4. Idle \in ContractJobs /\ Idle.at = "idle"
  BY DEF Idle, ContractJobs, JobPlaces
<1> QED
  BY <1>1, <1>2, <1>3, <1>4

\* The steps of the contract; what a call begins with
LEMMA ContractSteps ==
    ASSUME ContractTyped, [Next]_contract
    PROVE  \/ Settle \/ Render \/ Complete \/ Gate \/ Load \/ Down \/ Up \/ Answer \/ Kill
           \/ /\ UNCHANGED rendered /\ job.at = "idle" /\ running' = running
              /\ \/ UNCHANGED job
                 \/ job' \in ContractJobs /\ job'.at \in {"configure", "start", "stop"}
           \/ UNCHANGED contract
<1>1. ASSUME NEW op \in {"configure", "start", "stop"}, NEW c \in Capsules \cup {None},
             NEW h \in Hosts \cup {None}, NEW gate \in BOOLEAN, Begin(op, c, h, gate)
      PROVE  /\ UNCHANGED <<rendered, running>> /\ job.at = "idle"
             /\ job' \in ContractJobs /\ job'.at \in {"configure", "start", "stop"}
  BY <1>1 DEF Begin, Idle, ContractJobs, JobPlaces
<1>2. ASSUME NEW c, NEW b, Shelve(c, b)
      PROVE  UNCHANGED <<job, rendered, running>> /\ job.at = "idle"
  BY <1>2 DEF Shelve
<1>3. ASSUME NEW e, Refuse(e)
      PROVE  UNCHANGED <<job, rendered, running>> /\ job.at = "idle"
  BY <1>3 DEF Refuse
<1>4. FALSE \in BOOLEAN /\ None \in Capsules \cup {None} /\ None \in Hosts \cup {None}
      /\ Hosts \subseteq Hosts \cup {None}
  OBVIOUS
<1> QED
  BY <1>1, <1>2, <1>3, <1>4 DEF Next

LEMMA ContractTypedNext ==
    ASSUME ContractTyped, [Next]_contract
    PROVE  ContractTyped'
<1> USE DEF ContractTyped
<1>1. {"idle", "configure", "settled", "rendered", "start", "load", "down", "up"} \subseteq JobPlaces
      /\ {"ok", "failed", "blocked"} = Results
  BY DEF JobPlaces, Results
<1>2. CASE Settle
  <2>1. Meant \ {None} \subseteq Capsules
    BY DEF Meant, ContractJobs
  <2> QED
    BY <1>1, <1>2, <2>1, JobGoes DEF Settle
<1>3. CASE Render
  <2>1. job.capsule \in Capsules /\ job.host \in Hosts \cup {None}
    BY <1>3 DEF Render, ContractJobs
  <2>2. [capsule |-> job.capsule, host |-> job.host] \in [capsule : Capsules, host : Hosts \cup {None}]
    BY <2>1
  <2>3. CASE Go("rendered") /\ rendered' = [capsule |-> job.capsule, host |-> job.host]
    <3>1. job' \in ContractJobs /\ job'.capsule \in Capsules
      BY <1>1, <2>1, <2>3, JobGoes
    <3> QED
      BY <2>2, <2>3, <3>1
  <2>4. CASE Finish("failed") /\ rendered' = rendered
    <3>1. job' \in ContractJobs /\ job'.at = "outcome"
      BY <1>1, <2>4, JobGoes
    <3> QED
      BY <2>4, <3>1
  <2> QED
    BY <1>3, <2>3, <2>4 DEF Render
<1>4. CASE Complete \/ Gate
  BY <1>1, <1>4, JobGoes DEF Complete, Gate
<1>5. CASE Load
  BY <1>1, <1>5, JobGoes DEF Load
<1>6. CASE Down \/ Up
  BY <1>1, <1>6, JobGoes DEF Down, Up
<1>7. CASE Answer \/ Kill
  BY <1>7, JobGoes DEF Answer, Kill
<1>8. CASE UNCHANGED contract
  BY <1>8 DEF contract
<1> QED
  BY <1>2, <1>3, <1>4, <1>5, <1>6, <1>7, <1>8, ContractSteps

LEMMA GateHoldsNext ==
    ASSUME GateInv, [Next]_contract
    PROVE  GateHolds'
<1> USE DEF GateInv, ContractTyped, GateHolds, Gated
<1>1. {"idle", "configure", "settled", "rendered", "start", "load", "down", "up"} \subseteq JobPlaces
      /\ {"ok", "failed", "blocked"} = Results
  BY DEF JobPlaces, Results
<1>2. CASE Gate
  <2>1. CASE Go("load") /\ (Gated => \A c \in Meant : shelf[c] \in Signed)
    <3>1. UNCHANGED <<rendered, shelf, loaded>> /\ job'.at = "load" /\ Meant' = Meant /\ Gated' = Gated
      BY <1>1, <1>2, <2>1, JobGoes DEF Gate, Meant
    <3> QED
      BY <2>1, <3>1
  <2>2. CASE Finish("blocked")
    BY <1>1, <2>2, JobGoes
  <2> QED
    BY <1>2, <2>1, <2>2 DEF Gate
<1>3. CASE Load
  <2>1. CASE Gated /\ job.at = "load"
    <3>1. \A c \in Meant : shelf[c] \in Signed /\ c # None /\ shelf[c] # None
      BY <2>1, DeploymentAssumption DEF Meant
    <3>2. job'.at \in {"down", "up"} => loaded' \in Signed
      BY <1>1, <1>3, <3>1, JobGoes DEF Load
    <3>3. job'.at # "load"
      BY <1>1, <1>3, JobGoes DEF Load
    <3> QED
      BY <3>2, <3>3
  <2>2. (job'.at = "outcome" \/ job'.gate = job.gate) /\ job'.at # "load" /\ rendered' = rendered
        /\ job.at = "load"
    BY <1>1, <1>3, JobGoes DEF Load
  <2> QED
    BY <2>1, <2>2
<1>4. CASE Down
  BY <1>1, <1>4, JobGoes DEF Down
<1>5. CASE Settle
  <2>1. Meant \ {None} \subseteq Capsules
    BY DEF Meant, ContractJobs
  <2> QED
    BY <1>1, <1>5, <2>1, JobGoes DEF Settle
<1>6. CASE Render \/ Complete \/ Up
  BY <1>1, <1>6, JobGoes DEF Render, Complete, Up
<1>7. CASE Answer \/ Kill
  BY <1>7, JobGoes DEF Answer, Kill
<1>8. CASE UNCHANGED contract
  BY <1>8 DEF contract, Meant
<1>9. CASE job.at = "idle" /\ (job' = job \/ job'.at \in {"configure", "start", "stop"})
  BY <1>9
<1> QED
  BY <1>2, <1>3, <1>4, <1>5, <1>6, <1>7, <1>8, <1>9, ContractSteps

LEMMA GateAlways == Spec => []GateInv
<1>1. Init => GateInv
  BY DeploymentAssumption
     DEF Init, Idle, GateInv, ContractTyped, ContractJobs, GateHolds, JobPlaces, Results, Gated
<1>2. GateInv /\ [Next]_contract => GateInv'
  BY ContractTypedNext, GateHoldsNext DEF GateInv
<1> QED
  BY <1>1, <1>2, PTL DEF Spec

\* Whoever keeps the contract runs, for a gated call, signed builds only: what
\* the gate saw is still true when it is used.
THEOREM ContractVerifies == Spec => GatedRunsSigned
<1>1. GateInv /\ [Next]_contract =>
         [job.gate =>
             /\ running' \in {running, None} \cup Signed
             /\ job.at = "up" /\ job'.result = "ok" => running' \in Signed]_contract
  <2> SUFFICES ASSUME GateInv, [Next]_contract, job.gate, ~UNCHANGED contract
               PROVE  /\ running' \in {running, None} \cup Signed
                      /\ job.at = "up" /\ job'.result = "ok" => running' \in Signed
    OBVIOUS
  <2>1. CASE Up
    <3>1. CASE running' = loaded /\ rendered # None
      BY <2>1, <3>1 DEF Up, GateInv, GateHolds, Gated
    <3>2. CASE Finish("failed") /\ running' = running
      BY <3>2, JobGoes DEF GateInv, ContractTyped, Results
    <3> QED
      BY <2>1, <3>1, <3>2 DEF Up
  <2>2. CASE Down
    BY <2>2 DEF Down
  <2>3. CASE running' = running /\ job.at # "up"
    BY <2>3
  <2>4. CASE Kill
    BY <2>4 DEF Kill, Idle
  <2>5. (Settle \/ Render \/ Complete \/ Gate \/ Load \/ Answer) => running' = running /\ job.at # "up"
    BY DEF Settle, Render, Complete, Gate, Load, Answer
  <2> QED
    BY <2>1, <2>2, <2>3, <2>4, <2>5, ContractSteps DEF GateInv
<1> QED
  BY <1>1, GateAlways, PTL DEF Spec, GatedRunsSigned

\* No deployment makes the Agent run an unsigned build by a start that asks
\* for the gate, reported complete or not, late, repeated or forgotten.
COROLLARY DeployedGateHolds == DSpec => GatedRunsSigned
  BY AgentKeepsContract, ContractVerifies
=============================================================================
