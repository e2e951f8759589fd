----------------------------- MODULE Deployment -----------------------------
(***************************************************************************)
(* A deployment: the Manager's chain of steps (services/deploy.py), the    *)
(* client that sends each to the Agent of a Droplet over SSH, with up to   *)
(* three attempts, or to a local one over HTTP                             *)
(* (ui/agent_execution_client.py), and the Agent, which keeps the          *)
(* InstanceContract.                                                       *)
(*                                                                         *)
(* A call that reached the Agent is served, whether or not the Manager     *)
(* still waits for its answer, unless the Agent is killed; calls are       *)
(* served in the order of their arrival.  An attempt starts seconds after  *)
(* the connection of the one before it has ended, so arrivals do not pass  *)
(* each other.  The Manager runs one deployment at a time.                 *)
(***************************************************************************)
EXTENDS InstanceContract, Naturals, Sequences

CONSTANTS
    Deployments,    \* what the operator asks for
    Intact,         \* builds whose files and checksums agree: all the Builder verifies here
    MaxDeployments  \* bound: deployments begun

ASSUME DeploymentAssumption ==
    /\ Deployments \subseteq
          [droplet : BOOLEAN, temporary : BOOLEAN, confirmed : BOOLEAN, only : BOOLEAN, capsule : Capsules,
           build : Builds, host : Hosts, verify : BOOLEAN, copy : BOOLEAN, update : BOOLEAN,
           gate : BOOLEAN, start : BOOLEAN, plan : BOOLEAN]
    /\ Signed \subseteq Builds /\ Intact \subseteq Builds /\ Unloaded \notin Builds
    /\ None \notin Capsules \cup Builds \cup Hosts \cup Deployments \cup {Unloaded}
    /\ MaxDeployments \in Nat

VARIABLES
    file,     \* build in the capsule file that an import names
    mgr,      \* the Manager's deployment, and how far it is
    pending,  \* calls that the Agent has to answer, oldest first
    begun     \* deployments begun

agent == contract
vars == <<contract, file, mgr, pending, begun>>

-----------------------------------------------------------------------------
(* The chain.                                                              *)

Resting == [at |-> "idle", r |-> None, attempt |-> 1, waiting |-> FALSE, why |-> "none"]

After ==
    [validate |-> "verify", verify |-> "copy", copy |-> "runtime", runtime |-> "import",
     import |-> "instance", instance |-> "profile", profile |-> "check", check |-> "start",
     start |-> "completed"]
Chain == DOMAIN After \cup {"completed"}
CallSteps == {"import", "instance", "profile", "check", "start"}

DInit ==
    /\ Init
    /\ file = [c \in Capsules |-> None]
    /\ mgr = Resting /\ pending = <<>> /\ begun = 0

Enter(step) == mgr' = [mgr EXCEPT !.at = step, !.attempt = 1, !.waiting = FALSE]
Pass == Enter(After[mgr.at])
Fail(why) == mgr' = [mgr EXCEPT !.at = "failed", !.waiting = FALSE, !.why = why]

\* A local deployment finds its capsule file in place.
BeginDeployment(r) ==
    /\ mgr.at = "idle" /\ begun < MaxDeployments
    /\ mgr' = [Resting EXCEPT !.at = "validate", !.r = r]
    /\ file' = IF r.droplet THEN file ELSE [file EXCEPT ![r.capsule] = r.build]
    /\ begun' = begun + 1
    /\ UNCHANGED <<agent, pending>>

\* Whatever is public must be confirmed, save the start of an instance on its
\* own.  Malformed requests end as the unconfirmed ones do.
Public(r) == r.droplet \/ r.temporary
Validate ==
    /\ mgr.at = "validate"
    /\ CASE mgr.r.only -> Enter("start")
         [] ~mgr.r.only /\ (Public(mgr.r) => mgr.r.confirmed) -> Pass
         [] OTHER -> Fail("invalid")
    /\ UNCHANGED <<agent, file, pending, begun>>

\* Steps that are recorded as skipped, or as planned.
Skipped(r, step) ==
    \/ step = "verify" /\ ~r.verify
    \/ step \in {"copy", "runtime"} /\ ~(r.droplet /\ r.copy)
    \/ step = "check" /\ ~r.gate
    \/ step = "start" /\ ~r.start
Planned(r, step) == step \in {"copy", "runtime"} \cup CallSteps /\ r.plan

Skip ==
    /\ Planned(mgr.r, mgr.at) \/ Skipped(mgr.r, mgr.at)
    /\ Pass
    /\ UNCHANGED <<agent, file, pending, begun>>

Now(step) == mgr.at = step /\ ~Skipped(mgr.r, step) /\ ~Planned(mgr.r, step)

\* The Builder verifies the file where the Manager is, even for a plan: its
\* files and checksums, and no signature.
Verify ==
    /\ Now("verify")
    /\ IF mgr.r.build \in Intact THEN Pass ELSE Fail("unverified")
    /\ UNCHANGED <<agent, file, pending, begun>>

\* CapsuleTransfer has the steps of the copy.
Copy ==
    /\ Now("copy")
    /\ LET copied == [file EXCEPT ![mgr.r.capsule] = mgr.r.build]
       IN  \/ file' = copied /\ Pass
           \/ file' \in {file, copied} /\ Fail("failed")
    /\ UNCHANGED <<agent, pending, begun>>

\* Directories are made; the probes of the Agent that follow never fail.
PrepareRuntime ==
    /\ Now("runtime")
    /\ Pass \/ Fail("failed")
    /\ UNCHANGED <<agent, file, pending, begun>>

-----------------------------------------------------------------------------
(* The client.                                                             *)

Call == [op |-> "none", capsule |-> mgr.r.capsule, host |-> None, gate |-> FALSE,
         verify |-> FALSE, overwrite |-> FALSE, undated |-> FALSE, live |-> TRUE]

\* Mutant of ImportCall: the importer's own default.
ImportCallKeeping == [Call EXCEPT !.op = "import", !.verify = ~mgr.r.droplet]

\* A Droplet's Agent is told not to verify what the Manager has verified.
ImportCall == [Call EXCEPT !.op = "import", !.verify = ~mgr.r.droplet, !.overwrite = TRUE]
\* A creation never says when a temporary public mode ends.
CreateCall == [Call EXCEPT !.op = "configure", !.host = mgr.r.host, !.undated = mgr.r.temporary]
UpdateCall == [Call EXCEPT !.op = "update", !.capsule = None]
ProfileCall == [Call EXCEPT !.op = "configure", !.host = mgr.r.host]
CheckCall == [Call EXCEPT !.op = "check", !.capsule = None]
StartCall == [Call EXCEPT !.op = "start", !.gate = mgr.r.gate]

Body(step) ==
    CASE step = "import"   -> ImportCall
      [] step = "instance" -> IF mgr.r.update THEN UpdateCall ELSE CreateCall
      [] step = "profile"  -> ProfileCall
      [] step = "check"    -> CheckCall
      [] step = "start"    -> StartCall

\* Access rights are repaired over SSH before two of the calls.
Unprepared ==
    /\ Now("import") \/ Now("instance")
    /\ mgr.r.droplet /\ mgr.attempt = 1 /\ ~mgr.waiting
    /\ Fail("failed")
    /\ UNCHANGED <<agent, file, pending, begun>>

Send ==
    /\ mgr.at \in CallSteps /\ Now(mgr.at) /\ ~mgr.waiting
    /\ pending' = Append(pending, Body(mgr.at))
    /\ mgr' = [mgr EXCEPT !.waiting = TRUE]
    /\ UNCHANGED <<agent, file, begun>>

\* Mutant of Attempts: the last number is tried, too.
AttemptsInclusive == IF mgr.r.droplet THEN 4 ELSE 1

Attempts == IF mgr.r.droplet THEN 3 ELSE 1
Retry == mgr.attempt < Attempts /\ mgr' = [mgr EXCEPT !.attempt = @ + 1, !.waiting = FALSE]
\* Nobody waits for an answer any more.
Forgotten == [i \in DOMAIN pending |-> [pending[i] EXCEPT !.live = FALSE]]

RetryForever == mgr' = [mgr EXCEPT !.waiting = FALSE]

\* Mutants of Lose: attempts are not counted; an answer that never came is
\* taken for the success of a call that was sent.
LoseForever ==
    /\ mgr.at \in CallSteps /\ Now(mgr.at)
    /\ RetryForever
    /\ pending' = Forgotten
    /\ UNCHANGED <<agent, file, begun>>
LosePassing ==
    /\ mgr.at \in CallSteps /\ Now(mgr.at)
    /\ Retry \/ Fail("lost") \/ (mgr.waiting /\ Pass)
    /\ pending' = Forgotten
    /\ UNCHANGED <<agent, file, begun>>

\* There is no connection, it breaks, or its time is over.
Lose ==
    /\ mgr.at \in CallSteps /\ Now(mgr.at)
    /\ Retry \/ Fail("lost")
    /\ pending' = Forgotten
    /\ UNCHANGED <<agent, file, begun>>

\* An HTTP error is retried if its text reads like a network's.
Heard(result) ==
    CASE result = "ok"    -> Pass
      [] result = "error" -> Retry \/ Fail("failed")
      [] OTHER            -> Fail(result)

Deliver(result) ==
    /\ pending' = Tail(pending)
    /\ IF Head(pending).live THEN Heard(result) ELSE UNCHANGED mgr

\* The operator has seen the outcome.
Dismiss ==
    /\ mgr.at \in {"completed", "failed"}
    /\ mgr' = Resting
    /\ UNCHANGED <<agent, file, pending, begun>>

KillManager ==
    /\ mgr.at # "idle"
    /\ mgr' = Resting
    /\ pending' = Forgotten
    /\ UNCHANGED <<agent, file, begun>>

-----------------------------------------------------------------------------
(* The Agent.                                                              *)

Due == pending # <<>> /\ job.at = "idle"
Turn == Head(pending)

\* What the request models do not take: an update as the clients send it, and
\* a temporary public mode without an end.
Rejected(call) == call.op = "update" \/ call.undated

Reject ==
    /\ Due /\ Rejected(Turn)
    /\ Deliver("refused")
    /\ UNCHANGED <<agent, file, begun>>

TurnAway ==
    /\ Due
    /\ \E e \in Errors : Refuse(e)
    /\ Deliver("error")
    /\ UNCHANGED <<file, begun>>

\* handle_capsule_import.  ArtifactStore has its steps.
ServeImport ==
    /\ Due /\ Turn.op = "import"
    /\ IF ~Turn.overwrite /\ shelf[Turn.capsule] # None
       THEN Deliver("refused") /\ UNCHANGED agent
       ELSE LET build == file[Turn.capsule]
            IN  \/ /\ build # None /\ (Turn.verify => build \in Signed)
                   /\ Shelve(Turn.capsule, build)
                   /\ Deliver("ok") \/ Deliver("error")
                \/ /\ \E kept \in {shelf[Turn.capsule], build, None} : Shelve(Turn.capsule, kept)
                   /\ Deliver("failed")
    /\ UNCHANGED <<file, begun>>

\* handle_security_check, of the capsule that the compose file names.
ServeCheck ==
    /\ Due /\ Turn.op = "check"
    /\ \/ /\ rendered = None \/ shelf[rendered.capsule] \in Signed
          /\ Deliver("ok") \/ Deliver("error")
       \/ rendered # None /\ Deliver("blocked")
    /\ UNCHANGED <<agent, file, begun>>

ServeCall ==
    /\ Due /\ ~Rejected(Turn) /\ Turn.op \in {"configure", "start"}
    /\ Begin(Turn.op, Turn.capsule, Turn.host, Turn.gate)
    /\ UNCHANGED <<file, mgr, pending, begun>>

Serve ==
    /\ Settle \/ Render \/ Complete \/ Gate \/ Load \/ Down \/ Up
    /\ UNCHANGED <<file, mgr, pending, begun>>

AnswerCall ==
    /\ Answer /\ Deliver(reply')
    /\ UNCHANGED <<file, begun>>

\* Calls that are not answered are forgotten.
KillAgent ==
    /\ pending # <<>>
    /\ Kill \/ (job.at = "idle" /\ UNCHANGED agent)
    /\ pending' = <<>>
    /\ UNCHANGED <<file, mgr, begun>>

-----------------------------------------------------------------------------
ManagerStep == Validate \/ Skip \/ Verify \/ Copy \/ PrepareRuntime \/ Unprepared \/ Send \/ Lose
AgentStep == Reject \/ TurnAway \/ ServeImport \/ ServeCheck \/ ServeCall \/ Serve \/ AnswerCall

DNext ==
    \/ \E r \in Deployments : BeginDeployment(r)
    \/ ManagerStep \/ AgentStep
    \/ Dismiss \/ KillManager \/ KillAgent

DSpec == DInit /\ [][DNext]_vars

\* Every client has a time limit and every wait between attempts is finite.
\* Nothing is assumed of the Agent, which may hang.
FairSpec == DSpec /\ WF_vars(ManagerStep)

-----------------------------------------------------------------------------
(* Properties.                                                             *)

Calls == [op : {"import", "configure", "update", "check", "start"}, capsule : Capsules \cup {None},
          host : Hosts \cup {None}, gate : BOOLEAN, verify : BOOLEAN, overwrite : BOOLEAN,
          undated : BOOLEAN, live : BOOLEAN]

DTypeOK ==
    /\ file \in [Capsules -> Builds \cup {None}] /\ shelf \in [Capsules -> Builds \cup {None}]
    /\ rendered \in [capsule : Capsules, host : Hosts \cup {None}] \cup {None}
    /\ loaded \in Builds \cup {Unloaded} /\ running \in Builds \cup {None}
    /\ mgr.at \in Chain \cup {"idle", "failed"}
    /\ mgr.r \in Deployments \cup {None} /\ (mgr.at # "idle" => mgr.r # None)
    /\ mgr.attempt \in 1..3 /\ mgr.waiting \in BOOLEAN
    /\ pending \in Seq(Calls)

\* A deployment reported complete has configured the instance as asked and left
\* it running the capsule it was given, and a signed one if it ran the gate:
\* whatever was lost, retried or half done, here or by an earlier deployment.
CompletedRuns ==
    mgr.at = "completed" /\ ~mgr.r.plan =>
        /\ ~mgr.r.only => rendered = [capsule |-> mgr.r.capsule, host |-> mgr.r.host]
        /\ ~mgr.r.only /\ (mgr.r.copy \/ ~mgr.r.droplet) => shelf[mgr.r.capsule] = mgr.r.build
        /\ ~mgr.r.only /\ mgr.r.start => running = shelf[mgr.r.capsule]
        /\ mgr.r.gate /\ mgr.r.start => running \in Signed

\* What an attempt or a deployment left behind does not make the Agent refuse
\* the next: a failed deployment can be repeated (deploy.py, overwrite).  The
\* two kinds that the request models refuse are refused on a new host, too.
LeftoversDoNotRefuse == mgr.why = "refused" => mgr.r.update \/ mgr.r.temporary

\* Every deployment comes to an end, though the Agent may never answer.
DeploymentEnds == mgr.at # "idle" ~> mgr.at \in {"idle", "completed", "failed"}

-----------------------------------------------------------------------------
(* What one might expect and the code does not provide (README).           *)

\* What a deployment without a copy starts is what it verified.
VerifiedIsDeployed ==
    mgr.at = "completed" /\ mgr.r.start /\ mgr.r.verify /\ ~mgr.r.plan => running = mgr.r.build

\* An instance changes only while a deployment is under way.
FailedIsFinal == [][running' # running => mgr.at \notin {"idle", "failed"}]_vars

\* An existing instance can be updated, and a temporary public one deployed.
EveryKindIsAccepted == mgr.why # "refused"
=============================================================================
