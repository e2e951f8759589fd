-------------------------- MODULE InstanceContract --------------------------
(***************************************************************************)
(* What the Agent promises its callers about one instance: the calls that  *)
(* configure, start and stop it, one at a time, seen from outside.  Which  *)
(* files a call writes, which writer writes them, the passwords and the    *)
(* audit are left out: AgentRuntime implements this contract with them,    *)
(* and Deployment calls it.                                                *)
(***************************************************************************)

CONSTANTS
    Capsules, Builds, Signed, Unloaded,  \* as in AgentRuntime
    Hosts,                               \* host names an instance is published under
    None

VARIABLES
    job,       \* the call being served
    rendered,  \* capsule and host of the compose file
    shelf,     \* builds of the imported capsules
    loaded,    \* build under the image tags
    running,   \* build that the containers run
    reply      \* what the last caller was told

contract == <<job, rendered, shelf, loaded, running, reply>>

Idle == [at |-> "idle", capsule |-> None, host |-> None, gate |-> FALSE, result |-> "none"]
Results == {"ok", "failed", "blocked"}
Errors == {"unauthorized", "unavailable", "error"}

Init ==
    /\ job = Idle /\ rendered = None /\ shelf = [c \in Capsules |-> None]
    /\ loaded = Unloaded /\ running = None /\ reply = "none"

Go(place) == job' = [job EXCEPT !.at = place]
Finish(result) == job' = [job EXCEPT !.at = "outcome", !.result = result]

\* A call is one of "configure", "start" and "stop".
Begin(op, capsule, host, gate) ==
    /\ job.at = "idle"
    /\ job' = [Idle EXCEPT !.at = op, !.capsule = capsule, !.host = host, !.gate = gate]
    /\ reply' = "none"
    /\ UNCHANGED <<rendered, shelf, loaded, running>>

Refuse(error) ==
    /\ job.at = "idle"
    /\ reply' = error
    /\ UNCHANGED <<job, rendered, shelf, loaded, running>>

\* The capsule that a call is about if it names none; before the first
\* rendering only the Agent knows.
Meant ==
    IF job.capsule # None THEN {job.capsule}
    ELSE IF rendered # None THEN {rendered.capsule} ELSE Capsules \cup {None}

\* Without a capsule or with settings that are refused, nothing is rendered.
Settle ==
    /\ job.at = "configure"
    /\ \/ \E c \in Meant \ {None} : job' = [job EXCEPT !.at = "settled", !.capsule = c]
       \/ Finish("failed")
    /\ UNCHANGED <<rendered, shelf, loaded, running, reply>>

Render ==
    /\ job.at = "settled"
    /\ \/ rendered' = [capsule |-> job.capsule, host |-> job.host] /\ Go("rendered")
       \/ Finish("failed") /\ UNCHANGED rendered
    /\ UNCHANGED <<shelf, loaded, running, reply>>

\* What follows may fail with the compose file replaced: a caller who is told
\* that a configuration failed does not know what is rendered.
Complete ==
    /\ job.at = "rendered"
    /\ Finish("ok") \/ Finish("failed")
    /\ UNCHANGED <<rendered, shelf, loaded, running, reply>>

\* A gated start of a rendered instance goes on with a signed build only.
Gated == job.gate /\ rendered # None
Gate ==
    /\ job.at = "start"
    /\ \/ Go("load") /\ (Gated => \A c \in Meant : shelf[c] \in Signed)
       \/ Gated /\ Finish("blocked")
    /\ UNCHANGED <<rendered, shelf, loaded, running, reply>>

\* What is loaded is the build on the shelf; without one nothing is.
Load ==
    /\ job.at = "load"
    /\ \E c \in Meant :
          LET found == c # None /\ shelf[c] # None
          IN  \/ found /\ loaded' = shelf[c] /\ (Go("down") \/ Go("up"))
              \/ ~found /\ Go("up") /\ UNCHANGED loaded
              \/ Finish("failed") /\ loaded' \in {loaded} \cup IF found THEN {shelf[c]} ELSE {}
    /\ UNCHANGED <<rendered, shelf, running, reply>>

Down ==
    /\ job.at \in {"down", "stop"}
    /\ \/ /\ running' = None
          /\ IF job.at = "down" THEN Go("up") ELSE Finish("ok")
       \/ running' \in {running, None} /\ Finish("failed")
    /\ UNCHANGED <<rendered, shelf, loaded, reply>>

Up ==
    /\ job.at = "up"
    /\ \/ /\ rendered # None /\ loaded # Unloaded
          /\ running' = loaded
          /\ Finish("ok") \/ Finish("failed")
       \/ Finish("failed") /\ UNCHANGED running
    /\ UNCHANGED <<rendered, shelf, loaded, reply>>

\* The answer is the result, or an error if the audit log fails.
Answer ==
    /\ job.at = "outcome"
    /\ job' = Idle
    /\ reply' \in {job.result, "error"}
    /\ UNCHANGED <<rendered, shelf, loaded, running>>

Kill ==
    /\ job.at # "idle"
    /\ job' = Idle
    /\ UNCHANGED <<rendered, shelf, loaded, running, reply>>

\* An import, or the loss of an extraction, between two calls.
Shelve(capsule, build) ==
    /\ job.at = "idle"
    /\ shelf' = [shelf EXCEPT ![capsule] = build]
    /\ UNCHANGED <<job, rendered, loaded, running, reply>>

Next ==
    \/ /\ job.at = "idle"
       /\ \/ \E c \in Capsules \cup {None}, h \in Hosts : Begin("configure", c, h, FALSE)
          \/ \E c \in Capsules \cup {None}, gate \in BOOLEAN : Begin("start", c, None, gate)
          \/ Begin("stop", None, None, FALSE)
          \/ \E e \in Errors : Refuse(e)
          \/ \E c \in Capsules, b \in Builds \cup {None} : Shelve(c, b)
    \/ /\ job.at # "idle"
       /\ \/ Settle \/ Render \/ Complete \/ Gate \/ Load \/ Down \/ Up \/ Answer \/ Kill

Spec == Init /\ [][Next]_contract

-----------------------------------------------------------------------------
(* What callers may conclude.                                              *)

\* A gated call brings nothing up but a signed build, and when it reports a
\* start it has brought one up (handle_instance_start, actions.py:1043-1141).
GatedRunsSigned ==
    [][job.gate =>
          /\ running' \in {running, None} \cup Signed
          /\ job.at = "up" /\ job'.result = "ok" => running' \in Signed]_contract
=============================================================================
