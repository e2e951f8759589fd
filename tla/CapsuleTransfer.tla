-------------------------- MODULE CapsuleTransfer --------------------------
(***************************************************************************)
(* Copying a capsule to a Droplet and importing it there                   *)
(* (src/kx_manager/ui/agent_execution_client.py, services/deploy.py).      *)
(*                                                                         *)
(* The Manager runs one operation at a time: a copy, or a deployment that  *)
(* verifies the local file, copies it unless the operator says it was      *)
(* copied before, and has the Agent import the remote file unverified.     *)
(* The copy feeds the local file to a remote shell over SSH:               *)
(*      set -e; rm -f P; cat > P; mv -f P F                                *)
(* where P is F with the suffix .partial.  The shell is a process of the   *)
(* Droplet: it goes on when the Manager gives up or is killed, and reads   *)
(* end-of-file when its connection is closed, for whatever reason.         *)
(*                                                                         *)
(* External: OpenSSH and the shell.  Deleting and creating P is one step,  *)
(* which happens while the client lives, if at all (no shell starts after  *)
(* its client is gone), so every upload writes a file of its own.          *)
(***************************************************************************)
EXTENDS Integers

CONSTANTS
    Uploads,   \* upload attempts
    Builds,    \* contents of the local capsule file
    Good,      \* builds the local verifier accepts
    None,
    Chunks,    \* length of a capsule file, in chunks
    MaxRebuilds, \* bound: how often the local file is rebuilt
    MaxKills   \* bound: how often the Manager is killed

ASSUME TransferAssumption ==
    /\ None \notin Uploads /\ None \notin Builds
    /\ Good \subseteq Builds
    /\ Chunks \in Nat \ {0}
    /\ MaxRebuilds \in Nat /\ MaxKills \in Nat

VARIABLES
    local,    \* build in the local capsule file
    mgr,      \* the Manager's current operation
    sent,     \* sent[u]: chunks of u handed to ssh
    link,     \* link[u]: state of u's ssh client as the remote shell sees it
    shell,    \* shell[u]: the remote shell of u
    size,     \* size[u]: chunks in the file that u's cat writes
    content,  \* content[u]: build that u reads
    partial,  \* upload that wrote the file called P
    final,    \* upload that wrote the file called F
    readable, \* uploads whose file the Agent may read
    result,   \* result[u]: what the operation reported of its copy
    imported, \* the last import of the Agent
    last,     \* history: the upload started last
    rebuilds, kills \* used up of MaxRebuilds, MaxKills

remote == <<shell, size, partial, final>>
vars == <<local, mgr, sent, link, shell, size, content, partial, final,
          readable, result, imported, last, rebuilds, kills>>

-----------------------------------------------------------------------------
IdleManager == [at |-> "idle", upload |-> None, deploy |-> FALSE, verified |-> None]
Go(place) == mgr' = [mgr EXCEPT !.at = place]

Init ==
    /\ local \in Builds
    /\ mgr = IdleManager
    /\ sent = [u \in Uploads |-> 0]
    /\ link = [u \in Uploads |-> "none"]
    /\ shell = [u \in Uploads |-> "none"]
    /\ size = [u \in Uploads |-> 0]
    /\ content = [u \in Uploads |-> None]
    /\ partial = None
    /\ final = None
    /\ readable = {}
    /\ result = [u \in Uploads |-> "none"]
    /\ imported = None
    /\ last = None
    /\ rebuilds = 0
    /\ kills = 0

\* A build job replaces the local file; it runs on an executor of its own.
RebuildLocal(b) ==
    /\ rebuilds < MaxRebuilds
    /\ b # local
    /\ local' = b
    /\ rebuilds' = rebuilds + 1
    /\ UNCHANGED <<mgr, sent, link, remote, content, readable, result, imported, last, kills>>

-----------------------------------------------------------------------------
(* The Manager.                                                            *)

\* copy_capsule_to_droplet: it checks that the file exists, no more.
BeginCopy(u) ==
    /\ mgr.at = "idle"
    /\ result[u] = "none" /\ link[u] = "none"
    /\ mgr' = [IdleManager EXCEPT !.at = "open", !.upload = u]
    /\ UNCHANGED <<local, sent, link, remote, content, readable, result, imported, last, rebuilds, kills>>

\* deploy_droplet: _prepare_capsule verifies the local file.
BeginDeploy(u, copy) ==
    /\ mgr.at = "idle"
    /\ local \in Good
    /\ copy => result[u] = "none" /\ link[u] = "none"
    /\ mgr' = [at |-> IF copy THEN "open" ELSE "import",
               upload |-> IF copy THEN u ELSE None,
               deploy |-> TRUE, verified |-> local]
    /\ UNCHANGED <<local, sent, link, remote, content, readable, result, imported, last, rebuilds, kills>>

\* _stream_file_over_ssh: Popen, local_file.open
OpenStream ==
    /\ mgr.at = "open"
    /\ Go("stream")
    /\ link' = [link EXCEPT ![mgr.upload] = "up"]
    /\ shell' = [shell EXCEPT ![mgr.upload] = "start"]
    /\ content' = [content EXCEPT ![mgr.upload] = local]
    /\ last' = mgr.upload
    /\ UNCHANGED <<local, sent, size, partial, final, readable, result, imported, rebuilds, kills>>

\* Mutant of SendChunk: one read too many.
SendPastEnd ==
    /\ mgr.at = "stream"
    /\ sent[mgr.upload] <= Chunks
    /\ sent' = [sent EXCEPT ![mgr.upload] = @ + 1]
    /\ UNCHANGED <<local, mgr, link, remote, content, readable, result, imported, last, rebuilds, kills>>

SendChunk ==
    /\ mgr.at = "stream"
    /\ sent[mgr.upload] < Chunks
    /\ sent' = [sent EXCEPT ![mgr.upload] = @ + 1]
    /\ UNCHANGED <<local, mgr, link, remote, content, readable, result, imported, last, rebuilds, kills>>

\* The local file is at its end: stdin is closed and the remote command awaited.
CloseStream ==
    /\ mgr.at = "stream"
    /\ sent[mgr.upload] = Chunks
    /\ Go("wait")
    /\ link' = [link EXCEPT ![mgr.upload] = "closed"]
    /\ UNCHANGED <<local, sent, remote, content, readable, result, imported, last, rebuilds, kills>>

\* The operation fails: _call_backend_step raises.
Fail ==
    /\ mgr' = IdleManager
    /\ result' = IF mgr.upload = None THEN result
                 ELSE [result EXCEPT ![mgr.upload] = "failed"]

\* A timeout, an unreadable local file or a broken pipe: stdin is closed and
\* the client killed, whatever the shell is doing.
AbandonStream ==
    /\ mgr.at \in {"stream", "wait"}
    /\ Fail
    /\ link' = [link EXCEPT ![mgr.upload] = "cut"]
    /\ UNCHANGED <<local, sent, remote, content, readable, imported, last, rebuilds, kills>>

\* Mutant of StreamAnswer: the upload is done when all bytes are sent.
StreamSent ==
    /\ mgr.at = "wait"
    /\ Go("access")
    /\ UNCHANGED <<local, sent, link, remote, content, readable, result, imported, last, rebuilds, kills>>

\* The remote command has ended and its status is known.
StreamAnswer ==
    /\ mgr.at = "wait"
    /\ \/ /\ shell[mgr.upload] = "ok"
          /\ Go("access")
          /\ UNCHANGED result
       \/ /\ shell[mgr.upload] = "failed"
          /\ Fail
    /\ UNCHANGED <<local, sent, link, remote, content, readable, imported, last, rebuilds, kills>>

\* _prepare_remote_capsule_access runs another command, which may be lost.
PrepareAccess ==
    /\ mgr.at = "access"
    /\ \/ /\ final # None
          /\ readable' = readable \cup {final}
          /\ result' = [result EXCEPT ![mgr.upload] = "ok"]
          /\ mgr' = IF mgr.deploy THEN [mgr EXCEPT !.at = "import"] ELSE IdleManager
       \/ /\ Fail
          /\ UNCHANGED readable
    /\ UNCHANGED <<local, sent, link, remote, content, imported, last, rebuilds, kills>>

\* _import_capsule: verify=False, overwrite=True.  The Agent extracts the
\* remote file, which fails if the file is missing, unreadable or truncated.
ImportCapsule ==
    /\ mgr.at = "import"
    /\ mgr' = IdleManager
    /\ \/ /\ final \in readable /\ size[final] = Chunks
          /\ imported' = [upload |-> final, build |-> content[final], verified |-> mgr.verified]
       \/ UNCHANGED imported
    /\ UNCHANGED <<local, sent, link, remote, content, readable, result, last, rebuilds, kills>>

KillManager ==
    /\ mgr.at # "idle"
    /\ kills < MaxKills
    /\ kills' = kills + 1
    /\ mgr' = IdleManager
    /\ link' = [u \in Uploads |-> IF u = mgr.upload /\ link[u] # "none" THEN "cut" ELSE link[u]]
    /\ UNCHANGED <<local, sent, remote, content, readable, result, imported, last, rebuilds>>

-----------------------------------------------------------------------------
(* The remote shell of upload u.                                           *)

\* rm -f P; cat > P
OpenPartial(u) ==
    /\ shell[u] = "start"
    /\ link[u] \in {"up", "closed"}
    /\ shell' = [shell EXCEPT ![u] = "cat"]
    /\ partial' = u
    /\ UNCHANGED <<local, mgr, sent, link, size, content, final, readable, result, imported, last, rebuilds, kills>>

ReceiveChunk(u) ==
    /\ shell[u] = "cat"
    /\ size[u] < sent[u]
    /\ size' = [size EXCEPT ![u] = @ + 1]
    /\ UNCHANGED <<local, mgr, sent, link, shell, content, partial, final, readable, result, imported, last, rebuilds, kills>>

\* cat reads end-of-file: everything was sent and received, or the connection is gone.
EndOfFile(u) ==
    /\ shell[u] = "cat"
    /\ link[u] = "cut" \/ (link[u] = "closed" /\ size[u] = sent[u])
    /\ shell' = [shell EXCEPT ![u] = "mv"]
    /\ UNCHANGED <<local, mgr, sent, link, size, content, partial, final, readable, result, imported, last, rebuilds, kills>>

\* The disk is full: cat fails, and set -e ends the shell.
DiskFull(u) ==
    /\ shell[u] = "cat"
    /\ shell' = [shell EXCEPT ![u] = "failed"]
    /\ UNCHANGED <<local, mgr, sent, link, size, content, partial, final, readable, result, imported, last, rebuilds, kills>>

\* mv -f P F, of whatever is called P now
MoveFinal(u) ==
    /\ shell[u] = "mv"
    /\ IF partial = None
       THEN /\ shell' = [shell EXCEPT ![u] = "failed"]
            /\ UNCHANGED <<partial, final>>
       ELSE /\ shell' = [shell EXCEPT ![u] = "ok"]
            /\ final' = partial
            /\ partial' = None
    /\ UNCHANGED <<local, mgr, sent, link, size, content, readable, result, imported, last, rebuilds, kills>>

-----------------------------------------------------------------------------
Next ==
    \/ \E b \in Builds : RebuildLocal(b)
    \/ \E u \in Uploads : BeginCopy(u)
    \/ \E u \in Uploads, copy \in BOOLEAN : BeginDeploy(u, copy)
    \/ OpenStream \/ SendChunk \/ CloseStream \/ AbandonStream \/ StreamAnswer
    \/ PrepareAccess \/ ImportCapsule \/ KillManager
    \/ \E u \in Uploads :
          OpenPartial(u) \/ ReceiveChunk(u) \/ EndOfFile(u) \/ DiskFull(u) \/ MoveFinal(u)

Spec == Init /\ [][Next]_vars

-----------------------------------------------------------------------------
(* Properties.                                                             *)

\* Every variable has its type.
Places == {"idle", "open", "stream", "wait", "access", "import"}
Links == {"none", "up", "closed", "cut"}
Shells == {"none", "start", "cat", "mv", "ok", "failed"}
TypeOK ==
    /\ local \in Builds
    /\ mgr \in [at : Places, upload : Uploads \cup {None}, deploy : BOOLEAN,
                verified : Builds \cup {None}]
    /\ sent \in [Uploads -> 0..Chunks]
    /\ link \in [Uploads -> Links]
    /\ shell \in [Uploads -> Shells]
    /\ size \in [Uploads -> 0..Chunks]
    /\ content \in [Uploads -> Builds \cup {None}]
    /\ partial \in Uploads \cup {None}
    /\ final \in Uploads \cup {None}
    /\ readable \subseteq Uploads
    /\ result \in [Uploads -> {"none", "ok", "failed"}]
    /\ imported \in {None} \cup [upload : Uploads, build : Builds, verified : Builds]
    /\ last \in Uploads \cup {None}
    /\ rebuilds \in 0..MaxRebuilds
    /\ kills \in 0..MaxKills

\* A copy that was reported done is on the Droplet, whole and readable by the
\* Agent, until another one starts: whatever shells of abandoned uploads or of
\* a killed Manager still do there (_copy_capsule).
CopiedIsThere ==
    \A u \in Uploads :
        result[u] = "ok" /\ u = last => final = u /\ size[u] = Chunks /\ u \in readable

\* A deployment that copies the capsule imports what it copied (deploy_droplet).
DeployImportsItsCopy ==
    [][mgr.at = "import" /\ mgr.upload # None /\ imported' # imported
          => imported'.upload = mgr.upload]_vars

(* What the code's comments say and the code does not do.                  *)

\* The final file is moved into place only after the stream completes
\* (_stream_file_over_ssh).
FinalIsWhole == final # None => size[final] = Chunks

\* The Manager already verified the capsule that the Agent imports
\* (_import_capsule).  Fails, and no run checks it (README, Divergences).
ImportedIsVerified == imported # None => imported.build \in Good
=============================================================================
