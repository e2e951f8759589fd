# A formal model of the Konnaxion Capsule Manager

This directory holds TLA+ specifications of the Konnaxion Capsule Manager, the
TLC configurations that model-check them and TLAPS proofs about them. It is kept
beside the source: every definition that models code is tied to its file and
lines under `map` in `PROJECT.json`. Paths below are relative to the repository.

## 1. The system

Konnaxion is shipped as signed `.kxcap` capsules. A **Builder** (`kx_builder`)
makes them from a source tree; a **Manager** (`kx_manager`, an HTTP API and a GUI)
lets the operator build, copy and deploy them; a privileged **Agent** (`kx_agent`,
an HTTP service on 127.0.0.1:8765) imports capsules, keeps instances, and runs
Docker Compose, the Security Gate, backups, restores and rollbacks; `kx_cli` is a
second client of the Agent; `kx_shared` holds constants and types.

```
 operator -- browser --> Manager event loop --+--> build worker ----> Builder process --> Docker store, capsule file
                                              +--> operation worker -> ssh --> Droplet shell --> remote capsule file
                                              |                        \-> (tunnel) --> Agent API
                                              +--> routes, client ----------------> Agent API --> handlers --> disk, Docker
```

### 1.1 Inventory

| Component | State it keeps | Operations | What is hard | What makes it correct |
|---|---|---|---|---|
| Operation jobs, `kx_manager/services/operation_jobs.py` | `<job>.json`, `<job>.log`, `latest-job.txt`; in memory: the executor's queue, the worker, a heartbeat thread per job | create, run, report progress, heartbeat, page reads | three kinds of threads on the same files; page joins two files; restart loses the memory only; any write of a status or of the log may fail | an outcome is never replaced, is logged and the operation's own; an active job has a thread; jobs end |
| Build jobs and builder service, `services/build_jobs.py`, `services/builder.py` | the same files, the progress file, the output capsule | create, preflight, run the Builder, time out, rebuild, page | as above, and a subprocess that outlives its worker, shares Docker tags with other builds and writes the output in place | a success is backed by a verified archive of this very build; the page is consistent |
| Builder, `kx_builder/` | staging or prepared directory, Docker images, output file, progress file | build images, export, manifest, checksums, sign, pack, verify | long, not transactional; a prepared directory is edited meanwhile, or has two builds | a capsule that is accepted holds the images it declares |
| Capsule upload, `ui/agent_execution_client.py`, `services/deploy.py` | remote partial and final files; local capsule file | copy, deploy, prepare access, import | the remote shell outlives the client; cut streams look like ended ones; retries share paths | a reported copy is there, whole; a deployment imports what it copied |
| Deployment, `services/deploy.py`, `services/targets.py` | none of its own, changes the Droplet | verify, copy, runtime, contract, import, instance, network, gate, start | ten steps with no undo; calls that are lost, late, repeated, or served after their caller gave up | a deployment reported complete left running what it was asked for; one that failed can be repeated; each ends |
| Artifact store, `kx_agent/artifacts/registry.py`, `capsules/importer.py` | capsule files, extractions, registry with a generation | import, remove, list, integration manifest | each handler is several effects, any of which fails or is the last; two kinds of keys | dependencies hold; entries have files; hosts that poll generations are not stale |
| Instance lifecycle, `kx_agent/instances/{state,lifecycle,model}.py` | instance state (a value; only tests use it) | transitions, effect of gate and health | two tables that have to agree | no start through a blocked state; every state can be left |
| Agent actions and API, `kx_agent/{actions,api,auth,audit}.py` | compose, Traefik and env files, audit log | create, update, start, stop, status, network changes | handlers of many file writes and commands, killed between any two; the audit before and after | a gated start runs what the gate verified; every change is recorded first |
| Runtime, `kx_agent/runtime/` | compose file, containers | render, up, down, health, logs, migrations | command failures and timeouts | health aggregates the worst service |
| Security Gate, `kx_agent/security/` | none | checks, policies, evidence, aggregation | skipped and unknown results | a blocking failure blocks |
| Network, `kx_agent/network/` | exposure plan, tunnels | resolve profile, expire public mode | time, stale containers | no public mode without an expiration |
| Rollback, `kx_agent/backups/rollback.py` | `rollback.json`, history, two capsule pointers | roll back, clear | eleven fallible steps with a record of progress; kills | what is recorded and answered was done; nothing moves under a running instance |
| Restore, `backups/restore.py` | report, data, media, env files | preflight, back up, restore, migrate, check, compensate | failure in the middle; the compensation may fail | a restore recorded as done passed its checks |
| Backups, `backups/{backup,verify,retention}.py` | metadata and archives per backup | create, transition, verify, plan retention | in-place metadata; windows over mixed records; plans carried out late | the backup that undoes a restore is there as long as it is needed |
| Secrets and env, `instances/{secrets,env_writer}.py` | env files | generate, merge, write | two writers with different orders and rules of what is kept | the database's password outlives every rewrite |
| Verifier, `kx_agent/capsules/{verifier,manifest,checksums,signature}.py` | none | verify a capsule | a second implementation of what the Builder checks, with other rules | what the Builder accepts, the Agent accepts; accepted means signed and matching |
| Manager API, client, GUI, `kx_cli` | GUI state file | forms, dispatch, rendering | little state | the request reaches the right action |

The Agent runs its handlers one after the other: the API's action handler is a
coroutine that calls the synchronous dispatcher, so a handler holds the event
loop until it returns. The Manager's event loop serialises requests in the same
way, but its jobs run in threads beside it. These two facts decide which steps
interleave in the models.

### 1.2 How the modelled parts interact

* The GUI creates an operation job or a build job; the pages poll its files
  (`ui/app.py`). Job files are the only link between event loop and worker.
* An operation job runs a copy or a deployment (`services/deploy.py`); progress
  comes back through a callback whose exceptions are swallowed. OperationJobs
  abstracts the operation to "answered ok, answered something else, or raised": a plan-only
  deployment answers ok and does nothing, so what an ok is worth is Deployment's question (CompletedRuns);
  CapsuleTransfer is what such an operation does with the capsule.
* A build writes the local capsule file a copy reads. In CapsuleTransfer this is
  RebuildLocal, which may happen at any moment.
* Three modules describe the way of a capsule at the Agent, each in the detail its own
  questions need. ArtifactStore has the steps of import and removal; AgentRuntime those of
  the calls that configure, start and stop an instance, with the shelf of capsules as
  something that changes between calls; Deployment sees one Agent that imports in one step
  and otherwise behaves as **InstanceContract** says. AgentRuntime is shown to implement
  that contract, and Deployment is built on it (it EXTENDS InstanceContract and takes its
  actions as the Agent's steps), so what is proved of a deployment holds for
  the Agent with its file writes and kills as far as the contract tells them apart. Both
  directions are proved: AgentRuntime's steps are the contract's (ContractKept), and so are those that a
  deployment's calls make the Agent take (AgentKeepsContract).
* Deployment's Copy abstracts CapsuleTransfer (the file arrives or not), its ServeImport
  abstracts ArtifactStore (the extraction becomes the file's, stays, or is lost).
* Packaging produces what ArtifactStore's `Trusted`, Deployment's `Intact` and InstanceContract's `Signed` take as given:
  which archives the two verifiers accept.
* The instance that a rollback stops and starts is the one that create, start
  and stop actions change; Rollback has those as DeployInstance and StopInstance.

## 2. The modules

| Module | Models | MC module, runs | Proofs |
|---|---|---|---|
| JobContract | what a background job promises whoever asks for it | (abstract; implemented by the next two) | |
| OperationJobs | Manager operation jobs | MCOperationJobs: `operation_jobs`, `operation_jobs_restart` | OperationJobsProofs |
| BuildJobs | build jobs, builder service, the Builder's effects | MCBuildJobs: `build_jobs`, `build_page` | BuildJobsProofs |
| CapsuleTransfer | copy and import of a capsule over SSH | MCCapsuleTransfer: `transfer`, `transfer_final` | CapsuleProofs |
| ArtifactStore | importer and artifact registry | MCArtifactStore: `artifact_store` | ArtifactStoreProofs |
| Rollback | instance rollback | MCRollback: `rollback` | RollbackProofs |
| InstanceContract | what the Agent promises the callers of its instance actions | (abstract; implemented by AgentRuntime, extended by Deployment) | DeploymentProofs |
| AgentRuntime, with Exposure and SecurityGate | the Agent's API boundary, handlers, writers and commands | MCAgentRuntime: `agent_runtime` | AgentRuntimeProofs |
| Deployment | the Manager's deployment, its client and the Agent | MCDeployment: `deployment` | DeploymentProofs |
| Restore | backups, retention, restores | MCRestore: `restore` | RestoreProofs |
| Packaging | packing, and both verifiers | MCPackaging: `packaging` | CapsuleProofs |

A module has one action per step that another thread, process or failure can
come between; what runs under one lock, or in one atomic file replacement, is one
action. Constants are sets of names and bounds; the bounds (`Max...`, `Watched`,
`Chunks`) only limit how often something happens and are named as such.

### JobContract

An abstract job has a status and whether the operation behind it gave a good result. It is submitted, started at most once,
and succeeds only with such a result, or fails; a result may still come after a failure. OperationJobs and
BuildJobs implement it: `status` is the status in the job file, `done` is `claimed[j]`, the deploy function answered ok,
in the one, and `builder[j] = "ok"`, a Builder that verified its archive, in the other. Everything else of the two modules, from the
queue to the heartbeats and the log, stutters.

### OperationJobs

`job[j]` is `<j>.json` (status and progress), `log[j]` the kinds of lines in
`<j>.log`, `latest` the file `latest-job.txt`; `loop`, `queue`, `worker`, `beat`,
`stopped` are the event loop's request, the executor, its thread, the heartbeats
and their stop events. `claimed[j]` says whether the operation answered ok.
CreateJob .. CreateSubmit are `create_operation_job`; PageReadJob, PageReadLog,
PageReply a poll of the page; TakeJob .. StopHeartbeat one call of `_run_job`,
with the exception path through LogFailed and RecordFailed and the `finally`;
HeartbeatCheck reads without the lock and HeartbeatStamp writes under it. A
Any write of a job file, of the log or of `latest` may fail (Fault) and then raises in the thread that
writes: in the event loop the request ends, in the worker the exception path follows, from which a second failure
leaves the job active. RestartManager drops what is in
memory. `_update_job` merges changes into the record under the lock, which is why
HeartbeatStamp cannot bring back an old status.

### BuildJobs

As OperationJobs with several workers, a preflight, and for each job a Builder
process `builder[j]` with its progress file `file[j]`. `tag` is the job whose
images the Docker tags name (they depend on the application version only),
`saved[j]` the images exported into the staging directory, `out[p]` the capsule
file: which job wrote it, whose images it holds, and whether it is whole.
BuildTimesOut ends the wait of the worker but not the Builder, and
RestartManager does not end it either. `Shown` is what `_merge_builder_progress`
makes of the two progress values.

### CapsuleTransfer

`mgr` is the operation; `link[u]` and `shell[u]` the two ends of upload u; `partial`
and `final` name the upload whose file is at each of the two remote paths.
OpenPartial, ReceiveChunk, EndOfFile, DiskFull and MoveFinal are steps of the
remote shell that need nothing of the Manager. Fail, AbandonStream and KillManager
leave the shell to itself. PrepareAccess and ImportCapsule need the Manager.

### ArtifactStore

`file[c]` and `tree[c]` are the stored capsule and its extraction per capsule id,
`aside[c]` the extraction moved away while it is replaced; `registry[a]` is an
entry, `generation` the number of mutations, `host` what a composition host fetched
at which generation. BeginImport, CopyCapsule, VerifyCapsule, ExtractCapsule,
SwapTree, RegisterArtifact and ReadGeneration are one `handle_capsule_import`; BeginRemove,
RemoveFile, RemoveTree, RemoveEntry one `handle_artifact_remove`. Any effect may be
refused (Fault), after which the code's clean-up runs, and KillAgent may come
between any two. `broken` is a history variable: capsules whose files an
interrupted replacement or removal took, or the clean-up of an import that failed after it had registered its entry
(ReadGeneration: the registry is read back inside the try).

### Rollback

`rb` is the call in progress with its mode (dry run, execution of commands, data
restore, hooks present), `record` is `rollback.json`, `current` and `previous` the
two pointer files, `compose` and `running` the capsule that the compose file and
the containers are of, `data` the state of the data. Each function that
`rollback_instance` calls is an action or two; the ones that write in two places
(SavePrevious and RepointCapsule, BeginRestore and EndRestore) are split there.
WriteState may fail before or after the replacement. The rollback handler is not
registered in `kx_agent/actions.py`; the function is called by the library's users
and tests.

### InstanceContract, AgentRuntime, Exposure, SecurityGate

Exposure and SecurityGate are operators only: which settings the API, the exposure plan and
the renderer accept and what ports result; which of the gate's fifteen checks offend in a
context and what they add up to.

AgentRuntime's `call` is the request that is served: Admit and Receive are the middleware
before the handler (RefuseUnrecorded is its log failing), RecordOutcome the one after it. Configure (create, update,
set_profile, disable, expire) resolves capsule and settings; Delegate and Fallback are the two
writers of the environment in `instances/secrets.py` and `runtime/compose.py`, each of which
writes file by file (WriteDelegated, CopyPostgres and CopyRuntime for the mirrors, WriteMinimal, CheckMinimal); WriteCompose and WriteTraefik
follow. Any of these writes may fail. What the delegated writer raises is swallowed: `call.attempt` counts the four ways
in which it is called, each of which may begin anew over what the one before left, and then the fallback is the next. Anything else that is raised ends
the call (Raise), with an error answer and whatever was written by then, the compose file included. A start is CheckSecurity, LoadImages, ComposeDown, ComposeUp. `env[f]` has of an environment file what
the properties tell apart: its settings, capsule, password and database URL; `db` is the password
with which Postgres initialised its volume, `store` the build under the image tags, which
capsules share. Files are replaced atomically, which is what `write_env_file_atomic` and the others do.
KillAgent may come between any two steps and keeps all files.

InstanceContract leaves out environment, passwords, Traefik and audit. Of a call its callers can tell
whether it settled, rendered, loaded, stopped or started something, and its answer. A configuration that
rendered may still be answered as failed (Complete): its caller cannot conclude that the old compose file is in place.

### Deployment

`mgr` is the deployment with its step, attempt and whether it waits; `pending` the calls
that have arrived at the Agent, oldest first, `live` while their sender still waits. Send puts a call
in the queue; Lose is the end of a wait without an answer (curl's and ssh's time limits, a broken
connection, return codes 124 and 255), after which the client tries again, up to three times over SSH, or
fails; Deliver gives an answer to the Manager or to nobody. The Agent's steps are those of the contract
plus import, check, and the refusals of its API (Rejected): an update, and a create for a temporary public mode, whose payload
lacks the expiration that the API asks for. The capsule is known by its build: `Intact` ones pass the
Builder's verification, which does not look at signatures; `Signed` ones pass the gate's. A deployment to a Droplet asks the
import for no verification.

The queue is first-in first-out because a retry opens its connection at least two seconds after the one
before it has ended, and the Agent serves one handler at a time. `/agent/info` and health probes never
fail a deployment and are folded into the steps beside them. The retry of a backend method on
TypeError (`deploy.py:1281`) is left out.

### Restore

`shelf` has the backups in the order of their ids: class, status on record ("torn" if the
record was cut short, "gone" if the directory was removed) and age. `doomed` is what a retention plan told its
caller to delete, which may happen much later (PruneBackup). `rs` is a call of RestoreRunner.run with what is left
to do of its plan; every operation may fail with its work done, half done or not begun. Data is known by where it came from: 0 is
the instance's own, i is backup i's, Half is a mixture. `mark` is the status last given to
`mark_restore_status`, which may raise before or after it recorded it. The operation that makes
the pre-restore backup is taken to return with a verified one. A restore into a new instance names another instance each time, which may exist already. Kill
keeps of the call only what WayBack reads.

### Packaging

`dir[Prepared]` is a prepared directory, `dir[j]` the staging area of build j; a file is known by
the edit that wrote it, and a digest is that edit, so digests do not collide. One file stands for all of its
kind (`compose` for the required files without a name here, `spaced` for a path with a space in it). A build goes through StageFromSource or CheckImages, WriteChecksums, WriteSignature, ValidateStaging,
ReadChecksums (tar takes `checksums.txt` before the rest), Pack and, if asked for, Verify. Edit changes the prepared directory at any
moment: a plain edit (Edited) writes or removes a file or brings `images.yaml` up to date; others (Resealed) put an earlier content
back, write an entry of `images.yaml`, or make `checksums.txt` or `signature.sig` anew. `stable` is a history variable: the builds with nothing but
plain edits since they wrote their checksums, and no write of another build in their directory. `BuilderAccepts` and `AgentAccepts` are the two
verifiers, each with its own parser of `checksums.txt` (DigestsMatch, PathsMatch): the Agent takes the last word of a line for the path. The Builder's rules on the contents of manifest, compose file and templates are fewer than the Agent's and
are taken to pass; archives that were cut short are BuildJobs' matter. The prepared directory starts as an earlier build
sealed it.

## 3. What the runs check

| Run | Instance | Shows |
|---|---|---|
| `operation_jobs` | 2 jobs, 1 restart, 1 failed write, reported progress 100, fair threads | the job file's outcome is logged and the operation's own (OutcomeIsLogged), a page with an outcome shows its line (PageShowsOutcome), OperationJobs implements JobContract (KeepsContract), an active job has a thread while nothing failed (ActiveIsOwned), outcomes stick (FinalIsFinal), jobs and heartbeats end (JobsFinish) |
| `operation_jobs_restart` | 1 job, 1 restart | violated, as the code does: a job that was active at a restart stays active for ever |
| `build_jobs` | 2 jobs of any kind, 1 worker, 1 output path, 1 restart, 1 timeout | OutcomeIsBacked, KeepsContract, and SuccessIsOwnCapsule: an undisturbed success left a whole capsule with its own images, though another build has the same path and tags |
| `build_page` | 1 watched job, 1 restart, 1 timeout, 1 failed write, fair threads | PageIsHonest, ProgressMovesOn, FinalIsFinal, JobsFinish |
| `transfer` | 3 uploads, 1 chunk, 2 builds, 1 rebuild, 1 kill | a copy reported done stays until the next upload starts (CopiedIsThere); a deployment imports its own copy (DeployImportsItsCopy) |
| `transfer_final` | 2 uploads, 2 chunks | violated, as the code does: a cut stream is moved into place |
| `artifact_store` | a library and a product with 2 builds each, 3 registry mutations, 1 fault | DependenciesInstalled, RemovalKeepsDependencies, EntriesHaveFiles, HostCandidatesFresh, FailedImportKeepsFile |
| `rollback` | 2 capsules, unbounded faults and kills | CompletedIsDone, ReplyIsRecorded, RepointsWhenStopped |
| `agent_runtime` | 1 capsule with a signed and an unsigned build, 2 passwords, unbounded calls, failing writes and kills (2.2 million states) | the database's password survives every writer (PasswordKept), what a successful call applied is whole (AppliedIsWhole), a gated start runs the verified build (GatedStartRunsVerified), nothing changes unrecorded (ChangesAreRecorded), and AgentRuntime implements InstanceContract (KeepsContract) |
| `deployment` | 2 deployments out of 12 kinds, unbounded losses, retries and kills | CompletedRuns, LeftoversDoNotRefuse, and DeploymentEnds under fairness of the Manager alone |
| `restore` | 3 backups, 4 plans, one window per class | the backup that undoes a restore stays on the shelf (WayBack), what is answered, marked and reported is what became of the data (OutcomeIsTrue) |
| `packaging` | 2 builds, one from source or of the prepared directory, one of the directory, 1 key, 3 edits of manifest, image and a spaced file (3.1 million states) | of builds that were not sealed anew meanwhile: what the Agent accepts has the images it declares (AcceptedIsDeclared); what the Builder accepts the Agent accepts, up to named reasons (AcceptedIsInstallable) |

Type invariants that are proved (OperationJobs, BuildJobs, Restore, Packaging) are in no run, the others are. Every property has a mutant in
`PROJECT.json`: a plausible bug of one definition that makes the formula
fail under the run's own configuration.

**Bounds.** Two jobs are enough for everything about queueing and about two
threads meeting in one file (a heartbeat, a worker and the loop meet on a single
job); the second job shows that a worker moves on. One restart suffices because a
restart resets everything a second one could reset. One failed write reaches
every write, because every write may be the failing one. A copy needs an
abandoned upload, a second abandoned one and a current one, hence three uploads;
one chunk already distinguishes empty and whole, and two distinguish cut from
both. The artifact instance has an upgrade that drops a capability, a product that
needs it, one the verifier rejects and that needs a newer library. The Manager's
page is opened for the jobs in `Watched` only: the reads change nothing but `loop`,
and leaving them out of `build_jobs` leaves room for two builds.
The Agent's run needs a second password, to tell a kept one from a new one, and one capsule: image tags are shared, so a second
build of the same capsule does what another capsule would. Its requests are the handlers' defaults and one with a
host of its own; `MCPublicRequests` has public ones, for the divergences. Two deployments
show what the first leaves to the second, and the twelve kinds switch each option on and off at least once. In the restore run
`Keep = 1` and windows of a day make retention as eager as WayBack allows (with `Keep = 0` it claims nothing), and three backups are one to
restore from, one that a restore makes and one that displaces it. Two builds meet in one directory, and three edits can put a file aside, back, and replace it, around any step of a build; `Handled` names the kinds of
files that edits touch. With these bounds TLC finds AlwaysDeclared violated, so the excluded cases do happen in the run.
The theorems hold for every value of these bounds.

**Symmetry** is used in `build_jobs` (jobs and workers), `transfer` (uploads),
`rollback` (capsules) and `agent_runtime` (passwords), which check no liveness property and whose initial states
and configurations do not tell the members apart.

**Deadlock** is checked in `operation_jobs`, `artifact_store`, `rollback` and `agent_runtime`, where a
step is always possible (a page can be read, a handler started). It is switched off in `build_jobs`, `build_page`,
`transfer`, `transfer_final`, `deployment`, `restore` and `packaging`: without watched pages, or with all uploads,
deployments, backups or edits used, the system comes to rest.

**Fairness.** Threads are scheduled, so a step that stays enabled is taken (WF) for
the event loop's request in progress, for each worker and each heartbeat. An
operation answers: every SSH and HTTP call in it has a timeout, and so has each
Docker command of a Builder. Nothing forces a user to create a job, a write to fail
or a Manager to die, so those have no fairness. Progress reports have none either: an operation
reports finitely often. In Deployment, ManagerStep is fair because every client has a time limit and every wait between attempts is finite;
nothing is assumed of the Agent, which may hang. Liveness is not claimed after a restart, a timeout or a
failed write, except that heartbeats end.

## 4. What is proved

Each proof module states type correctness and the theorems below for all constants
that satisfy the module's named assumptions (the sentinel `None` is no member of the
sets, bounds are natural numbers, percentages lie in 0..100, the descriptor table
has its type; in AgentRuntime `None` is no password, setting, file content or compose file either). All inductive invariants were model-checked before they were proved.

* **OperationJobs.** PlaceInv: a job is in one place (creation, queue, worker), the
  queue has no duplicate, and what is in a place has a status to match. With it,
  FinalIsFinal (every write to a job file is by the thread of an active job, or
  keeps the status) and, with what the worker has done at each place (OutcomeInv),
  OutcomeIsLogged. PageShowsOutcome rests on the order of two reads: the page reads the job file first, and
  what it read there is already in the log, which only grows (PageInv). ActiveIsOwned follows a job from the creation to the queue to the
  worker, which records an outcome before it leaves (OwnerInv).
* **BuildJobs.** The same for several workers: no two hold one job, and a job that no
  worker has begun has no Builder (PlacesCorrect); then FinalIsFinal and
  OutcomeIsBacked. SuccessIsOwnCapsule uses SoloInv: with one worker that was never
  left behind, the live Builder is the one the worker waits for, so what it tagged,
  saved and wrote is still there when the worker records the success. PageIsHonest needs
  that 100 is in a job file only beside a success (ProgressInv) and the order of the three reads (PageInv). ProgressMovesOn compares
  two sources of one number: the Manager's own values end where the Builder's begin (SmallInv), a Builder's file never exceeds
  its stage (FileInv), and a worker that is about to record a failure has seen the Builder's last word (SeenInv).
  SerialisedUndisturbed is the true part of "builds are serialised": until a Manager is killed or a build times out every Builder has a
  worker that waits for it (Attended), so there are no more Builders than workers.
  ImagesAreOwnAlone adds, from SoloInv, that one undisturbed worker leaves no file with another build's images.
* **JobContract** (ImplementsContract, in both proof modules). Each step is a step of the abstract job or a stutter. What makes it so is
  ContractInv: nothing is done for a job that was not started, and a worker between its start and its outcome finds its job still running.
* **CapsuleTransfer.** CopiedIsThere and DeployImportsItsCopy, by Inv: a shell whose
  client closed the stream normally has the whole file (ShellInv), and of the last upload, P and F
  are its own as soon as its shell has opened P (FileInv). An older shell can still take the
  newer upload's P away with its `mv`; then the newer `mv` finds nothing, fails, and the
  copy is reported failed, which is why a reported copy stays.
* **ArtifactStore.** The guards of a removal stand until its last step, because the
  Agent runs one handler at a time (OpInv); an entry describes itself and was
  supplied under its capsule id (EntryInv). From these: DependenciesInstalled,
  RemovalKeepsDependencies, HostCandidatesFresh, and with the files' state per
  step (FileInv) FailedImportKeepsFile. EntriesHaveFiles is proved under OneArtifact: a
  capsule id is used for one artifact. Under the same condition a removal deletes no other
  entry's files (RemovalSparesOthersIfOne). Without it both fail (see Divergences).
* **Rollback.** CompletedIsDone, SwitchIsRecorded, ReplyIsRecorded and
  RepointsWhenStopped from one invariant: while a rollback is under way it is the last
  thing recorded (RecordInv), what it has done by each place (DoneInv), and that
  containers are down from the stop to the start (StopInv).
* **AgentRuntime.** PasswordKept from PasswordInv: of all places a writer or a start takes the password from (the
  database's own, every file and mirror, the bundle of a call in progress), no two differ (OnePassword); a
  writer has written a file or is still going to (Covered); and the database is not initialised before
  `postgres.env` has a password (Initialised). It is stated for what a killed or failed writer can have left in either order,
  which is what makes it inductive. AppliedIsWhole follows what the writers have completed at each place of the call (AppliedInv),
  ChangesAreRecorded that a call in progress has its first record (AuditInv).
  GatedStartRunsVerified needs that shelf and compose file stand from the check to the start, and that what was
  loaded is what was checked (GateInv). ExposureIsAsked: whatever a setting goes through (create's defaults, a plan
  that reverts, disable and expire, the renderer's rules), it stays in the set of settings that requests lead to (AskedInv), and in that set
  a public mode was asked for, and so was a public server. StatusIsVerdict: `_derive_status` and `is_security_gate_passing` agree for all
  results of the checks. ContractKept is the refinement of InstanceContract, under the mapping of places `Seen` and of the
  compose file; beside GateInv it needs that an idle Agent keeps nothing of a call (IdleInv).
* **InstanceContract.** ContractVerifies: in a gated call only a signed build replaces the running one, for what the gate saw on the
  shelf is there when it is loaded, and loaded when it is started (GateHolds). Being about the contract, it is about every Agent that keeps it and
  every caller: DeployedGateHolds is the corollary for deployments.
* **Deployment.** CompletedRuns, from DInv: of the calls in the
  queue only the last can be waited for, and it is the one of the current step (Queued); the
  Agent's job is the call at the head (Serving) and has done so far what that call asks (Work);
  at each step, what the deployment has reached holds and no call in the queue is of a kind that would undo it (Held).
  AgentKeepsContract adds that a deployment makes the Agent take steps of the contract only, because all calls in the queue
  are of a form that the contract has (Sendable).
  Held is the reason why late and repeated calls do no harm: once the awaited call is answered the queue is empty,
  so nothing older can follow it. Held would not be inductive without Queued, which gives that order.
* **Restore.** WayBack from SafetyKept: the backup that a restore made is the newest of its class, so no
  plan of now dooms it if it keeps any, and a plan made before does not know it, however late it is carried out; and from Covered: nothing is replaced before there is one. OutcomeIsTrue from Story: what is done of the plan at each place
  of the call (InOrder, Honest).
* **Packaging.** AcceptedIsDeclared and AcceptedIsInstallable. Whatever was in the directory when the checksums were taken, a plain edit after that never brings back what a digest was
  taken of (Newer; Stamped bounds by the number of edits what is there), so when ValidateStaging finds an image as `images.yaml` says and `images.yaml` as
  `checksums.txt` was made of, the checksum of that image is the right one (Confirmed); the signature is over those
  checksums (Signed). All of it is claimed of stable builds; AllProgress says it by the step a build has come to, and Disturbed which
  builds another one's write takes out of it.

**Only model-checked:** the liveness properties (JobsFinish, in both modules, and DeploymentEnds), which need
fairness and ENABLED, and Deployment's LeftoversDoNotRefuse. All other properties of the passing runs are proved. **Proved but in no
run:** SwitchIsRecorded, ExposedAsAsked (with `Requests <- MCPublicRequests` TLC finds no violation either),
GatedRunsSigned and the conditional theorems SerialisedUndisturbed, ImagesAreOwnAlone and RemovalSparesOthersIfOne.

## 5. Divergences

Places where the code does something else than a document or comment says, or than
a reader would expect. The first two have a run; the others are stated as definitions in the modules, at the
end, and fail when made an INVARIANT (or PROPERTY) of the configuration named, or else of the module's own.

| Formula | Said in | The code |
|---|---|---|
| OperationJobs!ActiveSurvivesRestart | `operation_jobs.py:4-5`, "survives refreshes and Manager restarts" | The executor's queue is in memory; nothing looks at old jobs on start; the status `interrupted` is never set. Run `operation_jobs_restart`. |
| CapsuleTransfer!FinalIsWhole | `agent_execution_client.py:633`, moved "only after the stream completes" | `cat` ends successfully when the connection is cut, and `mv` follows. Run `transfer_final`. |
| CapsuleTransfer!ImportedIsVerified | `deploy.py:779`, "already verified the local .kxcap" | `copy_capsule_to_droplet` verifies nothing, and a deployment that skips the copy verifies the local file of now. `MCCapsuleTransferFinal.cfg` with `MaxRebuilds = 1`. |
| ArtifactStore!HostManifestsFresh | DOC-23:211, "Every mutation increments: generation" | The extraction is replaced before the registry checks dependencies (`importer.py:460`). `MCArtifactStore.cfg` with `MaxFaults = 0`, as in the next two. |
| ArtifactStore!StoredFileIsVerified | `importer.py:85`, verifier runs "before accepting the imported file" | With overwrite the stored file is replaced first and stays when verification fails. |
| ArtifactStore!RemovalSparesInstances | DOC-23:303, removal is blocked while "an active instance still references its capsule" | The guard reads `instance-state.json`, which no code writes (`registry.py:477`). |
| ArtifactStore!RemovalSparesOthers | DOC-23:364, "remove Orgo -> Konnaxion unaffected" | Files are kept per capsule id, entries per artifact id; with `Supply <- SharedSupply` one removal takes the files of another. Where each capsule id is used for one artifact it is proved. |
| BuildJobs!BuildsSerialised | README:703 and `build_jobs.py:3`, builds are serialised | Only within one Manager process and without a timeout (then it is proved, SerialisedUndisturbed); a Builder survives its Manager. `MCBuildJobs.cfg`. |
| BuildJobs!ImagesAreOwn | README:704, concurrency "can be raised explicitly" | Concurrent builds of one version share Docker tags (`package.py:2122`). `MCBuildJobs.cfg` with two workers; with one, undisturbed, it is proved (ImagesAreOwnAlone). |
| Rollback!RollbackPointKept | DOC-04:575, "at least one rollback point" | Repeating an interrupted rollback overwrites `previous_capsule.json` with the target (`rollback.py:659`). |
| Rollback!CompletedIsHealthy | DOC-09:1024, `FAIL_BLOCKING` is no success | The hooks' results go into the step's metadata only. |
| Rollback!StartsTarget | DOC-09:869, "Recreate containers from previous capsule" | Nothing renders the compose file for the target; nothing reads the pointer. |
| AgentRuntime!DjangoConnects | containers reach their database | Twice over. `postgres.env` of the delegated writer has the placeholder DATABASE_URL (`secrets.py:632`, `konnaxion_constants.py:598`) and Compose reads it after `django.env`. And when a create is killed between `django.env` and the files with the password, the repeated one keeps the old DATABASE_URL beside a new password. |
| AgentRuntime!AuditIsTrue | an audit record says how the action ended | A blocked or failed action returns normally and is recorded as "succeeded" (`api.py:1256`). |
| AgentRuntime!RevertedIsPrivate | `exposure.py:251`, an expired public mode is "reverting to private" | The plan of `public_vps` with a past expiration says so, and the compose file is rendered with public ports. With `Requests <- MCPublicRequests`, as the next. |
| AgentRuntime!EnvironmentNamesProfile | `kx.env` names the instance's profile | `public_temporary` with an explicit loopback host leaves the defaults in it. |
| Deployment!EveryKindIsAccepted | `deploy.py:800`, an existing instance is updated; a temporary public mode may be deployed (`deploy.py:1336`) | Both Manager clients send `create_pre_update_backup` (`agent_execution_client.py:1083`, `client.py:551`); the Agent's InstanceUpdateRequest forbids extra fields (`api.py:94`, `api.py:357`), so every update is refused with 422. Were it accepted, it would render with the defaults for profile and host (`actions.py:781`). And the create for a temporary public mode omits `public_mode_expires_at`, which the API asks for (`api.py:245`). |
| Deployment!VerifiedIsDeployed | a deployment verifies its capsule | With `copy_capsule` off the local file is verified and the remote one imported, unverified. |
| Deployment!FailedIsFinal | a failed deployment is over | A start that was queued at the Agent runs after its deployment was reported failed. |
| Restore!RestoredIsKept | a restore marked restored is done | If its report or audit record cannot be written, it is rolled back (`restore.py:593`). |
| Restore!UntouchedIsNotRolledBack | DOC-09:1340 | A restore that failed before it touched anything is marked ROLLED_BACK (`restore.py:608`). |
| Restore!VerifiedOutlivesUnverified | DOC-09:229, retention keeps the newest backups | Records that were never verified are counted (`retention.py:532`) and displace verified ones. |
| Packaging!AlwaysDeclared | the capsule's images are those of `images.yaml` | Nothing locks a prepared directory. An accepted archive may have other images if two builds were in it, if an image was put aside while the checksums were taken, put back for validation and then replaced, or if `checksums.txt` was made anew by hand. |
| Packaging!OkIsSigned | the Builder verifies signatures | `verify --public-key-file` passes the key but no verifier, which is a warning (`main.py:583`, `verify.py:1290`). |
| Packaging!AcceptedImagesAreListed | `checksums.txt` covers the capsule | The Agent accepts image archives that it does not list, and does not read `images.yaml`. |
| Rollback!StartsIntact | DOC-09:1359, "keep services stopped if integrity is unknown" | A rollback does not look at the record of the one before it. |

Other disagreements that the modelling met, with no formula of their own:

* *Exposure.* `set_profile` to `offline` is always refused (`exposure.py:362`, `actions.py:1678`); create accepts
  expirations and combinations that `set_profile` refuses; disable-public and expire carry only the instance's id, so the
  host becomes 127.0.0.1; nothing calls expire when the time has come (DOC-06:701, 720); they
  rewrite files only, the containers keep their ports until the next start.
* *Artifacts.* An import whose read-back of the registry fails after the registration answers failed, and without overwrite its clean-up
  unlinks the stored capsule of the entry that is there (`importer.py:478`, 500-502).
* *Agent.* A configuration that is answered as failed may have replaced the compose file (`compose.py:1753`). A manifest that is not found is taken from any other capsule; a skipped security check counts
  as ok when there is no compose file.
* *Deployment.* A plan-only deployment answers "completed", having verified the file and probed the Agent. The
  verification of a deployment does not look at signatures (`deploy.py:560`) while the Agent on a Droplet is told not to verify the import.
* *Restore.* A retention count of 0 is accepted (`retention.py:186`) and prunes the backup that a restore in progress would go back to. The result of the stop is not looked at, the pre-restore backup is taken before the
  stop, and nothing starts the target again (DOC-09:566, 713). The classes scheduled_daily, scheduled_weekly, scheduled_monthly, pre_rollback
  and test_restore are unknown to retention, which keeps them 14 days (`backup.py:104`, `retention.py:30`). A backup that
  `create_backup_plan` makes has none of the files that `restore.py:48` and `verify.py:201` require. A dry run leaves the mark
  PREFLIGHT while its report says planned. `handle_backup_test_restore` always errors (`actions.py:1536`).
* *Packaging.* The verifiers parse `checksums.txt` differently: a file with a space in its path is accepted by the Builder (`verify.py:249`) and refused by
  the Agent (`verifier.py:713`). An unsigned development capsule is reported ok by the Builder and refused by the Agent in every
  configuration (`verifier.py:583`); `--require-signature-verifier` always fails; the Agent refuses paths under development directories that the Builder packs; an
  archive that fails verification stays at the output path.
* *Lifecycle.* `state.py` and `lifecycle.py` disagree, for instance on CREATED to STARTING, READY to STOPPED, RUNNING to ROLLING_BACK.

## 6. Plan

Done: the modules above. The order was: what several threads or processes share (OperationJobs and BuildJobs with
JobContract, CapsuleTransfer), what a kill or a refused effect leaves on disk (ArtifactStore, Rollback, AgentRuntime, Restore), what
composes them (InstanceContract, Deployment), and what is packed and accepted (Packaging).

What is left, in the order of its worth:

1. **Deployment with two Managers**, or a GUI and the command line at once: calls of two senders interleave at the Agent and CompletedRuns no
   longer holds as stated; the question is what remains of it.
2. **More conditional theorems**: for each divergence of section 5 the weakest condition under which the claim holds, as
   SerialisedUndisturbed, ImagesAreOwnAlone and RemovalSparesOthersIfOne do for three of them.
3. **VersionOrder**: the order on version keys against a reference order.

## 7. What is not modelled

* The text of files, pages, commands and logs, and the forms and layout of the GUI.
* Reads of unreadable job files: `_read_json` returns nothing for them and the next
  update writes an almost empty record.
* The commands that only look (validate, verify, list, status, logs).
* The Droplet's SSH daemon and `sudo` beyond what the remote command needs, Docker
  beyond tags and running containers, and the clock: timeouts happen at any time.
* Instance lifecycle (`instances/{state,lifecycle,model}.py`): only tests use these classes. The same is true, seen from the
  programs' entry points, of `security/{checks,policies,ports,firewall}.py`, `network/{profiles,tunnels}.py`,
  `runtime/{healthchecks,logs,migrations}.py`, `instances/{env_writer,config}.py` and `capsules/manifest.py`; of these only what the
  modelled code shares a rule with is in a module. The same holds of `backups/`, whose state makes it worth modelling all the same.
* The Manager's routes, HTTP client and forms and `kx_cli`, which keep no state and forward a request.
* What docker builds, and the rules on the contents of manifest, compose file and templates, beyond their verdict.
* Two deployments at a time: the operation executor of a Manager has one worker.

Out of the prover's reach and left to TLC: liveness under fairness, and what a
recursive function computes for every input.

## 8. Running it

```
tlc -workers 2 -config MCBuildJobs.cfg MCBuildJobs.tla   # any run of PROJECT.json
tlapm BuildJobsProofs.tla                                # any proof module
```

The longest runs (`operation_jobs`, `build_page`, `restore`, `agent_runtime`, `packaging`) take two to three minutes, the longest proof
modules (BuildJobsProofs, AgentRuntimeProofs) four to five.
