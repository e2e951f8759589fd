--------------------------- MODULE ArtifactStore ---------------------------
(***************************************************************************)
(* Installed capsules and artifacts on a host                              *)
(* (src/kx_agent/capsules/importer.py, src/kx_agent/artifacts/registry.py).*)
(*                                                                         *)
(* For every capsule id the Agent keeps a stored file and an extracted     *)
(* tree; the registry maps every installed artifact to the build and the   *)
(* capsule it came from, under a generation that composition hosts poll.   *)
(* Imports and removals are action handlers; the Agent runs one handler at *)
(* a time, but each is several effects on disk, any of which may be        *)
(* refused by the system or be the last one before the Agent is killed.    *)
(*                                                                         *)
(* A build is the content of one .kxcap: the same capsule id may be        *)
(* imported again with another build.                                      *)
(***************************************************************************)
EXTENDS Integers

CONSTANTS
    Capsules,   \* capsule ids
    Artifacts,  \* artifact ids
    Builds,     \* capsule contents
    Versions,   \* artifact versions
    Caps,       \* capabilities
    Instances,  \* instances that may run a capsule
    None,       \* no build, no capsule, no entry
    Descriptor, \* Descriptor[b]: the artifact.yaml of build b
    Trusted,    \* builds the verifier accepts
    Supply,     \* which build may be offered under which capsule id
    MaxGeneration, \* bound on registry mutations
    MaxFaults      \* bound on refused effects and Agent kills

DescriptorType ==
    [artifact : Artifacts, version : Versions,
     requires : SUBSET [artifact : Artifacts, accepts : SUBSET Versions],
     provides : SUBSET Caps, uses : SUBSET Caps,
     removable : BOOLEAN, integrated : BOOLEAN]

Entry == [build : Builds, capsule : Capsules, verified : BOOLEAN]

ASSUME NoneAssumption ==
    None \notin Builds /\ None \notin Capsules /\ None \notin Artifacts /\ None \notin Entry
ASSUME DescriptorAssumption == Descriptor \in [Builds -> DescriptorType]
ASSUME SupplyAssumption == Trusted \subseteq Builds /\ Supply \subseteq Capsules \X Builds
ASSUME BoundsAssumption == MaxGeneration \in Nat /\ MaxFaults \in Nat

VARIABLES
    file,       \* file[c]: build stored as <c>.kxcap
    tree,       \* tree[c]: build whose extraction is the work directory of c
    aside,      \* aside[c]: previous extraction while it is being replaced
    registry,   \* registry[a]: entry of the installed artifact a
    generation, \* the registry's generation
    uses,       \* uses[i]: capsule that the runtime files of instance i name
    host,       \* what a composition host fetched last, and when
    op,         \* the Agent's current import or removal
    broken,     \* history: capsules whose files an interrupted or failed operation took
    faults      \* used up of MaxFaults

disk == <<file, tree, aside>>
vars == <<file, tree, aside, registry, generation, uses, host, op, broken, faults>>

-----------------------------------------------------------------------------
Installed == {a \in Artifacts : registry[a] # None}
Desc(a) == Descriptor[registry[a].build]

\* integration.status of an entry is "available" (_build_entry)
Available(a) ==
    /\ a \in Installed
    /\ registry[a].verified
    /\ Desc(a).integrated

\* Mutant of DependenciesMet: only capabilities are looked for.
CapabilitiesMet(d) == \A k \in d.uses : \E a \in Installed : k \in Desc(a).provides

\* _validate_dependencies: d's needs, met by the installed artifacts
DependenciesMet(d) ==
    /\ \A r \in d.requires : r.artifact \in Installed
    /\ \A r \in d.requires : Desc(r.artifact).version \in r.accepts
    /\ \A k \in d.uses : \E a \in Installed : k \in Desc(a).provides

\* _required_dependents and _capability_dependents of a
RequiredDependents(a) ==
    {o \in Installed \ {a} : \E r \in Desc(o).requires : r.artifact = a}
\* Mutant of OnlyProvidedBy: capabilities are forgotten.
NothingProvided(a) == {}
OnlyProvidedBy(a) ==
    {k \in Desc(a).provides : \A o \in Installed \ {a} : k \notin Desc(o).provides}
CapabilityDependents(a) ==
    {o \in Installed \ {a} : Desc(o).uses \cap OnlyProvidedBy(a) # {}}

\* _instances_using_capsule searches instances/*/state/instance-state.json,
\* a file that no code of the repository writes.
RecordedCapsule(i) == None
InstancesUsing(c) == {i \in Instances : RecordedCapsule(i) = c}

-----------------------------------------------------------------------------
Idle == [at |-> "idle", capsule |-> None, build |-> None, artifact |-> None,
         verify |-> FALSE, overwrite |-> FALSE, verified |-> FALSE,
         before |-> None]
Steps == {"copy", "verify", "extract", "swap", "register", "reload",
          "unlink", "rmtree", "delist"}
Ends == {"done", "failed"}
Go(place) == op' = [op EXCEPT !.at = place]

Init ==
    /\ file = [c \in Capsules |-> None]
    /\ tree = [c \in Capsules |-> None]
    /\ aside = [c \in Capsules |-> None]
    /\ registry = [a \in Artifacts |-> None]
    /\ generation = 0
    /\ uses = [i \in Instances |-> None]
    /\ host = [generation |-> 0, candidates |-> {},
               manifest |-> [a \in Artifacts |-> None]]
    /\ op = Idle
    /\ broken = {}
    /\ faults = 0

\* The system refuses an effect (disk full, permission): an exception.
Fault == faults < MaxFaults /\ faults' = faults + 1

-----------------------------------------------------------------------------
(* handle_capsule_import: import_capsule and what it calls.                *)

BeginImport(c, b, verify, overwrite) ==
    /\ op.at = "idle"
    /\ <<c, b>> \in Supply
    /\ generation < MaxGeneration
    /\ op' = [Idle EXCEPT !.at = "copy", !.capsule = c, !.build = b,
                          !.verify = verify, !.overwrite = overwrite,
                          !.before = file[c]]
    /\ UNCHANGED <<disk, registry, generation, uses, host, broken, faults>>

\* The except clause of import_capsule; its unlink is not refused.
CleanUp ==
    /\ file' = IF op.overwrite THEN file ELSE [file EXCEPT ![op.capsule] = None]
    /\ Go("failed")

\* Mutant of CopyCapsule: the copy is inside the try.
CopyInsideTry ==
    /\ op.at = "copy"
    /\ \/ /\ file[op.capsule] = None \/ op.overwrite
          /\ file' = [file EXCEPT ![op.capsule] = op.build]
          /\ Go("verify")
          /\ UNCHANGED faults
       \/ /\ file[op.capsule] # None /\ ~op.overwrite
          /\ CleanUp
          /\ UNCHANGED faults
    /\ UNCHANGED <<tree, aside, registry, generation, uses, host, broken>>

\* atomic_copy_file; it is called before the try of import_capsule.
CopyCapsule ==
    /\ op.at = "copy"
    /\ \/ /\ file[op.capsule] = None \/ op.overwrite
          /\ file' = [file EXCEPT ![op.capsule] = op.build]
          /\ Go("verify")
          /\ UNCHANGED faults
       \/ /\ file[op.capsule] # None /\ ~op.overwrite  \* CapsuleAlreadyExistsError
          /\ Go("failed")
          /\ UNCHANGED <<file, faults>>
       \/ /\ Fault
          /\ Go("failed")
          /\ UNCHANGED file
    /\ UNCHANGED <<tree, aside, registry, generation, uses, host, broken>>

VerifyCapsule ==
    /\ op.at = "verify"
    /\ \/ /\ op.verify => op.build \in Trusted
          /\ op' = [op EXCEPT !.at = "extract", !.verified = op.verify]
          /\ UNCHANGED file
       \/ /\ op.verify /\ op.build \notin Trusted
          /\ CleanUp
    /\ UNCHANGED <<tree, aside, registry, generation, uses, host, broken, faults>>

\* extract_capsule_to_work_dir: extract and check a temporary sibling, then
\* _replace_directory_with_backup moves the old directory aside, if any (a
\* directory set aside by a killed import stays on disk, and nothing reads it).
ExtractCapsule ==
    /\ op.at = "extract"
    /\ \/ /\ aside' = [aside EXCEPT ![op.capsule] = tree[op.capsule]]
          /\ tree' = [tree EXCEPT ![op.capsule] = None]
          /\ Go("swap")
          /\ UNCHANGED <<file, faults>>
       \/ /\ Fault
          /\ CleanUp
          /\ UNCHANGED <<tree, aside>>
    /\ UNCHANGED <<registry, generation, uses, host, broken>>

\* Mutant of SwapTree: the old directory is not moved back.
SwapOrLose ==
    /\ op.at = "swap"
    /\ aside' = [aside EXCEPT ![op.capsule] = None]
    /\ \/ /\ tree' = [tree EXCEPT ![op.capsule] = op.build]
          /\ Go("register")
          /\ UNCHANGED <<file, faults>>
       \/ /\ Fault
          /\ CleanUp
          /\ UNCHANGED tree
    /\ UNCHANGED <<registry, generation, uses, host, broken>>

\* ... and moves the new directory in, or the old one back.
SwapTree ==
    /\ op.at = "swap"
    /\ aside' = [aside EXCEPT ![op.capsule] = None]
    /\ \/ /\ tree' = [tree EXCEPT ![op.capsule] = op.build]
          /\ Go("register")
          /\ UNCHANGED <<file, faults>>
       \/ /\ Fault
          /\ tree' = [tree EXCEPT ![op.capsule] = aside[op.capsule]]
          /\ CleanUp
    /\ UNCHANGED <<registry, generation, uses, host, broken>>

\* register_artifact_from_capsule
RegisterArtifact ==
    LET d == Descriptor[op.build] IN
    /\ op.at = "register"
    /\ \/ /\ DependenciesMet(d)
          /\ registry' = [registry EXCEPT ![d.artifact] =
                [build |-> op.build, capsule |-> op.capsule, verified |-> op.verified]]
          /\ generation' = generation + 1
          /\ broken' = broken \ {op.capsule}
          /\ Go("reload")
          /\ UNCHANGED <<file, faults>>
       \/ /\ ~DependenciesMet(d)  \* ArtifactDependencyError
          /\ CleanUp
          /\ UNCHANGED <<registry, generation, broken, faults>>
       \/ /\ Fault
          /\ CleanUp
          /\ UNCHANGED <<registry, generation, broken>>
    /\ UNCHANGED <<tree, aside, uses, host>>

\* load_registry for the answer's generation, still inside the try: the entry
\* is there already when the clean-up takes its stored file.
ReadGeneration ==
    /\ op.at = "reload"
    /\ \/ Go("done") /\ UNCHANGED <<file, broken, faults>>
       \/ /\ Fault
          /\ CleanUp
          /\ broken' = IF op.overwrite THEN broken ELSE broken \cup {op.capsule}
    /\ UNCHANGED <<tree, aside, registry, generation, uses, host>>

-----------------------------------------------------------------------------
(* handle_artifact_remove: remove_artifact.  A refused removal changes     *)
(* nothing, so only removals that pass the guards begin.                   *)

RemovalAllowed(a) ==
    /\ Desc(a).removable
    /\ RequiredDependents(a) = {}
    /\ CapabilityDependents(a) = {}
    /\ InstancesUsing(registry[a].capsule) = {}

BeginRemove(a) ==
    /\ op.at = "idle"
    /\ a \in Installed
    /\ RemovalAllowed(a)
    /\ generation < MaxGeneration
    /\ op' = [Idle EXCEPT !.at = "unlink", !.artifact = a,
                          !.capsule = registry[a].capsule]
    /\ UNCHANGED <<disk, registry, generation, uses, host, broken, faults>>

\* Files that another entry or a half-done removal took already are skipped.
RemoveFile ==
    /\ op.at = "unlink"
    /\ \/ /\ file' = [file EXCEPT ![op.capsule] = None]
          /\ Go("rmtree")
          /\ UNCHANGED faults
       \/ /\ Fault
          /\ Go("failed")
          /\ UNCHANGED file
    /\ UNCHANGED <<tree, aside, registry, generation, uses, host, broken>>

\* A refused rmtree has already deleted a part of the tree.
RemoveTree ==
    /\ op.at = "rmtree"
    /\ tree' = [tree EXCEPT ![op.capsule] = None]
    /\ \/ /\ Go("delist")
          /\ UNCHANGED <<broken, faults>>
       \/ /\ Fault
          /\ broken' = broken \cup {op.capsule}
          /\ Go("failed")
    /\ UNCHANGED <<file, aside, registry, generation, uses, host>>

\* Mutant of RemoveEntry: the generation is that of the loaded registry.
RemoveSilently ==
    /\ op.at = "delist"
    /\ registry' = [registry EXCEPT ![op.artifact] = None]
    /\ Go("done")
    /\ UNCHANGED <<disk, generation, uses, host, broken, faults>>

RemoveEntry ==
    /\ op.at = "delist"
    /\ \/ /\ registry' = [registry EXCEPT ![op.artifact] = None]
          /\ generation' = generation + 1
          /\ Go("done")
          /\ UNCHANGED <<broken, faults>>
       \/ /\ Fault
          /\ broken' = broken \cup {op.capsule}
          /\ Go("failed")
          /\ UNCHANGED <<registry, generation>>
    /\ UNCHANGED <<disk, uses, host>>

-----------------------------------------------------------------------------
\* The handler answers; the next request may come.
Reply ==
    /\ op.at \in Ends
    /\ op' = Idle
    /\ UNCHANGED <<disk, registry, generation, uses, host, broken, faults>>

\* The Agent is killed in the middle of a handler and started again.
KillAgent ==
    /\ op.at \in Steps
    /\ Fault
    /\ op' = Idle
    /\ broken' = IF op.at \in {"swap", "rmtree", "delist"} THEN broken \cup {op.capsule} ELSE broken
    /\ UNCHANGED <<disk, registry, generation, uses, host>>

\* instance_create renders runtime files that name the capsule.
CreateInstance(i, c) ==
    /\ op.at = "idle"
    /\ tree[c] # None
    /\ uses[i] # c
    /\ uses' = [uses EXCEPT ![i] = c]
    /\ UNCHANGED <<disk, registry, generation, host, op, broken, faults>>

\* GET /v1/artifacts?composition_candidates_only=true and, for each candidate,
\* GET /v1/artifacts/{id}/integration-manifest, between two handlers.
Candidates == {a \in Artifacts : Available(a)}
\* Mutant of Manifest: the answer is the registry entry itself.
EntryAsManifest(a) == IF a \in Candidates THEN registry[a] ELSE None
Manifest(a) == IF a \in Candidates THEN tree[registry[a].capsule] ELSE None

RefreshHost ==
    /\ op.at \in {"idle"} \cup Ends
    /\ host' = [generation |-> generation, candidates |-> Candidates,
                manifest |-> [a \in Artifacts |-> Manifest(a)]]
    /\ UNCHANGED <<disk, registry, generation, uses, op, broken, faults>>

Next ==
    \/ \E c \in Capsules, b \in Builds, verify, overwrite \in BOOLEAN :
          BeginImport(c, b, verify, overwrite)
    \/ CopyCapsule \/ VerifyCapsule \/ ExtractCapsule \/ SwapTree \/ RegisterArtifact
    \/ ReadGeneration
    \/ \E a \in Artifacts : BeginRemove(a)
    \/ RemoveFile \/ RemoveTree \/ RemoveEntry
    \/ Reply \/ KillAgent
    \/ \E i \in Instances, c \in Capsules : CreateInstance(i, c)
    \/ RefreshHost

Spec == Init /\ [][Next]_vars

-----------------------------------------------------------------------------
(* Properties.                                                             *)

\* Every variable has its type.
Places == {"idle"} \cup Steps \cup Ends
MaybeBuild == Builds \cup {None}
OpType ==
    [at : Places, capsule : Capsules \cup {None}, build : MaybeBuild,
     artifact : Artifacts \cup {None}, verify : BOOLEAN, overwrite : BOOLEAN,
     verified : BOOLEAN, before : MaybeBuild]
TypeOK ==
    /\ file \in [Capsules -> MaybeBuild]
    /\ tree \in [Capsules -> MaybeBuild]
    /\ aside \in [Capsules -> MaybeBuild]
    /\ registry \in [Artifacts -> Entry \cup {None}]
    /\ generation \in Nat
    /\ uses \in [Instances -> Capsules \cup {None}]
    /\ host \in [generation : Nat, candidates : SUBSET Artifacts,
                 manifest : [Artifacts -> MaybeBuild]]
    /\ op \in OpType
    /\ broken \subseteq Capsules
    /\ faults \in 0..MaxFaults

Quiet == op.at \in {"idle"} \cup Ends

\* Whatever is installed, upgraded and removed, in any order and with any
\* interruption, an installed artifact's required artifacts are installed
\* (registry.py: _validate_dependencies on the way in, _required_dependents
\* on the way out).
DependenciesInstalled ==
    \A a \in Installed : \A r \in Desc(a).requires : r.artifact \in Installed

\* Removing an artifact breaks no dependency of another one that was met
\* before, be it an artifact, its version or a capability (remove_artifact).
RemovalKeepsDependencies ==
    [][\A o \in Artifacts :
          op.at = "delist" /\ o \in Installed /\ o # op.artifact /\ DependenciesMet(Desc(o))
             => DependenciesMet(Desc(o))']_vars

\* Between handlers, every installed artifact has its capsule file and its
\* extraction, unless a kill or a refused effect interrupted a removal or a
\* replacement of that capsule, or the registry could not be read back after the
\* registration, which unlinks the stored file of an import without overwrite:
\* every other failure restores what was there.
EntriesHaveFiles ==
    Quiet => \A a \in Installed :
        LET c == registry[a].capsule IN
        c \in broken \/ (file[c] # None /\ tree[c] # None)

\* A composition host that sees the generation it knows also knows the right
\* candidates (remove_artifact, register_artifact_from_capsule).
HostCandidatesFresh ==
    host.generation = generation => host.candidates = Candidates

\* A failed import that may not overwrite leaves the capsule file of that id
\* as it found it, the one of another import included (import_capsule).
FailedImportKeepsFile ==
    op.at = "failed" /\ op.build # None /\ ~op.overwrite => file[op.capsule] = op.before

-----------------------------------------------------------------------------
(* What documents promise and the code does not keep (README, Divergences); *)
(* no run checks these.                                                    *)

\* A host needs to refresh only when the generation changes (DOC-23, 7).
HostManifestsFresh ==
    Quiet /\ host.generation = generation
        => host.manifest = [a \in Artifacts |-> Manifest(a)]

\* The verifier runs before the imported file is accepted (importer.py, verify).
StoredFileIsVerified ==
    Quiet => \A a \in Installed :
        registry[a].verified => file[registry[a].capsule] \in Trusted \cup {None}

\* Removal is blocked while an instance references the capsule (DOC-23, 10).
RemovalSparesInstances ==
    op.at = "rmtree" => \A i \in Instances : uses[i] # op.capsule

\* Removing an artifact leaves the others functional (DOC-23, 12).
RemovalSparesOthers ==
    op.at = "rmtree" =>
        \A o \in Installed \ {op.artifact} : registry[o].capsule # op.capsule
=============================================================================
