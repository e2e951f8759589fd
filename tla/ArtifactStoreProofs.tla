------------------------ MODULE ArtifactStoreProofs ------------------------
(***************************************************************************)
(* Proofs about ArtifactStore, for any capsules, artifacts, builds and     *)
(* descriptors, and any number of kills and refused effects.               *)
(*                                                                         *)
(* The registry changes in two steps only, RegisterArtifact and            *)
(* RemoveEntry.  The first checks what it needs in the same step; the      *)
(* second relies on guards evaluated three steps before, which hold still  *)
(* because no other handler runs in between (RemovalInv).                  *)
(***************************************************************************)
EXTENDS ArtifactStore, TLAPS

USE NoneAssumption, DescriptorAssumption, SupplyAssumption, BoundsAssumption

Importing == {"copy", "verify", "extract", "swap", "register", "reload"}
Removing == {"unlink", "rmtree", "delist"}

-----------------------------------------------------------------------------
(* Types.                                                                  *)

\* The initial values have their types.
LEMMA InitTypes == Init => TypeOK
BY DEF Init, TypeOK, Idle, OpType, Places, MaybeBuild

\* A handler that moves on keeps its other fields.
LEMMA GoTyped ==
    ASSUME op \in OpType, NEW place \in Places, Go(place)
    PROVE  /\ op' \in OpType
           /\ op'.at = place
           /\ op'.capsule = op.capsule /\ op'.artifact = op.artifact
           /\ op'.build = op.build /\ op'.before = op.before
           /\ op'.verify = op.verify /\ op'.verified = op.verified
           /\ op'.overwrite = op.overwrite
BY DEF OpType, Go

\* No operation is an operation state.
LEMMA IdleTyped == Idle \in OpType
BY DEF OpType, Idle, Places, MaybeBuild

\* Removing the temporary files keeps the types.
LEMMA CleanUpTyped ==
    ASSUME TypeOK, CleanUp
    PROVE  file' \in [Capsules -> MaybeBuild] /\ op' \in OpType
<1>1. "failed" \in Places
    BY DEF Places, Ends
<1>2. op' \in OpType
    BY <1>1, GoTyped DEF TypeOK, CleanUp
<1>3. file' \in [Capsules -> MaybeBuild]
    BY DEF TypeOK, CleanUp, MaybeBuild
<1> QED
    BY <1>2, <1>3

\* What a handler works on exists, in every step of it.
OpTargets ==
    /\ op.at \in Importing => op.capsule \in Capsules /\ op.build \in Builds
    /\ op.at \in Removing => op.capsule \in Capsules /\ op.artifact \in Artifacts
    /\ op.at = "idle" => op = Idle

\* Every step keeps every variable in its type.
LEMMA NextTypes == TypeOK /\ OpTargets /\ [Next]_vars => TypeOK'
<1> SUFFICES ASSUME TypeOK, OpTargets, [Next]_vars PROVE TypeOK'
    OBVIOUS
<1>p. /\ {"verify", "extract", "swap", "register", "reload", "rmtree", "delist", "done", "failed", "copy", "unlink"} \subseteq Places
      /\ None \in MaybeBuild
    BY DEF Places, Steps, Ends, MaybeBuild
<1>1. ASSUME NEW c \in Capsules, NEW b \in Builds, NEW v \in BOOLEAN, NEW o \in BOOLEAN,
             BeginImport(c, b, v, o)
      PROVE TypeOK'
  <2>1. op' \in OpType
    BY <1>1, <1>p, IdleTyped DEF BeginImport, TypeOK, OpType, MaybeBuild
  <2> QED
    BY <1>1, <2>1 DEF BeginImport, TypeOK, disk
<1>2. CASE CopyCapsule
  <2>1. op' \in OpType
    BY <1>2, <1>p, GoTyped DEF CopyCapsule, TypeOK
  <2>2. file' \in [Capsules -> MaybeBuild]
    BY <1>2 DEF CopyCapsule, TypeOK, OpTargets, Importing, MaybeBuild
  <2>3. faults' \in 0..MaxFaults
    BY <1>2 DEF CopyCapsule, TypeOK, Fault
  <2> QED
    BY <1>2, <2>1, <2>2, <2>3 DEF CopyCapsule, TypeOK
<1>3. CASE VerifyCapsule
  <2>1. CASE op' = [op EXCEPT !.at = "extract", !.verified = op.verify] /\ UNCHANGED file
    <3>1. op' \in OpType
      BY <2>1, <1>p DEF TypeOK, OpType
    <3> QED
      BY <1>3, <2>1, <3>1 DEF VerifyCapsule, TypeOK
  <2>2. CASE CleanUp
    BY <1>3, <2>2, CleanUpTyped DEF VerifyCapsule, TypeOK
  <2> QED
    BY <1>3, <2>1, <2>2 DEF VerifyCapsule
<1>4. CASE ExtractCapsule
  <2>1. op' \in OpType /\ file' \in [Capsules -> MaybeBuild]
    BY <1>4, <1>p, GoTyped, CleanUpTyped DEF ExtractCapsule, TypeOK
  <2>2. tree' \in [Capsules -> MaybeBuild] /\ aside' \in [Capsules -> MaybeBuild]
    BY <1>4, <1>p DEF ExtractCapsule, TypeOK, OpTargets, Importing
  <2>3. faults' \in 0..MaxFaults
    BY <1>4 DEF ExtractCapsule, TypeOK, Fault
  <2> QED
    BY <1>4, <2>1, <2>2, <2>3 DEF ExtractCapsule, TypeOK
<1>5. CASE SwapTree
  <2>1. op' \in OpType /\ file' \in [Capsules -> MaybeBuild]
    BY <1>5, <1>p, GoTyped, CleanUpTyped DEF SwapTree, TypeOK
  <2>2. tree' \in [Capsules -> MaybeBuild] /\ aside' \in [Capsules -> MaybeBuild]
    BY <1>5, <1>p DEF SwapTree, TypeOK, OpTargets, Importing, MaybeBuild
  <2>3. faults' \in 0..MaxFaults
    BY <1>5 DEF SwapTree, TypeOK, Fault
  <2> QED
    BY <1>5, <2>1, <2>2, <2>3 DEF SwapTree, TypeOK
<1>6. CASE RegisterArtifact
  <2>1. op' \in OpType /\ file' \in [Capsules -> MaybeBuild]
    BY <1>6, <1>p, GoTyped, CleanUpTyped DEF RegisterArtifact, TypeOK
  <2>2. faults' \in 0..MaxFaults /\ broken' \subseteq Capsules /\ generation' \in Nat
    BY <1>6 DEF RegisterArtifact, TypeOK, Fault
  <2>3. registry' \in [Artifacts -> Entry \cup {None}]
    <3> DEFINE e == [build |-> op.build, capsule |-> op.capsule, verified |-> op.verified]
    <3>1. e \in Entry
      BY <1>6 DEF RegisterArtifact, OpTargets, Importing, TypeOK, OpType, Entry
    <3>2. registry' = [registry EXCEPT ![Descriptor[op.build].artifact] = e] \/ UNCHANGED registry
      BY <1>6 DEF RegisterArtifact
    <3> QED
      BY <3>1, <3>2 DEF TypeOK
  <2> QED
    BY <1>6, <2>1, <2>2, <2>3 DEF RegisterArtifact, TypeOK
<1>7. ASSUME NEW a \in Artifacts, BeginRemove(a) PROVE TypeOK'
  <2>1. registry[a].capsule \in Capsules
    BY <1>7 DEF BeginRemove, Installed, TypeOK, Entry
  <2>2. op' \in OpType
    BY <1>7, <2>1, <1>p, IdleTyped DEF BeginRemove, OpType
  <2> QED
    BY <1>7, <2>2 DEF BeginRemove, TypeOK, disk
<1>8. CASE RemoveFile
  <2>1. op' \in OpType
    BY <1>8, <1>p, GoTyped DEF RemoveFile, TypeOK
  <2> QED
    BY <1>8, <2>1, <1>p DEF RemoveFile, TypeOK, Fault
<1>9. CASE RemoveTree
  <2>1. op' \in OpType
    BY <1>9, <1>p, GoTyped DEF RemoveTree, TypeOK
  <2>2. broken' \subseteq Capsules /\ faults' \in 0..MaxFaults
    BY <1>9 DEF RemoveTree, TypeOK, Fault, OpTargets, Removing
  <2> QED
    BY <1>9, <2>1, <2>2, <1>p DEF RemoveTree, TypeOK
<1>10. CASE RemoveEntry
  <2>1. op' \in OpType
    BY <1>10, <1>p, GoTyped DEF RemoveEntry, TypeOK
  <2>2. broken' \subseteq Capsules /\ faults' \in 0..MaxFaults /\ generation' \in Nat
    BY <1>10 DEF RemoveEntry, TypeOK, Fault, OpTargets, Removing
  <2>3. registry' \in [Artifacts -> Entry \cup {None}]
    BY <1>10 DEF RemoveEntry, TypeOK
  <2> QED
    BY <1>10, <2>1, <2>2, <2>3 DEF RemoveEntry, TypeOK, disk
<1>11. CASE Reply
    BY <1>11, IdleTyped DEF Reply, TypeOK, disk
<1>12. CASE KillAgent
  <2>1. broken' \subseteq Capsules /\ faults' \in 0..MaxFaults
    BY <1>12 DEF KillAgent, TypeOK, Fault, OpTargets, Removing, Importing
  <2> QED
    BY <1>12, <2>1, IdleTyped DEF KillAgent, TypeOK, disk
<1>13. ASSUME NEW i \in Instances, NEW c \in Capsules, CreateInstance(i, c) PROVE TypeOK'
    BY <1>13 DEF CreateInstance, TypeOK, disk
<1>14. CASE RefreshHost
  <2>1. ASSUME NEW a \in Artifacts PROVE Manifest(a) \in MaybeBuild
    BY <1>p DEF Manifest, Candidates, Available, Installed, TypeOK, Entry
  <2>2. host' \in [generation : Nat, candidates : SUBSET Artifacts,
                   manifest : [Artifacts -> MaybeBuild]]
    BY <1>14, <2>1 DEF RefreshHost, TypeOK, Candidates
  <2> QED
    BY <1>14, <2>2 DEF RefreshHost, TypeOK, disk
<1>16. CASE ReadGeneration
  <2>1. op' \in OpType /\ file' \in [Capsules -> MaybeBuild]
    BY <1>16, <1>p, GoTyped, CleanUpTyped DEF ReadGeneration, TypeOK
  <2>2. broken' \subseteq Capsules /\ faults' \in 0..MaxFaults
    BY <1>16 DEF ReadGeneration, TypeOK, Fault, OpTargets, Importing
  <2> QED
    BY <1>16, <2>1, <2>2 DEF ReadGeneration, TypeOK
<1>15. CASE UNCHANGED vars
    BY <1>15 DEF vars, disk, TypeOK
<1> QED
    BY <1>1, <1>2, <1>3, <1>4, <1>5, <1>6, <1>7, <1>8, <1>9, <1>10, <1>11, <1>12,
       <1>13, <1>14, <1>15, <1>16 DEF Next

-----------------------------------------------------------------------------
(* The current handler.                                                    *)

\* The guards of a removal hold until its last step; what an import calls
\* verified was accepted by the verifier.
RemovalInv ==
    op.at \in Removing =>
        /\ op.artifact \in Installed
        /\ RemovalAllowed(op.artifact)
        /\ registry[op.artifact].capsule = op.capsule
        /\ op.build = None
ImportInv ==
    /\ op.verified => op.build \in Trusted
    /\ op.at \in Importing => <<op.capsule, op.build>> \in Supply
OpInv == OpTargets /\ RemovalInv /\ ImportInv

\* No operation is under way at first.
LEMMA InitOp == Init => OpInv
BY DEF Init, OpInv, OpTargets, RemovalInv, ImportInv, Idle, Importing, Removing

\* While the registry stands, so do the guards that read it.
LEMMA GuardsStand ==
    ASSUME UNCHANGED registry, NEW a
    PROVE  /\ (a \in Installed)' <=> a \in Installed
           /\ RemovalAllowed(a)' <=> RemovalAllowed(a)
BY DEF RemovalAllowed, RequiredDependents, CapabilityDependents, OnlyProvidedBy,
       Installed, Desc, InstancesUsing, RecordedCapsule

\* Every step keeps what a running operation has established.
LEMMA NextOp == TypeOK /\ OpInv /\ [Next]_vars => OpInv'
<1> SUFFICES ASSUME TypeOK, OpInv, [Next]_vars PROVE OpInv'
    OBVIOUS
<1> USE DEF OpInv, OpTargets, RemovalInv, ImportInv
<1>g. ASSUME NEW place \in Places, Go(place), UNCHANGED registry,
             place \in Importing => op.at \in Importing,
             place \in Removing => op.at \in Removing,
             place # "idle"
      PROVE OpInv'
  <2>1. /\ op'.at = place
        /\ op'.capsule = op.capsule /\ op'.artifact = op.artifact
        /\ op'.build = op.build /\ op'.verified = op.verified
    BY <1>g, GoTyped DEF TypeOK
  <2> QED
    BY <1>g, <2>1, GuardsStand
<1>p. /\ {"verify", "extract", "swap", "register", "reload", "rmtree", "delist", "done", "failed"} \subseteq Places
      /\ {"verify", "extract", "swap", "register", "reload"} \subseteq Importing
      /\ {"rmtree", "delist"} \subseteq Removing
      /\ {"done", "failed"} \cap (Importing \cup Removing) = {}
      /\ Importing \cap Removing = {}
    BY DEF Places, Steps, Ends, Importing, Removing
<1>i. op' = Idle => OpInv'
    BY DEF Idle, Importing, Removing
<1>1. ASSUME NEW c \in Capsules, NEW b \in Builds, NEW v \in BOOLEAN, NEW o \in BOOLEAN,
             BeginImport(c, b, v, o)
      PROVE OpInv'
  <2>1. op'.at = "copy" /\ op'.capsule = c /\ op'.build = b /\ op'.verified = FALSE
    BY <1>1 DEF BeginImport, Idle
  <2> QED
    BY <1>1, <2>1 DEF BeginImport, Removing
<1>2. CASE CopyCapsule
    BY <1>2, <1>g, <1>p DEF CopyCapsule, Importing
<1>3. CASE VerifyCapsule
  <2>1. CASE CleanUp
    BY <1>3, <2>1, <1>g, <1>p DEF VerifyCapsule, CleanUp
  <2>2. CASE op' = [op EXCEPT !.at = "extract", !.verified = op.verify] /\ (op.verify => op.build \in Trusted)
    <3>1. /\ op'.at = "extract" /\ op'.capsule = op.capsule /\ op'.build = op.build
          /\ op'.verified = op.verify
      BY <2>2 DEF TypeOK, OpType
    <3> QED
      BY <1>3, <2>2, <3>1 DEF VerifyCapsule, Importing, Removing
  <2> QED
    BY <1>3, <2>1, <2>2 DEF VerifyCapsule
<1>4. CASE ExtractCapsule
    BY <1>4, <1>g, <1>p DEF ExtractCapsule, CleanUp, Importing
<1>5. CASE SwapTree
    BY <1>5, <1>g, <1>p DEF SwapTree, CleanUp, Importing
<1>6. CASE RegisterArtifact
  <2>1. Go("reload") \/ Go("failed")
    BY <1>6 DEF RegisterArtifact, CleanUp
  <2>2. /\ op'.at \in {"reload", "failed"} /\ op'.capsule = op.capsule
        /\ op'.build = op.build /\ op'.verified = op.verified
    BY <2>1, <1>p, GoTyped DEF TypeOK
  <2>3. op.at \in Importing
    BY <1>6 DEF RegisterArtifact, Importing
  <2> QED
    BY <2>2, <2>3, <1>p
<1>13. CASE ReadGeneration
    BY <1>13, <1>g, <1>p DEF ReadGeneration, CleanUp, Importing
<1>7. ASSUME NEW a \in Artifacts, BeginRemove(a) PROVE OpInv'
  <2>1. /\ op'.at = "unlink" /\ op'.artifact = a /\ op'.capsule = registry[a].capsule
        /\ op'.build = None /\ op'.verified = FALSE
    BY <1>7 DEF BeginRemove, Idle
  <2>2. registry[a].capsule \in Capsules
    BY <1>7 DEF BeginRemove, Installed, TypeOK, Entry
  <2> QED
    BY <1>7, <2>1, <2>2, GuardsStand DEF BeginRemove, Importing
<1>8. CASE RemoveFile
    BY <1>8, <1>g, <1>p DEF RemoveFile, Removing
<1>9. CASE RemoveTree
    BY <1>9, <1>g, <1>p DEF RemoveTree, Removing
<1>10. CASE RemoveEntry
  <2>1. Go("done") \/ Go("failed")
    BY <1>10 DEF RemoveEntry
  <2>2. /\ op'.at \in {"done", "failed"}
        /\ op'.build = op.build /\ op'.verified = op.verified
    BY <2>1, <1>p, GoTyped DEF TypeOK
  <2> QED
    BY <2>2, <1>p
<1>11. CASE Reply \/ KillAgent
    BY <1>11, <1>i DEF Reply, KillAgent
<1>12. CASE UNCHANGED <<op, registry>>
    BY <1>12, GuardsStand
<1> QED
    BY <1>1, <1>2, <1>3, <1>4, <1>5, <1>6, <1>7, <1>8, <1>9, <1>10, <1>11, <1>12, <1>13
       DEF Next, CreateInstance, RefreshHost, vars

-----------------------------------------------------------------------------
(* The registry.                                                           *)

\* Only two steps touch the registry, and both count.
LEMMA RegistrySteps ==
    ASSUME TypeOK, OpInv, [Next]_vars
    PROVE  \/ UNCHANGED <<registry, generation>>
           \/ /\ op.at = "register" /\ DependenciesMet(Descriptor[op.build])
              /\ generation' = generation + 1
              /\ registry' = [registry EXCEPT ![Descriptor[op.build].artifact] =
                    [build |-> op.build, capsule |-> op.capsule, verified |-> op.verified]]
           \/ /\ op.at = "delist"
              /\ generation' = generation + 1
              /\ registry' = [registry EXCEPT ![op.artifact] = None]
BY DEF Next, vars, disk, BeginImport, CopyCapsule, VerifyCapsule, ExtractCapsule, SwapTree,
       RegisterArtifact, ReadGeneration, BeginRemove, RemoveFile, RemoveTree, RemoveEntry, Reply,
       KillAgent, CreateInstance, RefreshHost

\* A removed artifact is missed by no other: presence, version, capability.
LEMMA RemovalHarmless ==
    ASSUME TypeOK, OpInv, op.at = "delist", registry' = [registry EXCEPT ![op.artifact] = None],
           NEW o \in Installed \ {op.artifact}
    PROVE  /\ Desc(o)' = Desc(o)
           /\ Installed' = Installed \ {op.artifact}
           /\ \A r \in Desc(o).requires : r.artifact # op.artifact
           /\ DependenciesMet(Desc(o)) => DependenciesMet(Desc(o))'
<1> DEFINE x == op.artifact
<1>1. x \in Installed /\ RemovalAllowed(x)
    BY DEF OpInv, RemovalInv, Removing
<1>2. Installed' = Installed \ {x}
    BY DEF Installed, TypeOK
<1>3. \A a \in Installed \ {x} : Desc(a)' = Desc(a)
    BY DEF Installed, TypeOK, Desc
<1>4. \A r \in Desc(o).requires : r.artifact # x
    BY <1>1 DEF RemovalAllowed, RequiredDependents
<1>5. \A k \in Desc(o).uses :
         (\E a \in Installed : k \in Desc(a).provides)
            => \E a \in Installed \ {x} : k \in Desc(a).provides
    BY <1>1 DEF RemovalAllowed, CapabilityDependents, OnlyProvidedBy
<1>6. DependenciesMet(Desc(o)) => DependenciesMet(Desc(o))'
  <2> SUFFICES ASSUME DependenciesMet(Desc(o)) PROVE DependenciesMet(Desc(o))'
    OBVIOUS
  <2>1. Desc(o)' = Desc(o)
    BY <1>3
  <2>2. \A r \in Desc(o).requires : r.artifact \in Installed' /\ Desc(r.artifact)' = Desc(r.artifact)
    BY <1>2, <1>3, <1>4 DEF DependenciesMet
  <2>3. \A k \in Desc(o).uses : \E a \in Installed' : k \in Desc(a)'.provides
    BY <1>2, <1>3, <1>5 DEF DependenciesMet
  <2> QED
    BY <2>1, <2>2, <2>3 DEF DependenciesMet
<1> QED
    BY <1>2, <1>3, <1>4, <1>6

\* An entry was registered from what its capsule id supplied, and describes itself.
EntryInv ==
    \A a \in Installed :
        /\ Desc(a).artifact = a
        /\ <<registry[a].capsule, registry[a].build>> \in Supply
        /\ registry[a].verified => registry[a].build \in Trusted
HostInv == host.generation <= generation /\ HostCandidatesFresh
RegistryInv == EntryInv /\ DependenciesInstalled /\ HostInv

\* The empty registry.
LEMMA InitRegistry == Init => RegistryInv
BY DEF Init, RegistryInv, EntryInv, DependenciesInstalled, HostInv, HostCandidatesFresh,
       Candidates, Available, Installed

\* Every step keeps the registry invariant.
LEMMA NextRegistry == TypeOK /\ OpInv /\ RegistryInv /\ [Next]_vars => RegistryInv'
<1> SUFFICES ASSUME TypeOK, OpInv, RegistryInv, [Next]_vars PROVE RegistryInv'
    OBVIOUS
<1>1. CASE UNCHANGED <<registry, generation>>
  <2>1. EntryInv' /\ DependenciesInstalled'
    BY <1>1 DEF RegistryInv, EntryInv, DependenciesInstalled, Installed, Desc
  <2>2. Candidates' = Candidates
    BY <1>1 DEF Candidates, Available, Installed, Desc
  <2>3. \/ UNCHANGED host
        \/ host'.generation = generation /\ host'.candidates = Candidates
    <3>1. UNCHANGED host \/ RefreshHost
      BY DEF Next, vars, BeginImport, CopyCapsule, VerifyCapsule, ExtractCapsule, SwapTree,
             RegisterArtifact, ReadGeneration, BeginRemove, RemoveFile, RemoveTree, RemoveEntry, Reply,
             KillAgent, CreateInstance
    <3>2. RefreshHost => host'.generation = generation /\ host'.candidates = Candidates
      BY DEF RefreshHost
    <3> QED
      BY <3>1, <3>2
  <2>4. HostInv'
    BY <1>1, <2>2, <2>3 DEF RegistryInv, HostInv, HostCandidatesFresh, TypeOK
  <2> QED
    BY <2>1, <2>4 DEF RegistryInv
<1>h. ASSUME op.at \in {"register", "delist"}, generation' = generation + 1 PROVE HostInv'
  <2>1. UNCHANGED host
    BY <1>h DEF Next, vars, disk, BeginImport, CopyCapsule, VerifyCapsule, ExtractCapsule,
           SwapTree, RegisterArtifact, ReadGeneration, BeginRemove, RemoveFile, RemoveTree, RemoveEntry,
           Reply, KillAgent, CreateInstance, RefreshHost, Ends
  <2>2. host'.generation < generation'
    BY <1>h, <2>1 DEF RegistryInv, HostInv, TypeOK
  <2> QED
    BY <2>2, <1>h, <2>1 DEF HostInv, HostCandidatesFresh, RegistryInv, TypeOK
<1>2. ASSUME op.at = "register", DependenciesMet(Descriptor[op.build]),
             generation' = generation + 1,
             registry' = [registry EXCEPT ![Descriptor[op.build].artifact] =
                [build |-> op.build, capsule |-> op.capsule, verified |-> op.verified]]
      PROVE  RegistryInv'
  <2> DEFINE d == Descriptor[op.build]
             x == d.artifact
             e == [build |-> op.build, capsule |-> op.capsule, verified |-> op.verified]
  <2>1. /\ op.build \in Builds /\ d \in DescriptorType /\ x \in Artifacts
        /\ <<op.capsule, op.build>> \in Supply
        /\ op.verified => op.build \in Trusted
    BY <1>2 DEF OpInv, OpTargets, ImportInv, Importing, DescriptorType
  <2>2. registry'[x] = e /\ \A a \in Artifacts \ {x} : registry'[a] = registry[a]
    BY <1>2, <2>1 DEF TypeOK
  <2>3. e # None
    <3>1. e \in Entry
      BY <1>2, <2>1 DEF TypeOK, OpType, Entry, OpInv, OpTargets, Importing
    <3> QED
      BY <3>1
  <2>4. Installed' = Installed \cup {x}
    BY <2>1, <2>2, <2>3 DEF Installed
  <2>5. EntryInv'
    BY <2>1, <2>2, <2>4 DEF RegistryInv, EntryInv, Desc, Installed
  <2>6. DependenciesInstalled'
    <3>1. \A r \in d.requires : r.artifact \in Installed
      BY <1>2 DEF DependenciesMet
    <3>2. registry'[x].build = op.build
      BY <2>2
    <3>3. \A a \in Installed' : a = x => Desc(a)' = d
      BY <3>2 DEF Desc
    <3>4. \A a \in Installed \ {x} : Desc(a)' = Desc(a)
      BY <2>2 DEF Desc, Installed
    <3>5. SUFFICES ASSUME NEW a \in Installed', NEW r \in Desc(a)'.requires
                   PROVE  r.artifact \in Installed'
      BY DEF DependenciesInstalled
    <3>6. CASE a = x
      BY <3>6, <3>1, <3>3, <2>4
    <3>7. CASE a # x
      BY <3>7, <3>4, <2>4 DEF RegistryInv, DependenciesInstalled
    <3> QED
      BY <3>6, <3>7
  <2> QED
    BY <1>2, <1>h, <2>5, <2>6 DEF RegistryInv
<1>3. ASSUME op.at = "delist", generation' = generation + 1,
             registry' = [registry EXCEPT ![op.artifact] = None]
      PROVE  RegistryInv'
  <2>1. Installed' = Installed \ {op.artifact}
    BY <1>3 DEF Installed, TypeOK
  <2>2. \A a \in Installed' : registry'[a] = registry[a]
    BY <1>3, <2>1 DEF Installed, TypeOK
  <2>3. EntryInv'
    BY <2>1, <2>2 DEF RegistryInv, EntryInv, Desc
  <2>4. DependenciesInstalled'
    BY <1>3, <2>1, RemovalHarmless DEF RegistryInv, DependenciesInstalled
  <2> QED
    BY <1>3, <1>h, <2>3, <2>4 DEF RegistryInv
<1> QED
    BY <1>1, <1>2, <1>3, RegistrySteps

-----------------------------------------------------------------------------
(* Theorems on types, the registry and the composition host.               *)

\* Every variable keeps its type, through every import, removal and kill.
THEOREM TypeCorrect == Spec => []TypeOK
<1>1. Init => TypeOK /\ OpInv
    BY InitTypes, InitOp
<1>2. TypeOK /\ OpInv /\ [Next]_vars => TypeOK' /\ OpInv'
    BY NextTypes, NextOp DEF OpInv
<1> QED
    BY <1>1, <1>2, PTL DEF Spec

\* The strengthening of the theorems below.
THEOREM RegistryCorrect == Spec => [](TypeOK /\ OpInv /\ RegistryInv)
<1>1. Init => TypeOK /\ OpInv /\ RegistryInv
    BY InitTypes, InitOp, InitRegistry
<1>2. TypeOK /\ OpInv /\ RegistryInv /\ [Next]_vars => (TypeOK /\ OpInv /\ RegistryInv)'
    BY NextTypes, NextOp, NextRegistry DEF OpInv
<1> QED
    BY <1>1, <1>2, PTL DEF Spec

\* What an installed artifact requires is installed, always.
THEOREM DependenciesStay == Spec => []DependenciesInstalled
<1>1. RegistryInv => DependenciesInstalled
    BY DEF RegistryInv
<1> QED
    BY <1>1, RegistryCorrect, PTL

\* A composition host whose generation is current has the current candidates.
THEOREM HostStaysFresh == Spec => []HostCandidatesFresh
<1>1. RegistryInv => HostCandidatesFresh
    BY DEF RegistryInv, HostInv
<1> QED
    BY <1>1, RegistryCorrect, PTL

\* A removal breaks no dependency that was met.
THEOREM RemovalSafe == Spec => RemovalKeepsDependencies
<1>1. ASSUME TypeOK, OpInv, [Next]_vars, NEW o \in Artifacts,
             op.at = "delist", o \in Installed, o # op.artifact, DependenciesMet(Desc(o))
      PROVE  DependenciesMet(Desc(o))'
  <2>1. CASE UNCHANGED registry
    BY <1>1, <2>1 DEF DependenciesMet, Desc, Installed
  <2>2. CASE registry' = [registry EXCEPT ![op.artifact] = None]
    BY <1>1, <2>2, RemovalHarmless
  <2> QED
    BY <1>1, <2>1, <2>2, RegistrySteps
<1>2. TypeOK /\ OpInv /\ [Next]_vars =>
        [\A o \in Artifacts :
            op.at = "delist" /\ o \in Installed /\ o # op.artifact /\ DependenciesMet(Desc(o))
               => DependenciesMet(Desc(o))']_vars
    BY <1>1
<1> QED
    BY <1>2, RegistryCorrect, PTL DEF Spec, RemovalKeepsDependencies

-----------------------------------------------------------------------------
(* The files.                                                              *)

\* What an import may find and leave at its capsule file.
FileInv ==
    /\ FailedImportKeepsFile
    /\ op.at = "copy" => file[op.capsule] = op.before
    /\ op.at \in {"verify", "extract", "swap", "register", "reload"} =>
          /\ file[op.capsule] = op.build
          /\ ~op.overwrite => op.before = None
    /\ op.at \in {"register", "reload"} => tree[op.capsule] = op.build

\* No files at first.
LEMMA InitFile == Init => FileInv
BY DEF Init, FileInv, FailedImportKeepsFile, Idle

\* Removing the temporary files keeps the file invariant.
LEMMA CleanUpFile ==
    ASSUME TypeOK, OpInv, op.at \in {"verify", "extract", "swap", "register", "reload"},
           FileInv, CleanUp
    PROVE  FileInv'
<1>1. /\ op'.at = "failed" /\ op'.capsule = op.capsule /\ op'.before = op.before
      /\ op'.overwrite = op.overwrite
    BY GoTyped DEF CleanUp, TypeOK, Places, Ends
<1>2. ~op.overwrite => file'[op.capsule] = None
    BY DEF CleanUp, TypeOK, OpInv, OpTargets, Importing
<1> QED
    BY <1>1, <1>2 DEF FileInv, FailedImportKeepsFile

\* Every step keeps the file invariant.
LEMMA NextFile == TypeOK /\ OpInv /\ FileInv /\ [Next]_vars => FileInv'
<1> SUFFICES ASSUME TypeOK, OpInv, FileInv, [Next]_vars PROVE FileInv'
    OBVIOUS
<1>p. {"verify", "extract", "swap", "register", "reload", "rmtree", "delist", "done", "failed"} \subseteq Places
    BY DEF Places, Steps, Ends
<1>1. ASSUME NEW c \in Capsules, NEW b \in Builds, NEW v \in BOOLEAN, NEW o \in BOOLEAN,
             BeginImport(c, b, v, o)
      PROVE FileInv'
  <2>1. op'.at = "copy" /\ op'.capsule = c /\ op'.before = file[c]
    BY <1>1 DEF BeginImport, Idle
  <2> QED
    BY <1>1, <2>1 DEF BeginImport, disk, FileInv, FailedImportKeepsFile
<1>2. CASE CopyCapsule
  <2>1. ASSUME Go("failed"), UNCHANGED file PROVE FileInv'
    <3>1. /\ op'.at = "failed" /\ op'.capsule = op.capsule /\ op'.before = op.before
      BY <2>1, <1>p, GoTyped DEF TypeOK
    <3> QED
      BY <1>2, <2>1, <3>1 DEF CopyCapsule, FileInv, FailedImportKeepsFile
  <2>2. ASSUME file[op.capsule] = None \/ op.overwrite, Go("verify"),
               file' = [file EXCEPT ![op.capsule] = op.build]
        PROVE FileInv'
    <3>1. /\ op'.at = "verify" /\ op'.capsule = op.capsule /\ op'.before = op.before
          /\ op'.build = op.build /\ op'.overwrite = op.overwrite
      BY <2>2, <1>p, GoTyped DEF TypeOK
    <3>2. file'[op.capsule] = op.build
      BY <1>2, <2>2 DEF CopyCapsule, TypeOK, OpInv, OpTargets, Importing
    <3> QED
      BY <1>2, <2>2, <3>1, <3>2 DEF CopyCapsule, FileInv, FailedImportKeepsFile
  <2> QED
    BY <1>2, <2>1, <2>2 DEF CopyCapsule
<1>m. ASSUME NEW place \in {"extract", "swap", "register", "reload", "done"},
             op.at \in {"verify", "extract", "swap", "register", "reload"}, UNCHANGED file,
             op'.at = place, op'.capsule = op.capsule, op'.before = op.before,
             op'.build = op.build, op'.overwrite = op.overwrite,
             place \in {"register", "reload"} => tree'[op.capsule] = op.build
      PROVE FileInv'
    BY <1>m DEF FileInv, FailedImportKeepsFile
<1>3. CASE VerifyCapsule
  <2>1. CASE op' = [op EXCEPT !.at = "extract", !.verified = op.verify] /\ UNCHANGED file
    <3>1. /\ op'.at = "extract" /\ op'.capsule = op.capsule /\ op'.before = op.before
          /\ op'.build = op.build /\ op'.overwrite = op.overwrite
      BY <2>1 DEF TypeOK, OpType
    <3> QED
      BY <1>3, <2>1, <3>1, <1>m DEF VerifyCapsule
  <2> QED
    BY <1>3, <2>1, CleanUpFile DEF VerifyCapsule
<1>4. CASE ExtractCapsule
  <2>1. CASE Go("swap") /\ UNCHANGED file
    <3>1. /\ op'.at = "swap" /\ op'.capsule = op.capsule /\ op'.before = op.before
          /\ op'.build = op.build /\ op'.overwrite = op.overwrite
      BY <2>1, <1>p, GoTyped DEF TypeOK
    <3> QED
      BY <1>4, <2>1, <3>1, <1>m DEF ExtractCapsule
  <2> QED
    BY <1>4, <2>1, CleanUpFile DEF ExtractCapsule
<1>5. CASE SwapTree
  <2>1. CASE tree' = [tree EXCEPT ![op.capsule] = op.build] /\ Go("register") /\ UNCHANGED file
    <3>1. /\ op'.at = "register" /\ op'.capsule = op.capsule /\ op'.before = op.before
          /\ op'.build = op.build /\ op'.overwrite = op.overwrite
      BY <2>1, <1>p, GoTyped DEF TypeOK
    <3>2. tree'[op.capsule] = op.build
      BY <1>5, <2>1 DEF SwapTree, TypeOK, OpInv, OpTargets, Importing
    <3> QED
      BY <1>5, <2>1, <3>1, <3>2, <1>m DEF SwapTree
  <2> QED
    BY <1>5, <2>1, CleanUpFile DEF SwapTree
<1>6. CASE RegisterArtifact
  <2>1. CASE Go("reload") /\ UNCHANGED file
    <3>1. /\ op'.at = "reload" /\ op'.capsule = op.capsule /\ op'.before = op.before
          /\ op'.build = op.build /\ op'.overwrite = op.overwrite
      BY <2>1, <1>p, GoTyped DEF TypeOK
    <3>2. tree'[op.capsule] = op.build
      BY <1>6 DEF RegisterArtifact, FileInv
    <3> QED
      BY <1>6, <2>1, <3>1, <3>2, <1>m DEF RegisterArtifact
  <2> QED
    BY <1>6, <2>1, CleanUpFile DEF RegisterArtifact
<1>11. CASE ReadGeneration
  <2>1. CASE Go("done") /\ UNCHANGED file
    <3>1. /\ op'.at = "done" /\ op'.capsule = op.capsule /\ op'.before = op.before
          /\ op'.build = op.build /\ op'.overwrite = op.overwrite
      BY <2>1, <1>p, GoTyped DEF TypeOK
    <3> QED
      BY <1>11, <2>1, <3>1, <1>m DEF ReadGeneration
  <2> QED
    BY <1>11, <2>1, CleanUpFile DEF ReadGeneration
<1>7. ASSUME NEW a \in Artifacts, BeginRemove(a) PROVE FileInv'
  <2>1. op'.at = "unlink"
    BY <1>7 DEF BeginRemove, Idle
  <2> QED
    BY <2>1 DEF FileInv, FailedImportKeepsFile
<1>8. CASE RemoveFile \/ RemoveTree \/ RemoveEntry
  <2>1. op.build = None
    BY <1>8 DEF OpInv, RemovalInv, Removing, RemoveFile, RemoveTree, RemoveEntry
  <2>2. \E place \in {"rmtree", "delist", "done", "failed"} : Go(place)
    BY <1>8 DEF RemoveFile, RemoveTree, RemoveEntry
  <2>3. op'.at \in {"rmtree", "delist", "done", "failed"} /\ op'.build = None
    BY <2>1, <2>2, <1>p, GoTyped DEF TypeOK
  <2> QED
    BY <2>3 DEF FileInv, FailedImportKeepsFile
<1>9. CASE Reply \/ KillAgent
  <2>1. op'.at = "idle"
    BY <1>9 DEF Reply, KillAgent, Idle
  <2> QED
    BY <2>1 DEF FileInv, FailedImportKeepsFile
<1>10. CASE UNCHANGED <<op, disk>>
    BY <1>10 DEF disk, FileInv, FailedImportKeepsFile
<1> QED
    BY <1>1, <1>2, <1>3, <1>4, <1>5, <1>6, <1>7, <1>8, <1>9, <1>10, <1>11
       DEF Next, CreateInstance, RefreshHost, vars, disk

\* A failed import that may not overwrite gives back what it found.
THEOREM FailuresKeepFiles == Spec => []FailedImportKeepsFile
<1>1. Init => TypeOK /\ OpInv /\ FileInv
    BY InitTypes, InitOp, InitFile
<1>2. TypeOK /\ OpInv /\ FileInv /\ [Next]_vars => (TypeOK /\ OpInv /\ FileInv)'
    BY NextTypes, NextOp, NextFile DEF OpInv
<1>3. FileInv => FailedImportKeepsFile
    BY DEF FileInv
<1> QED
    BY <1>1, <1>2, <1>3, PTL DEF Spec

-----------------------------------------------------------------------------
(* Entries and their files, when a capsule id is used for one artifact.    *)

OneArtifact ==
    \A s, t \in Supply : s[1] = t[1] => Descriptor[s[2]].artifact = Descriptor[t[2]].artifact

\* An entry's files are there, or the current handler is about to put them
\* back or to remove the entry.
Backed(c) ==
    c \notin broken =>
        /\ file[c] # None \/ (op.at \in {"rmtree", "delist"} /\ op.capsule = c)
        /\ IF op.at = "swap" /\ op.capsule = c
           THEN aside[c] # None
           ELSE tree[c] # None \/ (op.at = "delist" /\ op.capsule = c)
\* An import that found no file found no intact entry, until it makes one.
FreshInv ==
    op.at \in Importing \ {"reload"} /\ op.before = None
        => \A a \in Installed : registry[a].capsule = op.capsule => op.capsule \in broken
BackInv == FreshInv /\ \A a \in Installed : Backed(registry[a].capsule)

Inv == TypeOK /\ OpInv /\ RegistryInv /\ FileInv

\* Nothing to restore at first.
LEMMA InitBack == Init => BackInv
BY DEF Init, BackInv, FreshInv, Installed, Idle, Importing

\* A handler that ends by cleaning up leaves intact entries intact.
LEMMA CleanUpBack ==
    ASSUME Inv, BackInv, CleanUp, op.at \in {"verify", "extract", "swap", "register"},
           UNCHANGED <<registry, broken>>,
           \/ UNCHANGED tree /\ op.at # "swap"
           \/ tree' = [tree EXCEPT ![op.capsule] = aside[op.capsule]] /\ op.at = "swap"
    PROVE  BackInv'
<1>1. op'.at = "failed" /\ op'.capsule = op.capsule
    BY GoTyped DEF CleanUp, Inv, TypeOK, Places, Ends
<1>2. op.capsule \in Capsules /\ op.at \in Importing /\ op.build \in Builds
    BY DEF Inv, OpInv, OpTargets, Importing
<1>3. ASSUME NEW a \in Installed PROVE Backed(registry[a].capsule)'
  <2> DEFINE c == registry[a].capsule
  <2>1. c \in Capsules /\ c' = c /\ Backed(c)
    BY <1>3 DEF Inv, TypeOK, Installed, Entry, BackInv
  <2>2. c \notin broken => file'[c] # None
    <3>1. CASE c = op.capsule
      BY <3>1, <1>2 DEF BackInv, FreshInv, Inv, FileInv, CleanUp, TypeOK
    <3>2. CASE c # op.capsule
      BY <3>2, <2>1, <1>2 DEF Backed, CleanUp, Inv, TypeOK
    <3> QED
      BY <3>1, <3>2
  <2>3. c \notin broken => tree'[c] # None
    BY <2>1, <1>2 DEF Backed, Inv, TypeOK
  <2> HIDE DEF c
  <2>4. c \notin broken' => file'[c'] # None /\ tree'[c'] # None
    BY <2>1, <2>2, <2>3
  <2> QED
    BY <1>1, <2>1, <2>4 DEF Backed, c
<1>4. Installed' = Installed
    BY DEF Installed
<1> QED
    BY <1>1, <1>3, <1>4 DEF BackInv, FreshInv, Importing

\* The files that a removal takes are of the entry that it removes only.
LEMMA RemovesOwn ==
    ASSUME OneArtifact, OpInv, RegistryInv, op.at \in Removing
    PROVE  op.capsule \in Capsules /\ \A o \in Installed : registry[o].capsule = op.capsule => o = op.artifact
<1>1. /\ op.artifact \in Installed /\ registry[op.artifact].capsule = op.capsule
      /\ op.capsule \in Capsules
    BY DEF OpInv, OpTargets, RemovalInv
<1>2. ASSUME NEW o \in Installed, registry[o].capsule = op.capsule PROVE o = op.artifact
  <2> DEFINE s == <<registry[o].capsule, registry[o].build>>
             t == <<registry[op.artifact].capsule, registry[op.artifact].build>>
  <2>1. s \in Supply /\ t \in Supply /\ s[1] = t[1]
    BY <1>1, <1>2 DEF RegistryInv, EntryInv
  <2>2. Descriptor[s[2]].artifact = Descriptor[t[2]].artifact
    BY <2>1 DEF OneArtifact
  <2>3. Desc(o).artifact = o /\ Desc(op.artifact).artifact = op.artifact
    BY <1>1, <1>2 DEF RegistryInv, EntryInv
  <2> QED
    BY <2>2, <2>3 DEF Desc
<1> QED
    BY <1>1, <1>2

\* "remove Orgo -> Konnaxion unaffected" (DOC-23:364) holds if a capsule id is
\* used for one artifact: a removal deletes no other entry's files, whatever
\* failed imports and interrupted removals went before.
THEOREM RemovalSparesOthersIfOne == ASSUME OneArtifact PROVE Spec => []RemovalSparesOthers
<1>1. OpInv /\ RegistryInv => RemovalSparesOthers
    BY RemovesOwn DEF RemovalSparesOthers, Removing
<1> QED
    BY <1>1, RegistryCorrect, PTL

\* Every step keeps what a rollback of a failed import needs.
LEMMA NextBack ==
    ASSUME OneArtifact, Inv, BackInv, [Next]_vars
    PROVE  BackInv'
<1>p. {"verify", "extract", "swap", "register", "reload", "rmtree", "delist", "done", "failed"} \subseteq Places
    BY DEF Places, Steps, Ends
<1>c. \A a \in Installed : registry[a].capsule \in Capsules /\ Backed(registry[a].capsule)
    BY DEF Inv, TypeOK, Installed, Entry, BackInv
<1>s. UNCHANGED registry => Installed' = Installed
    BY DEF Installed
<1>1. ASSUME NEW c \in Capsules, NEW b \in Builds, NEW v \in BOOLEAN, NEW o \in BOOLEAN,
             BeginImport(c, b, v, o)
      PROVE BackInv'
  <2>1. op'.at = "copy" /\ op'.capsule = c /\ op'.before = file[c] /\ op.at = "idle"
    BY <1>1 DEF BeginImport, Idle
  <2>2. UNCHANGED <<file, tree, aside, registry, broken>>
    BY <1>1 DEF BeginImport, disk
  <2>3. FreshInv'
    BY <2>1, <2>2, <1>c, <1>s DEF FreshInv, Backed
  <2> QED
    BY <2>1, <2>2, <2>3, <1>c, <1>s DEF BackInv, Backed
<1>2. CASE CopyCapsule
  <2>1. /\ op.capsule \in Capsules /\ op.build \in Builds /\ op.at = "copy"
    BY <1>2 DEF CopyCapsule, Inv, OpInv, OpTargets, Importing
  <2>2. /\ op'.at \in {"verify", "failed"} /\ op'.capsule = op.capsule /\ op'.before = op.before
    BY <1>2, <1>p, GoTyped DEF CopyCapsule, Inv, TypeOK
  <2>3. UNCHANGED <<tree, aside, registry, broken>>
    BY <1>2 DEF CopyCapsule
  <2>4. \A c \in Capsules : file[c] # None => file'[c] # None
    BY <1>2, <2>1 DEF CopyCapsule, Inv, TypeOK
  <2>5. FreshInv'
    BY <2>1, <2>2, <2>3, <1>s DEF FreshInv, BackInv, Importing
  <2> QED
    BY <2>1, <2>2, <2>3, <2>4, <2>5, <1>c, <1>s DEF BackInv, Backed
<1>3. CASE VerifyCapsule
  <2>1. CASE op' = [op EXCEPT !.at = "extract", !.verified = op.verify] /\ UNCHANGED file
    <3>1. op'.at = "extract" /\ op'.capsule = op.capsule /\ op'.before = op.before /\ op.at = "verify"
      BY <1>3, <2>1 DEF VerifyCapsule, Inv, TypeOK, OpType
    <3>2. UNCHANGED <<file, tree, aside, registry, broken>>
      BY <1>3, <2>1 DEF VerifyCapsule
    <3>3. FreshInv'
      BY <3>1, <3>2, <1>s DEF FreshInv, BackInv, Importing
    <3> QED
      BY <3>1, <3>2, <3>3, <1>c, <1>s DEF BackInv, Backed
  <2> QED
    BY <1>3, <2>1, CleanUpBack DEF VerifyCapsule
<1>4. CASE ExtractCapsule
  <2>1. CASE /\ aside' = [aside EXCEPT ![op.capsule] = tree[op.capsule]]
             /\ tree' = [tree EXCEPT ![op.capsule] = None]
             /\ Go("swap") /\ UNCHANGED file
    <3>1. op'.at = "swap" /\ op'.capsule = op.capsule /\ op'.before = op.before
      BY <2>1, <1>p, GoTyped DEF Inv, TypeOK
    <3>2. UNCHANGED <<file, registry, broken>> /\ op.at = "extract"
      BY <1>4, <2>1 DEF ExtractCapsule
    <3>3. op.capsule \in Capsules
      BY <3>2 DEF Inv, OpInv, OpTargets, Importing
    <3>4. FreshInv'
      BY <3>1, <3>2, <1>s DEF FreshInv, BackInv, Importing
    <3>5. \A c \in Capsules : IF c = op.capsule THEN aside'[c] = tree[c] ELSE tree'[c] = tree[c]
      BY <2>1, <3>3 DEF Inv, TypeOK
    <3> QED
      BY <3>1, <3>2, <3>4, <3>5, <1>c, <1>s DEF BackInv, Backed
  <2> QED
    BY <1>4, <2>1, CleanUpBack DEF ExtractCapsule
<1>5. CASE SwapTree
  <2>1. CASE tree' = [tree EXCEPT ![op.capsule] = op.build] /\ Go("register") /\ UNCHANGED file
    <3>1. op'.at = "register" /\ op'.capsule = op.capsule /\ op'.before = op.before
      BY <2>1, <1>p, GoTyped DEF Inv, TypeOK
    <3>2. UNCHANGED <<file, registry, broken>> /\ op.at = "swap"
      BY <1>5, <2>1 DEF SwapTree
    <3>3. op.capsule \in Capsules /\ op.build \in Builds
      BY <3>2 DEF Inv, OpInv, OpTargets, Importing
    <3>4. FreshInv'
      BY <3>1, <3>2, <1>s DEF FreshInv, BackInv, Importing
    <3>5. \A c \in Capsules : IF c = op.capsule THEN tree'[c] # None ELSE tree'[c] = tree[c]
      BY <2>1, <3>3 DEF Inv, TypeOK
    <3> QED
      BY <3>1, <3>2, <3>4, <3>5, <1>c, <1>s DEF BackInv, Backed
  <2> QED
    BY <1>5, <2>1, CleanUpBack DEF SwapTree
<1>6. CASE RegisterArtifact
  <2>1. ASSUME registry' = [registry EXCEPT ![Descriptor[op.build].artifact] =
                    [build |-> op.build, capsule |-> op.capsule, verified |-> op.verified]],
               broken' = broken \ {op.capsule}, Go("reload"), UNCHANGED file
        PROVE BackInv'
    <3>1. op'.at = "reload"
      BY <2>1, <1>p, GoTyped DEF Inv, TypeOK
    <3>2. UNCHANGED <<file, tree, aside>> /\ op.at = "register"
      BY <1>6, <2>1 DEF RegisterArtifact
    <3>3. op.capsule \in Capsules /\ op.build \in Builds
      BY <3>2 DEF Inv, OpInv, OpTargets, Importing
    <3>4. file[op.capsule] # None /\ tree[op.capsule] # None
      BY <3>2, <3>3 DEF Inv, FileInv
    <3>5. ASSUME NEW a \in Installed'
          PROVE  registry'[a].capsule = op.capsule \/ (a \in Installed /\ registry'[a] = registry[a])
      BY <2>1, <3>3 DEF Inv, TypeOK, Installed
    <3>6. FreshInv'
      BY <3>1 DEF FreshInv, Importing
    <3> QED
      BY <2>1, <3>1, <3>2, <3>4, <3>5, <3>6, <1>c DEF BackInv, Backed
  <2>2. CASE CleanUp /\ UNCHANGED <<registry, broken, tree>>
    BY <1>6, <2>2, CleanUpBack DEF RegisterArtifact
  <2> QED
    BY <1>6, <2>1, <2>2 DEF RegisterArtifact
<1>14. CASE ReadGeneration
  <2>1. op'.at \in {"done", "failed"} /\ op'.capsule = op.capsule
    BY <1>14, <1>p, GoTyped DEF ReadGeneration, CleanUp, Inv, TypeOK
  <2>2. UNCHANGED <<tree, aside, registry>> /\ op.at = "reload" /\ op.capsule \in Capsules
    BY <1>14 DEF ReadGeneration, Inv, OpInv, OpTargets, Importing
  <2>3. /\ broken \subseteq broken'
        /\ \A c \in Capsules : file'[c] = file[c] \/ (c = op.capsule /\ c \in broken')
    BY <1>14, <2>2 DEF ReadGeneration, CleanUp, Inv, TypeOK
  <2> QED
    BY <2>1, <2>2, <2>3, <1>c, <1>s DEF BackInv, FreshInv, Importing, Backed
<1>7. ASSUME NEW a \in Artifacts, BeginRemove(a) PROVE BackInv'
  <2>1. op'.at = "unlink" /\ op.at = "idle"
    BY <1>7 DEF BeginRemove, Idle
  <2>2. UNCHANGED <<file, tree, aside, registry, broken>>
    BY <1>7 DEF BeginRemove, disk
  <2> QED
    BY <2>1, <2>2, <1>c, <1>s DEF BackInv, FreshInv, Importing, Backed
<1>r. ASSUME op.at \in Removing
      PROVE  op.capsule \in Capsules /\ \A o \in Installed : registry[o].capsule = op.capsule => o = op.artifact
    BY <1>r, RemovesOwn DEF Inv
<1>8. CASE RemoveFile
  <2>1. op'.at \in {"rmtree", "failed"} /\ op'.capsule = op.capsule
    BY <1>8, <1>p, GoTyped DEF RemoveFile, Inv, TypeOK
  <2>2. UNCHANGED <<tree, aside, registry, broken>> /\ op.at = "unlink" /\ op.capsule \in Capsules
    BY <1>8, <1>r DEF RemoveFile, Removing
  <2>3. \A c \in Capsules : file'[c] = file[c] \/ (c = op.capsule /\ op'.at = "rmtree")
    BY <1>8, <2>2, <1>p, GoTyped DEF RemoveFile, Inv, TypeOK
  <2> QED
    BY <2>1, <2>2, <2>3, <1>c, <1>s DEF BackInv, FreshInv, Importing, Backed
<1>9. CASE RemoveTree
  <2>1. op'.at \in {"delist", "failed"} /\ op'.capsule = op.capsule
    BY <1>9, <1>p, GoTyped DEF RemoveTree, Inv, TypeOK
  <2>2. UNCHANGED <<file, aside, registry>> /\ op.at = "rmtree" /\ op.capsule \in Capsules
    BY <1>9, <1>r DEF RemoveTree, Removing
  <2>3. \A c \in Capsules : c # op.capsule => tree'[c] = tree[c]
    BY <1>9, <2>2 DEF RemoveTree, Inv, TypeOK
  <2>4. broken \subseteq broken' /\ (op'.at = "failed" => op.capsule \in broken')
    BY <1>9, <1>p, GoTyped DEF RemoveTree, Inv, TypeOK
  <2> QED
    BY <2>1, <2>2, <2>3, <2>4, <1>c, <1>s DEF BackInv, FreshInv, Importing, Backed
<1>10. CASE RemoveEntry
  <2>1. op'.at \in {"done", "failed"}
    BY <1>10, <1>p, GoTyped DEF RemoveEntry, Inv, TypeOK
  <2>2. UNCHANGED <<file, tree, aside>> /\ op.at = "delist" /\ op.at \in Removing
    BY <1>10 DEF RemoveEntry, Removing, disk
  <2>3. \/ broken' = broken \cup {op.capsule} /\ UNCHANGED registry
        \/ broken' = broken /\ registry' = [registry EXCEPT ![op.artifact] = None]
    BY <1>10 DEF RemoveEntry
  <2>4. ASSUME NEW a \in Installed'
        PROVE  /\ a \in Installed /\ registry'[a] = registry[a]
               /\ registry[a].capsule = op.capsule => op.capsule \in broken'
    BY <2>2, <2>3, <1>r DEF Inv, TypeOK, Installed
  <2>5. broken \subseteq broken'
    BY <2>3
  <2> QED
    BY <2>1, <2>2, <2>4, <2>5, <1>c DEF BackInv, FreshInv, Importing, Backed
<1>11. CASE Reply
  <2>1. op'.at = "idle" /\ op.at \in Ends /\ UNCHANGED <<file, tree, aside, registry, broken>>
    BY <1>11 DEF Reply, Idle, disk
  <2> QED
    BY <2>1, <1>c, <1>s DEF BackInv, FreshInv, Importing, Backed, Ends
<1>12. CASE KillAgent
  <2>1. op'.at = "idle" /\ UNCHANGED <<file, tree, aside, registry>>
    BY <1>12 DEF KillAgent, Idle, disk
  <2>2. /\ broken \subseteq broken'
        /\ op.at \in {"swap", "rmtree", "delist"} => op.capsule \in broken'
    BY <1>12 DEF KillAgent
  <2> QED
    BY <2>1, <2>2, <1>c, <1>s DEF BackInv, FreshInv, Importing, Backed
<1>13. CASE UNCHANGED <<op, disk, registry, broken>>
    BY <1>13, <1>s DEF BackInv, FreshInv, Backed, disk
<1> QED
    BY <1>1, <1>2, <1>3, <1>4, <1>5, <1>6, <1>7, <1>8, <1>9, <1>10, <1>11, <1>12, <1>13, <1>14
       DEF Next, CreateInstance, RefreshHost, vars, disk

\* If a capsule id is used for one artifact, every installed artifact has its
\* files between handlers, unless an interruption took them.
THEOREM EntriesBacked == ASSUME OneArtifact PROVE Spec => []EntriesHaveFiles
<1>1. Init => Inv /\ BackInv
    BY InitTypes, InitOp, InitRegistry, InitFile, InitBack DEF Inv
<1>2. Inv /\ BackInv /\ [Next]_vars => (Inv /\ BackInv)'
    BY NextTypes, NextOp, NextRegistry, NextFile, NextBack DEF Inv, OpInv
<1>3. BackInv => EntriesHaveFiles
    BY DEF BackInv, Backed, EntriesHaveFiles, Quiet, Ends
<1> QED
    BY <1>1, <1>2, <1>3, PTL DEF Spec
=============================================================================
