----------------------------- MODULE Packaging -----------------------------
(***************************************************************************)
(* How a capsule is packed and judged (src/kx_builder/package.py,          *)
(* verify.py, signature.py; src/kx_agent/capsules/verifier.py).            *)
(*                                                                         *)
(* A build stages a directory, or takes a prepared one as it is, writes    *)
(* images.yaml, checksums.txt and signature.sig into it, validates it,     *)
(* archives it and verifies the archive.  Nothing locks a prepared         *)
(* directory: people edit it, and other builds write into it, between any  *)
(* two of these steps.  The archive is then verified by the Builder (for   *)
(* Build, Verify and Deploy) and by the Agent that imports it, with code   *)
(* of their own.  Archives are as a build wrote them: one that was opened  *)
(* and packed again by hand has whatever content its maker wants.          *)
(*                                                                         *)
(* A file is known by the edit that wrote it; a digest is that edit, so    *)
(* digests do not collide.  Of the files of one kind one stands for all.   *)
(***************************************************************************)
EXTENDS Naturals

CONSTANTS
    Jobs,     \* builds
    Keys,     \* signing keys
    NoKey,    \* the Agent is configured with no public key
    Requests, \* Requests[j]: what build j may be asked for
    Handled,  \* bound: kinds of files that edits write, remove and put back
    MaxEdits  \* bound on edits of the prepared directory

ASSUME KeysAssumption == NoKey \notin Keys
ASSUME BoundsAssumption == MaxEdits \in Nat
Prepared == "prepared"
ASSUME JobsAssumption == Prepared \notin Jobs
BuildRequests == [from : {"source", Prepared}, key : Keys \union {NoKey}, verify : BOOLEAN]
ASSUME RequestsAssumption == \A j \in Jobs : Requests[j] \subseteq BuildRequests

VARIABLES
    dir,     \* dir[d]: the prepared directory, and the staging area of each build
    job,     \* job[j]: what build j was asked for
    stage,   \* stage[j]: its next step, or how it ended
    archive, \* archive[j]: the capsule it wrote
    stable,  \* history: builds with nothing but plain edits since their checksums
    edits    \* used up of MaxEdits

pvars == <<dir, job, stage, archive, stable, edits>>

-----------------------------------------------------------------------------
\* Files by kind: "compose" is the compose file and every other required file
\* that is not named here (profiles, templates, ...), "image" a required image
\* archive and "flower" an optional one, "devpath" lies in a directory only the
\* Agent forbids, "secret" has a name or text that the packager refuses, and
\* "spaced" has a space in its path and no file's name for its last word.
Required == {"manifest", "compose", "image"}
Images == {"image", "flower"}
Files == Required \union Images \union {"devpath", "secret", "spaced"}

\* A file as the n-th edit wrote it; a sound one satisfies kx_shared.validation.
Written(n, sound) == [edit |-> n, sound |-> sound]
Absent == Written(0, FALSE)
Contents == [edit : 0 .. MaxEdits + 1, sound : BOOLEAN]

Has(t, f) == t.files[f] # Absent

\* Directories, compose, manifest, profiles, env templates, policy, images ...
ASSUME HandledAssumption == Handled \subseteq Files

StagedFiles == [f \in Files |-> IF f \in Required THEN Written(1, TRUE) ELSE Absent]

\* images.yaml: digest and size of every exported image archive
ImagesMetadata(files) == [i \in Images |-> files[i]]

\* checksums.txt lists every file that is there, images.yaml among them.
Checksums(t) == [files |-> t.files, meta |-> t.meta]

\* Signed are manifest.yaml and checksums.txt.  An unsigned capsule gets a
\* signature.sig as well, one without a signature in it.
Signature(t, k) == [by |-> k, manifest |-> t.files["manifest"], sums |-> t.sums]

Sealed(k) ==
    LET meta == ImagesMetadata(StagedFiles)
        sums == Checksums([files |-> StagedFiles, meta |-> meta])
    IN [files |-> StagedFiles, meta |-> meta, sums |-> sums,
        sig |-> Signature([files |-> StagedFiles, sums |-> sums], k)]

-----------------------------------------------------------------------------
\* validate_required_layout
Layout(t) == \A f \in Required : Has(t, f)

\* _looks_like_capsule_staging: the required files and directories exist.
LooksLikeStaging(t) == Has(t, "manifest") /\ Has(t, "compose")

\* validate_required_image_archives: every entry of images.yaml names an
\* archive with that digest, and the required archives have entries.
ImagesDeclared(t) ==
    /\ \A i \in Images : t.meta[i] # Absent => t.files[i] = t.meta[i]
    /\ t.meta["image"] # Absent

\* Both scans of the packager
NoSecrets(t) == ~Has(t, "secret")

\* Every file that checksums.txt lists is there and has the digest it says.
DigestsMatch(t) ==
    /\ \A f \in Files : t.sums.files[f] # Absent => t.files[f] = t.sums.files[f]
    /\ t.meta = t.sums.meta

\* The Agent takes the last word of a line for the path, and finds no file there
\* if the path has a space.
PathsMatch(t) == DigestsMatch(t) /\ t.sums.files["spaced"] = Absent

\* The Builder also wants every image archive to be listed.
ImagesListed(t) == \A i \in Images : Has(t, i) => t.sums.files[i] # Absent

\* What both verifiers want at the root; compose stands for the other files.
RootEntries(t) == Has(t, "manifest") /\ Has(t, "compose")

\* An entry of images.yaml: its archive is there, with that digest and size.
EntryHolds(t, i) == t.meta[i] # Absent => t.files[i] = t.meta[i]

\* The required archives are there and every entry holds; an archive without
\* an entry is warned of.
ImagesHold(t) == Has(t, "image") /\ \A i \in Images : EntryHolds(t, i)

\* kx_builder.verify.  A signature is looked for but not verified, with a public
\* key or without.  Its rules on what is in the manifest, the compose file and
\* the templates are fewer than the Agent's and are taken to pass.
BuilderAccepts(t) == RootEntries(t) /\ ImagesHold(t) /\ DigestsMatch(t) /\ ImagesListed(t)

\* The envelope parses and, with a public key, is over these files by that key.
SignatureIsGood(t, k) ==
    /\ t.sig.by # NoKey
    /\ k # NoKey => t.sig = Signature(t, k)

Sound(t) == \A f \in Files : Has(t, f) => t.files[f].sound
NothingForbidden(t) == ~Has(t, "devpath") /\ ~Has(t, "secret")

\* kx_agent.capsules.verifier as the importer calls it, with public key k
AgentAccepts(t, k) ==
    /\ RootEntries(t) /\ Sound(t) /\ NothingForbidden(t)
    /\ PathsMatch(t)
    /\ SignatureIsGood(t, k)

-----------------------------------------------------------------------------
Live == {"stage", "check", "checksums", "sign", "validate", "read", "pack", "verify"}
Finished == {"ok", "refused", "unverified"}
Packed == Finished \union {"verify"}
Sealing == {"sign", "validate", "read", "pack"}

Dir(j) == IF job[j].from = "source" THEN j ELSE Prepared
Tree(j) == dir[Dir(j)]

NoJob == [from |-> "nowhere", key |-> NoKey, verify |-> FALSE]

PInit ==
    /\ \E k \in Keys : dir = [d \in Jobs \union {Prepared} |-> Sealed(k)]
    /\ job = [j \in Jobs |-> NoJob]
    /\ stage = [j \in Jobs |-> "idle"]
    /\ archive = [j \in Jobs |-> dir[Prepared]]
    /\ stable = {}
    /\ edits = 0

\* build_package.  Two builds of the prepared directory work on the same files.
Start(j) ==
    /\ stage[j] = "idle"
    /\ \E r \in Requests[j] :
        /\ r.from = Prepared => LooksLikeStaging(dir[Prepared])
        /\ job' = [job EXCEPT ![j] = r]
        /\ stage' = [stage EXCEPT ![j] = IF r.from = "source" THEN "stage" ELSE "check"]
    /\ UNCHANGED <<dir, archive, stable, edits>>

\* Mutant of Following: the directory is validated before it is sealed.
ValidatedFirst ==
    [stage |-> "validate", check |-> "validate", validate |-> "checksums",
     checksums |-> "sign", sign |-> "read", read |-> "pack"]

\* Mutant of Following: the signature is made of the checksums that were there.
SignedFirst ==
    [stage |-> "sign", check |-> "sign", sign |-> "checksums",
     checksums |-> "validate", validate |-> "read", read |-> "pack"]

\* The order of build_package and package_capsule
Following ==
    [stage |-> "checksums", check |-> "checksums", checksums |-> "sign",
     sign |-> "validate", validate |-> "read", read |-> "pack"]

Step(j, s) ==
    /\ stage[j] = s
    /\ stage' = [stage EXCEPT ![j] = Following[s]]
    /\ UNCHANGED <<job, edits>>

\* Builds that are between their checksums and their archive in directory d
SealingIn(d) == {j \in Jobs : Dir(j) = d /\ stage[j] \in Sealing}

Update(j, t) ==
    /\ dir' = [dir EXCEPT ![Dir(j)] = t]
    /\ UNCHANGED archive
Disturbed(j) == SealingIn(Dir(j)) \ {j}

\* _stage_capsule_from_source, up to checksums.txt
StageFromSource(j) ==
    /\ Step(j, "stage")
    /\ Update(j, [Tree(j) EXCEPT !.files = StagedFiles, !.meta = ImagesMetadata(StagedFiles)])
    /\ stable' = stable \ Disturbed(j)

\* A prepared directory is to have its images as images.yaml says.
CheckImages(j) ==
    /\ ImagesDeclared(Tree(j))
    /\ Step(j, "check")
    /\ UNCHANGED <<dir, archive, stable>>

WriteChecksums(j) ==
    /\ Step(j, "checksums")
    /\ Update(j, [Tree(j) EXCEPT !.sums = Checksums(Tree(j))])
    /\ stable' = (stable \ Disturbed(j)) \union {j}

WriteSignature(j) ==
    /\ Has(Tree(j), "manifest")
    /\ Step(j, "sign")
    /\ Update(j, [Tree(j) EXCEPT !.sig = Signature(Tree(j), job[j].key)])
    /\ stable' = stable \ Disturbed(j)

ValidateStaging(j) ==
    /\ Layout(Tree(j)) /\ ImagesDeclared(Tree(j)) /\ NoSecrets(Tree(j))
    /\ Step(j, "validate")
    /\ UNCHANGED <<dir, archive, stable>>

\* The files are archived in the order of their names: checksums.txt before the
\* others that matter here.
ReadChecksums(j) ==
    /\ Step(j, "read")
    /\ archive' = [archive EXCEPT ![j] = Tree(j)]
    /\ UNCHANGED <<dir, stable>>

\* A build need not ask for verification.
Pack(j) ==
    /\ stage[j] = "pack"
    /\ stage' = [stage EXCEPT ![j] = IF job[j].verify THEN "verify" ELSE "unverified"]
    /\ archive' = [archive EXCEPT ![j] = [Tree(j) EXCEPT !.sums = archive[j].sums]]
    /\ UNCHANGED <<dir, job, stable, edits>>

\* An archive that does not verify stays where it is.
Verify(j) ==
    /\ stage[j] = "verify"
    /\ stage' = [stage EXCEPT ![j] = IF BuilderAccepts(archive[j]) THEN "ok" ELSE "refused"]
    /\ UNCHANGED <<dir, job, archive, stable, edits>>

\* A guard above does not hold, or a file, a docker command or a key fails.
Fails(j) ==
    /\ stage[j] \in Live
    /\ stage' = [stage EXCEPT ![j] = "failed"]
    /\ UNCHANGED <<dir, job, archive, stable, edits>>

-----------------------------------------------------------------------------
\* What a plain edit makes of t: a file is written or removed, or images.yaml is
\* brought up to date.
Edited(t) ==
    {[t EXCEPT !.files[f] = Written(edits + 2, TRUE)] : f \in Handled}
    \union {[t EXCEPT !.files["compose"] = Written(edits + 2, FALSE)]}
    \union {[t EXCEPT !.files[f] = Absent] : f \in Handled}
    \union {[t EXCEPT !.meta = ImagesMetadata(t.files)]}

\* What else may be done by hand: an earlier content is put back, an entry of
\* images.yaml is written, or checksums.txt or signature.sig is made anew.  Of
\* the kinds left out here it only matters whether they are there.
Earlier == {Written(n, TRUE) : n \in 1 .. edits + 1}
PutBack(t) == UNION {{[t EXCEPT !.files[f] = c] : c \in Earlier} :
                         f \in Handled \intersect (Required \union Images)}
Redeclared(t) == UNION {{[t EXCEPT !.meta[i] = c] : c \in Earlier} : i \in Images \intersect Handled}
Resealed(t) ==
    PutBack(t) \union Redeclared(t)
    \union {[t EXCEPT !.sums = Checksums(t)]}
    \union {[t EXCEPT !.sig = Signature(t, k)] : k \in Keys \union {NoKey}}

\* Edits that no build sees any more are left out.
Edit ==
    /\ edits < MaxEdits
    /\ \E j \in Jobs : stage[j] \notin Packed \union {"failed"}
    /\ edits' = edits + 1
    /\ \/ /\ \E t \in Edited(dir[Prepared]) : dir' = [dir EXCEPT ![Prepared] = t]
          /\ UNCHANGED stable
       \/ /\ \E t \in Resealed(dir[Prepared]) : dir' = [dir EXCEPT ![Prepared] = t]
          /\ stable' = stable \ SealingIn(Prepared)
    /\ UNCHANGED <<job, stage, archive>>

Build(j) ==
    \/ Start(j) \/ StageFromSource(j) \/ CheckImages(j) \/ WriteChecksums(j)
    \/ WriteSignature(j) \/ ValidateStaging(j) \/ ReadChecksums(j) \/ Pack(j)
    \/ Verify(j) \/ Fails(j)

PNext == Edit \/ \E j \in Jobs : Build(j)

PSpec == PInit /\ [][PNext]_pvars

-----------------------------------------------------------------------------
Snapshots == [files : [Files -> Contents], meta : [Images -> Contents]]
Signatures == [by : Keys \union {NoKey}, manifest : Contents, sums : Snapshots]
Trees == [files : [Files -> Contents], meta : [Images -> Contents],
          sums : Snapshots, sig : Signatures]

\* The type of the state
PTypeOK ==
    /\ dir \in [Jobs \union {Prepared} -> Trees]
    /\ archive \in [Jobs -> Trees]
    /\ job \in [Jobs -> BuildRequests \union {NoJob}]
    /\ stage \in [Jobs -> Live \union Packed \union {"idle", "failed"}]
    /\ stable \subseteq Jobs
    /\ edits \in 0 .. MaxEdits

\* The Agent does not look into images.yaml.  Still, in a capsule it accepts
\* every image that images.yaml names is as it says, whether or not the Builder's
\* own verification was asked for or passed: whatever was done to the directory
\* before its checksums were written (package.py:2767), and if between then and
\* the archive files were written, removed or swapped in it, too, for validation
\* comes after the checksums (package.py:2776).
AcceptedIsDeclared ==
    \A j \in stable, i \in Images :
        stage[j] \in Packed /\ AgentAccepts(archive[j], NoKey) => EntryHolds(archive[j], i)

\* What the Builder accepts, after the build or later at a Verify or a Deploy,
\* the Agent then refuses on import for known reasons only: it is not signed, or
\* not with the key the Agent has; a file breaks a rule that only the Agent has
\* or has a space in its path; or checksums.txt does not list the manifest, of
\* which the Builder only warns (verify.py:1208, :1290, verifier.py:583, :701).
\* The signature is right then though the Builder does not look at it, unless
\* someone put files back or sealed them anew while the build was at it.
AcceptedIsInstallable ==
    \A j \in stable, k \in Keys \union {NoKey} :
        /\ stage[j] \in Packed
        /\ BuilderAccepts(archive[j])
        /\ archive[j].sig.by # NoKey /\ k \in {NoKey, archive[j].sig.by}
        /\ Sound(archive[j]) /\ NothingForbidden(archive[j])
        /\ archive[j].sums.files["spaced"] = Absent
        /\ archive[j].sums.files["manifest"] # Absent
        => AgentAccepts(archive[j], k)

\* Not so: between checksums and archive an image is replaced and checksums.txt
\* made anew, by hand or by another build of the directory; or an image is put
\* aside while the checksums are written, put back for validation and replaced.
AlwaysDeclared ==
    \A j \in Jobs, i \in Images :
        stage[j] \in Packed /\ AgentAccepts(archive[j], NoKey) => EntryHolds(archive[j], i)

\* Not so: the build that is reported ok may carry another build's checksums
\* under its signature, for the Builder does not verify the signature even when
\* it is given the public key (main.py:583-608, verify.py:1290-1303).
OkIsSigned ==
    \A j \in Jobs : stage[j] = "ok" /\ archive[j].sig.by # NoKey
                        => SignatureIsGood(archive[j], archive[j].sig.by)

\* Not so: image archives that checksums.txt does not list are accepted.
AcceptedImagesAreListed ==
    \A j \in Jobs : stage[j] \in Packed /\ AgentAccepts(archive[j], NoKey)
                        => ImagesListed(archive[j])
=============================================================================
