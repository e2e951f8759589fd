---------------------------- MODULE CapsuleProofs ----------------------------
(***************************************************************************)
(* Proofs about a capsule file on its way to the Agent: how it is packed   *)
(* (Packaging), for any number of builds, keys and edits, and how it is    *)
(* copied (CapsuleTransfer), for any number of uploads, rebuilds and       *)
(* kills, and files of any length.  The two modules share no state.        *)
(***************************************************************************)
EXTENDS Packaging, CapsuleTransfer, TLAPS

(***************************************************************************)
(* Packaging: its types, and the two invariants.  Both rest on what the    *)
(* directory of a stable build keeps from the moment its checksums are     *)
(* written: a plain edit never brings back what a digest was taken of, so  *)
(* a file is as it was listed, gone, or newer than anything that was       *)
(* there.  Before that moment anything may be done to the directory.       *)
(***************************************************************************)

\* Nothing is newer than the edits made.
Upto(t, n) ==
    /\ \A f \in Files : t.files[f].edit <= n /\ t.sums.files[f].edit <= n
    /\ \A i \in Images : t.meta[i].edit <= n /\ t.sums.meta[i].edit <= n
Stamped(t) == Upto(t, edits + 1)

\* Every image is as listed, gone, or newer than what images.yaml said then.
Newer(t) ==
    \A i \in Images : \/ t.files[i] = t.sums.files[i]
                      \/ t.files[i] = Absent
                      \/ t.files[i].edit > t.sums.meta[i].edit

\* If images.yaml still says of an image what it did, the listed one is that image.
Confirmed(t) ==
    \A i \in Images : t.sums.meta[i] # Absent /\ t.meta[i] = t.sums.meta[i]
                         => t.sums.files[i] = t.sums.meta[i]

\* The signature is over the checksums, and over the manifest they list unless
\* that manifest is not there any more.
Signed(t) ==
    /\ t.sig.sums = t.sums
    /\ \/ t.sig.manifest = t.sums.files["manifest"]
       \/ t.sums.files["manifest"] = Absent
       \/ t.files["manifest"] # t.sums.files["manifest"]

\* What holds of build j by the step it has come to
Progress(j) ==
    /\ stage[j] \in Sealing => Newer(Tree(j))
    /\ stage[j] \in {"validate", "read", "pack"} => Signed(Tree(j))
    /\ stage[j] \in {"read", "pack"} => Confirmed(Tree(j))
    /\ stage[j] = "pack" => archive[j].sums = Tree(j).sums
    /\ stage[j] \in Packed => Newer(archive[j]) /\ Signed(archive[j]) /\ Confirmed(archive[j])

AllStamped ==
    /\ \A d \in Jobs \union {Prepared} : Stamped(dir[d])
    /\ \A j \in Jobs : Stamped(archive[j])
AllProgress == \A j \in stable : Progress(j)

\* The inductive invariant
PInv == PTypeOK /\ AllStamped /\ AllProgress

-----------------------------------------------------------------------------
\* What the operations write is well typed.
LEMMA Consts ==
    /\ Required \subseteq Files /\ Images \subseteq Files
    /\ Absent \in Contents
    /\ "manifest" \in Files /\ "compose" \in Files
BY BoundsAssumption DEF Files, Required, Images, Absent, Written, Contents

LEMMA StagedTyped ==
    /\ StagedFiles \in [Files -> Contents]
    /\ ImagesMetadata(StagedFiles) \in [Images -> Contents]
<1>1. Written(1, TRUE) \in Contents /\ Absent \in Contents
  BY BoundsAssumption DEF Written, Contents, Absent
<1>2. StagedFiles \in [Files -> Contents]
  BY <1>1 DEF StagedFiles
<1> QED
  BY <1>2, Consts DEF ImagesMetadata

LEMMA MetadataTyped ==
    ASSUME NEW files \in [Files -> Contents]
    PROVE  ImagesMetadata(files) \in [Images -> Contents]
BY Consts DEF ImagesMetadata

LEMMA SealedTyped ==
    ASSUME NEW k \in Keys
    PROVE  Sealed(k) \in Trees
<1>1. StagedFiles["manifest"] \in Contents
  BY StagedTyped, Consts
<1> QED
  BY <1>1, StagedTyped DEF Sealed, Checksums, Signature, Trees, Snapshots, Signatures

LEMMA EditedTyped ==
    ASSUME NEW t \in Trees, edits \in 0 .. MaxEdits, edits < MaxEdits, NEW u \in Edited(t)
    PROVE  u \in Trees
<1> USE HandledAssumption
<1>1. Written(edits + 2, TRUE) \in Contents /\ Written(edits + 2, FALSE) \in Contents
  BY BoundsAssumption DEF Written, Contents
<1>2. t.files \in [Files -> Contents] /\ t.meta \in [Images -> Contents]
  BY DEF Trees
<1>3. ImagesMetadata(t.files) \in [Images -> Contents]
  BY <1>2, MetadataTyped
<1>4. CASE \E f \in Files : u = [t EXCEPT !.files[f] = Written(edits + 2, TRUE)]
  <2>1. PICK f \in Files : u = [t EXCEPT !.files[f] = Written(edits + 2, TRUE)]
    BY <1>4
  <2>2. [t.files EXCEPT ![f] = Written(edits + 2, TRUE)] \in [Files -> Contents]
    BY <1>1, <1>2
  <2> QED
    BY <2>1, <2>2 DEF Trees
<1>5. CASE u = [t EXCEPT !.files["compose"] = Written(edits + 2, FALSE)]
  BY <1>1, <1>5 DEF Trees
<1>6. CASE \E f \in Files : u = [t EXCEPT !.files[f] = Absent]
  BY <1>6, Consts DEF Trees
<1>7. CASE u = [t EXCEPT !.meta = ImagesMetadata(t.files)]
  BY <1>3, <1>7 DEF Trees
<1> QED
  BY <1>4, <1>5, <1>6, <1>7 DEF Edited

LEMMA ResealedCases ==
    ASSUME NEW t, NEW u \in Resealed(t)
    PROVE  \/ \E f \in Files, c \in Earlier : u = [t EXCEPT !.files[f] = c]
           \/ \E i \in Images, c \in Earlier : u = [t EXCEPT !.meta[i] = c]
           \/ u = [t EXCEPT !.sums = Checksums(t)]
           \/ \E k \in Keys \union {NoKey} : u = [t EXCEPT !.sig = Signature(t, k)]
<1>1. Handled \intersect (Required \union Images) \subseteq Files /\ Images \intersect Handled \subseteq Images
  BY HandledAssumption
<1>2. CASE u \in PutBack(t)
  <2>1. PICK f \in Handled \intersect (Required \union Images) :
            u \in {[t EXCEPT !.files[f] = c] : c \in Earlier}
    BY <1>2 DEF PutBack
  <2> QED
    BY <1>1, <2>1
<1>3. CASE u \in Redeclared(t)
  <2>1. PICK i \in Images \intersect Handled : u \in {[t EXCEPT !.meta[i] = c] : c \in Earlier}
    BY <1>3 DEF Redeclared
  <2> QED
    BY <1>1, <2>1
<1>4. CASE u \in {[t EXCEPT !.sums = Checksums(t)]}
  BY <1>4
<1>5. CASE u \in {[t EXCEPT !.sig = Signature(t, k)] : k \in Keys \union {NoKey}}
  BY <1>5
<1> QED
  BY <1>2, <1>3, <1>4, <1>5 DEF Resealed

LEMMA ResealedTyped ==
    ASSUME NEW t \in Trees, edits \in 0 .. MaxEdits, edits < MaxEdits, NEW u \in Resealed(t)
    PROVE  u \in Trees
<1>1. /\ t.files \in [Files -> Contents] /\ t.meta \in [Images -> Contents]
      /\ t.sums \in Snapshots /\ t.sig \in Signatures
  BY DEF Trees
<1>2. ASSUME NEW c \in Earlier PROVE c \in Contents
  <2>1. PICK n \in 1 .. edits + 1 : c = Written(n, TRUE)
    BY <1>2 DEF Earlier
  <2>2. n \in 0 .. MaxEdits + 1
    BY <2>1, BoundsAssumption
  <2> QED
    BY <2>1, <2>2 DEF Written, Contents
<1>3. CASE \E f \in Files, c \in Earlier : u = [t EXCEPT !.files[f] = c]
  <2>1. PICK f \in Files, c \in Earlier : u = [t EXCEPT !.files[f] = c]
    BY <1>3
  <2>2. [t.files EXCEPT ![f] = c] \in [Files -> Contents]
    BY <1>1, <1>2
  <2> QED
    BY <2>1, <2>2 DEF Trees
<1>4. CASE \E i \in Images, c \in Earlier : u = [t EXCEPT !.meta[i] = c]
  <2>1. PICK i \in Images, c \in Earlier : u = [t EXCEPT !.meta[i] = c]
    BY <1>4
  <2>2. [t.meta EXCEPT ![i] = c] \in [Images -> Contents]
    BY <1>1, <1>2
  <2> QED
    BY <2>1, <2>2 DEF Trees
<1>5. CASE u = [t EXCEPT !.sums = Checksums(t)]
  BY <1>1, <1>5 DEF Trees, Checksums, Snapshots
<1>6. CASE \E k \in Keys \union {NoKey} : u = [t EXCEPT !.sig = Signature(t, k)]
  <2>1. PICK k \in Keys \union {NoKey} : u = [t EXCEPT !.sig = Signature(t, k)]
    BY <1>6
  <2>2. Signature(t, k) \in Signatures
    BY <1>1, Consts DEF Signature, Signatures
  <2> QED
    BY <2>1, <2>2 DEF Trees
<1> QED
  BY <1>3, <1>4, <1>5, <1>6, ResealedCases

LEMMA DirTyped ==
    ASSUME PTypeOK, NEW j \in Jobs
    PROVE  Dir(j) \in Jobs \union {Prepared} /\ Tree(j) \in Trees
BY DEF PTypeOK, Dir, Tree

LEMMA FollowingTyped ==
    ASSUME NEW s \in {"stage", "check", "checksums", "sign", "validate", "read"}
    PROVE  Following[s] \in Live
BY DEF Following, Live

LEMMA InitTyped == PInit => PTypeOK
<1> SUFFICES ASSUME PInit PROVE PTypeOK
  OBVIOUS
<1>1. PICK k \in Keys : dir = [d \in Jobs \union {Prepared} |-> Sealed(k)]
  BY DEF PInit
<1>2. dir \in [Jobs \union {Prepared} -> Trees]
  BY <1>1, SealedTyped
<1>3. archive \in [Jobs -> Trees]
  BY <1>2 DEF PInit
<1>4. edits \in 0 .. MaxEdits
  BY BoundsAssumption DEF PInit
<1> QED
  BY <1>2, <1>3, <1>4 DEF PInit, PTypeOK

LEMMA NextTyped == PTypeOK /\ [PNext]_pvars => PTypeOK'
<1> SUFFICES ASSUME PTypeOK, [PNext]_pvars PROVE PTypeOK'
  OBVIOUS
<1> USE DEF PTypeOK
<1>1. ASSUME NEW j \in Jobs, Start(j) PROVE PTypeOK'
  BY <1>1, RequestsAssumption DEF Start, Live
<1>2. ASSUME NEW j \in Jobs, NEW s \in {"stage", "check", "checksums", "sign", "validate", "read"}, Step(j, s)
      PROVE  stage' \in [Jobs -> Live \union Packed \union {"idle", "failed"}]
  BY <1>2, FollowingTyped DEF Step
<1>3. ASSUME NEW j \in Jobs, NEW t \in Trees, Update(j, t)
      PROVE  dir' \in [Jobs \union {Prepared} -> Trees] /\ archive' \in [Jobs -> Trees]
  BY <1>3, DirTyped DEF Update
<1>4. ASSUME NEW j \in Jobs, StageFromSource(j) PROVE PTypeOK'
  <2>1. [Tree(j) EXCEPT !.files = StagedFiles, !.meta = ImagesMetadata(StagedFiles)] \in Trees
    BY DirTyped, StagedTyped DEF Trees
  <2> QED
    BY <1>4, <1>2, <1>3, <2>1 DEF StageFromSource, Step
<1>5. ASSUME NEW j \in Jobs, CheckImages(j) PROVE PTypeOK'
  BY <1>5, <1>2 DEF CheckImages, Step
<1>6. ASSUME NEW j \in Jobs, WriteChecksums(j) PROVE PTypeOK'
  <2>1. [Tree(j) EXCEPT !.sums = Checksums(Tree(j))] \in Trees
    BY DirTyped DEF Trees, Checksums, Snapshots
  <2> QED
    BY <1>6, <1>2, <1>3, <2>1 DEF WriteChecksums, Step
<1>7. ASSUME NEW j \in Jobs, WriteSignature(j) PROVE PTypeOK'
  <2>1. job[j].key \in Keys \union {NoKey}
    BY DEF BuildRequests, NoJob
  <2>2. Signature(Tree(j), job[j].key) \in Signatures
    BY <2>1, DirTyped, Consts DEF Signature, Signatures, Trees
  <2>3. [Tree(j) EXCEPT !.sig = Signature(Tree(j), job[j].key)] \in Trees
    BY <2>2, DirTyped DEF Trees
  <2> QED
    BY <1>7, <1>2, <1>3, <2>3 DEF WriteSignature, Step
<1>8. ASSUME NEW j \in Jobs, ValidateStaging(j) PROVE PTypeOK'
  BY <1>8, <1>2 DEF ValidateStaging, Step
<1>9. ASSUME NEW j \in Jobs, ReadChecksums(j) PROVE PTypeOK'
  BY <1>9, <1>2, DirTyped DEF ReadChecksums, Step
<1>10. ASSUME NEW j \in Jobs, Pack(j) PROVE PTypeOK'
  <2>1. [Tree(j) EXCEPT !.sums = archive[j].sums] \in Trees
    BY DirTyped DEF Trees
  <2> QED
    BY <1>10, <2>1 DEF Pack, Packed, Finished
<1>11. ASSUME NEW j \in Jobs, Verify(j) PROVE PTypeOK'
  BY <1>11 DEF Verify, Packed, Finished
<1>12. ASSUME NEW j \in Jobs, Fails(j) PROVE PTypeOK'
  BY <1>12 DEF Fails
<1>13. ASSUME Edit PROVE PTypeOK'
  <2>1. PICK t \in Edited(dir[Prepared]) \union Resealed(dir[Prepared]) :
            dir' = [dir EXCEPT ![Prepared] = t]
    BY <1>13 DEF Edit
  <2>2. t \in Trees
    BY <1>13, <2>1, EditedTyped, ResealedTyped DEF Edit
  <2> QED
    BY <1>13, <2>1, <2>2, BoundsAssumption DEF Edit
<1>15. CASE UNCHANGED pvars
  BY <1>15 DEF pvars
<1> QED
  BY <1>1, <1>4, <1>5, <1>6, <1>7, <1>8, <1>9, <1>10, <1>11, <1>12, <1>13, <1>15
  DEF PNext, Build

\* The state keeps its type.
THEOREM PackagingTyped == PSpec => []PTypeOK
BY InitTyped, NextTyped, PTL DEF PSpec

-----------------------------------------------------------------------------
\* What an edit leaves of the four facts about a tree
LEMMA StampIsNat ==
    ASSUME NEW t \in Trees
    PROVE  /\ \A f \in Files : t.files[f].edit \in Nat /\ t.sums.files[f].edit \in Nat
           /\ \A i \in Images : t.meta[i].edit \in Nat /\ t.sums.meta[i].edit \in Nat
BY BoundsAssumption DEF Trees, Snapshots, Contents

\* The files of u are those of t but for one, which is gone or newer than all.
Touched(t, u, n) ==
    /\ u.sums = t.sums /\ u.sig = t.sig
    /\ \/ u.meta = t.meta /\ \A f \in Files :
              u.files[f] = t.files[f] \/ u.files[f] = Absent \/ u.files[f].edit = n
       \/ u.files = t.files /\ \A i \in Images : u.meta[i] = t.files[i]

LEMMA EditTouches ==
    ASSUME NEW t \in Trees, NEW u \in Edited(t)
    PROVE  Touched(t, u, edits + 2)
<1> USE HandledAssumption
<1>1. DOMAIN t.files = Files /\ Images \subseteq Files /\ "compose" \in Files
  BY Consts DEF Trees
<1>2. ASSUME NEW f \in Files, NEW c, u = [t EXCEPT !.files[f] = c], c = Absent \/ c.edit = edits + 2
      PROVE  Touched(t, u, edits + 2)
  <2>1. u.sums = t.sums /\ u.sig = t.sig /\ u.meta = t.meta /\ u.files = [t.files EXCEPT ![f] = c]
    BY <1>2 DEF Trees
  <2> QED
    BY <1>1, <1>2, <2>1 DEF Touched
<1>3. \A b \in BOOLEAN : Written(edits + 2, b).edit = edits + 2
  BY DEF Written
<1>4. CASE \E f \in Files : u = [t EXCEPT !.files[f] = Written(edits + 2, TRUE)]
  BY <1>2, <1>3, <1>4
<1>5. CASE u = [t EXCEPT !.files["compose"] = Written(edits + 2, FALSE)]
  BY <1>1, <1>2, <1>3, <1>5
<1>6. CASE \E f \in Files : u = [t EXCEPT !.files[f] = Absent]
  BY <1>2, <1>6
<1>7. CASE u = [t EXCEPT !.meta = ImagesMetadata(t.files)]
  BY <1>7 DEF Touched, ImagesMetadata, Trees
<1> QED
  BY <1>4, <1>5, <1>6, <1>7 DEF Edited

LEMMA AbsentIsOld == Absent.edit = 0
BY DEF Absent, Written

LEMMA ResealUpto ==
    ASSUME NEW t \in Trees, NEW u \in Resealed(t), edits \in Nat, Stamped(t)
    PROVE  Stamped(u)
<1>1. /\ \A f \in Files : t.files[f].edit <= edits + 1 /\ t.sums.files[f].edit <= edits + 1
      /\ \A i \in Images : t.meta[i].edit <= edits + 1 /\ t.sums.meta[i].edit <= edits + 1
  BY DEF Stamped, Upto
<1>2. \A c \in Earlier : c.edit <= edits + 1
  BY DEF Earlier, Written
<1>3. CASE \E f \in Files, c \in Earlier : u = [t EXCEPT !.files[f] = c]
  BY <1>1, <1>2, <1>3 DEF Stamped, Upto, Trees
<1>4. CASE \E i \in Images, c \in Earlier : u = [t EXCEPT !.meta[i] = c]
  BY <1>1, <1>2, <1>4 DEF Stamped, Upto, Trees
<1>5. CASE u = [t EXCEPT !.sums = Checksums(t)]
  BY <1>1, <1>5 DEF Stamped, Upto, Trees, Checksums
<1>6. CASE \E k \in Keys \union {NoKey} : u = [t EXCEPT !.sig = Signature(t, k)]
  BY <1>1, <1>6 DEF Stamped, Upto, Trees
<1> QED
  BY <1>3, <1>4, <1>5, <1>6, ResealedCases

LEMMA EditKeeps ==
    ASSUME NEW t \in Trees, NEW u \in Trees, edits \in Nat, Touched(t, u, edits + 2), Stamped(t)
    PROVE  /\ Upto(u, edits + 2)
           /\ Newer(t) => Newer(u)
           /\ Newer(t) /\ Confirmed(t) => Confirmed(u)
           /\ Signed(t) => Signed(u)
<1>1. /\ \A f \in Files : t.files[f].edit \in Nat /\ t.sums.files[f].edit \in Nat
      /\ \A i \in Images : t.meta[i].edit \in Nat /\ t.sums.meta[i].edit \in Nat
  BY StampIsNat
<1>2. Images \subseteq Files /\ "manifest" \in Files
  BY Consts
<1>3. /\ \A f \in Files : t.files[f].edit <= edits + 1 /\ t.sums.files[f].edit <= edits + 1
      /\ \A i \in Images : t.meta[i].edit <= edits + 1 /\ t.sums.meta[i].edit <= edits + 1
  BY DEF Stamped, Upto
<1>4. u.sums = t.sums /\ u.sig = t.sig
  BY DEF Touched
<1>5. CASE u.meta = t.meta /\ \A f \in Files :
              u.files[f] = t.files[f] \/ u.files[f] = Absent \/ u.files[f].edit = edits + 2
  <2>1. \A f \in Files : u.files[f].edit <= edits + 2 /\ u.sums.files[f].edit <= edits + 2
    BY <1>1, <1>3, <1>4, <1>5, AbsentIsOld
  <2>2. \A i \in Images : u.meta[i].edit <= edits + 2 /\ u.sums.meta[i].edit <= edits + 2
    BY <1>1, <1>3, <1>4, <1>5
  <2>3. Newer(t) => Newer(u)
    BY <1>1, <1>2, <1>3, <1>4, <1>5 DEF Newer
  <2>4. Confirmed(t) => Confirmed(u)
    BY <1>4, <1>5 DEF Confirmed
  <2>5. u.files["manifest"] = t.files["manifest"] \/ u.files["manifest"] = Absent
        \/ u.files["manifest"] # t.sums.files["manifest"]
    BY <1>1, <1>2, <1>3, <1>5
  <2>6. Signed(t) => Signed(u)
    BY <1>4, <2>5 DEF Signed
  <2> QED
    BY <2>1, <2>2, <2>3, <2>4, <2>6 DEF Upto
<1>6. CASE u.files = t.files /\ \A i \in Images : u.meta[i] = t.files[i]
  <2>1. \A f \in Files : u.files[f].edit <= edits + 2 /\ u.sums.files[f].edit <= edits + 2
    BY <1>1, <1>3, <1>4, <1>6
  <2>2. \A i \in Images : u.meta[i].edit <= edits + 2 /\ u.sums.meta[i].edit <= edits + 2
    BY <1>1, <1>2, <1>3, <1>4, <1>6
  <2>3. (Newer(t) => Newer(u)) /\ (Signed(t) => Signed(u))
    BY <1>4, <1>6 DEF Newer, Signed
  <2>4. Newer(t) => Confirmed(u)
    <3> SUFFICES ASSUME Newer(t), NEW i \in Images, u.sums.meta[i] # Absent, u.meta[i] = u.sums.meta[i]
                 PROVE  u.sums.files[i] = u.sums.meta[i]
      BY DEF Confirmed
    <3>1. t.files[i] = t.sums.meta[i] /\ t.files[i] # Absent
      BY <1>4, <1>6
    <3>2. ~(t.files[i].edit > t.sums.meta[i].edit)
      BY <1>1, <3>1
    <3> QED
      BY <1>4, <3>1, <3>2 DEF Newer
  <2> QED
    BY <2>1, <2>2, <2>3, <2>4 DEF Upto
<1> QED
  BY <1>5, <1>6 DEF Touched

-----------------------------------------------------------------------------
\* Which builds another build's step may disturb
LEMMA LiveStages ==
    /\ Live \intersect Finished = {} /\ {"idle", "failed"} \intersect (Live \union Packed) = {}
    /\ {"sign", "validate", "read", "pack", "verify"} \subseteq Live
    /\ Sealing \intersect Packed = {} /\ Sealing \subseteq Live
    /\ Sealing = {"sign", "validate", "read", "pack"}
BY DEF Live, Packed, Finished, Sealing

LEMMA ProgressStays ==
    ASSUME NEW o \in Jobs, Progress(o),
           job'[o] = job[o], stage'[o] = stage[o], archive'[o] = archive[o],
           stage[o] \in Sealing => dir'[Dir(o)] = dir[Dir(o)]
    PROVE  Progress(o)'
<1>1. CASE stage[o] \in Sealing
  <2>1. Tree(o)' = Tree(o)
    BY <1>1 DEF Tree, Dir
  <2> QED
    BY <2>1 DEF Progress, Newer, Confirmed, Signed
<1>2. CASE stage[o] \notin Sealing
  BY <1>2, LiveStages DEF Progress, Newer, Confirmed, Signed
<1> QED
  BY <1>1, <1>2

\* A step of j that writes in its directory takes those it disturbs off stable,
\* and keeps what there is to say of the other builds.
LEMMA OthersStay ==
    ASSUME PInv, NEW j \in Jobs, NEW o \in stable, o # j,
           job'[o] = job[o], stage'[o] = stage[o], archive'[o] = archive[o],
           \/ dir' = dir
           \/ /\ o \notin Disturbed(j)
              /\ \A d \in (Jobs \union {Prepared}) \ {Dir(j)} : dir'[d] = dir[d]
    PROVE  Progress(o)'
<1>1. o \in Jobs /\ Progress(o) /\ Dir(o) \in Jobs \union {Prepared}
  BY DirTyped DEF PInv, PTypeOK, AllProgress
<1>2. stage[o] \in Sealing => dir'[Dir(o)] = dir[Dir(o)]
  BY <1>1 DEF Disturbed, SealingIn
<1> QED
  BY <1>1, <1>2, ProgressStays

-----------------------------------------------------------------------------
\* Nothing is newer than the edits made.
LEMMA StampedInit == PInit => AllStamped
<1> SUFFICES ASSUME PInit PROVE AllStamped
  OBVIOUS
<1>1. \A f \in Files : StagedFiles[f].edit <= 1
  BY DEF StagedFiles, Written, Absent
<1>2. \A i \in Images : ImagesMetadata(StagedFiles)[i].edit <= 1
  BY <1>1, Consts DEF ImagesMetadata
<1>3. edits = 0
  BY DEF PInit
<1>4. ASSUME NEW k \in Keys PROVE Stamped(Sealed(k))
  BY <1>1, <1>2, <1>3 DEF Stamped, Upto, Sealed, Checksums
<1>5. PICK k \in Keys : dir = [d \in Jobs \union {Prepared} |-> Sealed(k)]
  BY DEF PInit
<1>6. \A d \in Jobs \union {Prepared} : dir[d] = Sealed(k)
  BY <1>5
<1>7. \A j \in Jobs : archive[j] = Sealed(k)
  BY <1>6 DEF PInit
<1> QED
  BY <1>4, <1>6, <1>7 DEF AllStamped

LEMMA StampedUpdate ==
    ASSUME PTypeOK, AllStamped, NEW j \in Jobs, NEW t, Stamped(t), Update(j, t), edits' = edits
    PROVE  AllStamped'
BY DirTyped DEF AllStamped, Stamped, Upto, Update, PTypeOK

LEMMA StampedKept ==
    ASSUME PTypeOK, AllStamped, [PNext]_pvars
    PROVE  AllStamped'
<1> USE DEF PTypeOK
<1>0. edits \in Nat /\ edits' \in Nat
  BY NextTyped, BoundsAssumption
<1>1. ASSUME dir' = dir, archive' = archive, edits' = edits PROVE AllStamped'
  BY <1>1 DEF AllStamped, Stamped, Upto
<1>2. ASSUME NEW j \in Jobs PROVE Stamped(Tree(j)) /\ Tree(j) \in Trees
  BY DirTyped DEF Tree, AllStamped
<1>3. ASSUME NEW j \in Jobs, StageFromSource(j) PROVE AllStamped'
  <2>1. \A f \in Files : StagedFiles[f].edit <= 1
    BY DEF StagedFiles, Written, Absent
  <2>2. \A i \in Images : ImagesMetadata(StagedFiles)[i].edit <= 1
    BY <2>1, Consts DEF ImagesMetadata
  <2>3. ASSUME NEW x, x <= 1, x \in Nat PROVE x <= edits + 1
    BY <1>0, <2>3
  <2>4. \A f \in Files : StagedFiles[f].edit \in Nat
    BY DEF StagedFiles, Written, Absent
  <2>5. \A i \in Images : ImagesMetadata(StagedFiles)[i].edit \in Nat
    BY <2>4, Consts DEF ImagesMetadata
  <2>6. Stamped([Tree(j) EXCEPT !.files = StagedFiles, !.meta = ImagesMetadata(StagedFiles)])
    BY <1>2, <2>1, <2>2, <2>3, <2>4, <2>5 DEF Stamped, Upto, Trees
  <2> QED
    BY <1>3, <2>6, StampedUpdate DEF StageFromSource, Step
<1>4. ASSUME NEW j \in Jobs, WriteChecksums(j) PROVE AllStamped'
  <2>1. Stamped([Tree(j) EXCEPT !.sums = Checksums(Tree(j))])
    BY <1>2 DEF Stamped, Upto, Trees, Checksums
  <2> QED
    BY <1>4, <2>1, StampedUpdate DEF WriteChecksums, Step
<1>5. ASSUME NEW j \in Jobs, WriteSignature(j) PROVE AllStamped'
  <2>1. Stamped([Tree(j) EXCEPT !.sig = Signature(Tree(j), job[j].key)])
    BY <1>2 DEF Stamped, Upto, Trees
  <2> QED
    BY <1>5, <2>1, StampedUpdate DEF WriteSignature, Step
<1>6. ASSUME NEW j \in Jobs, ReadChecksums(j) PROVE AllStamped'
  BY <1>6, <1>2 DEF ReadChecksums, Step, AllStamped, Stamped, Upto
<1>7. ASSUME NEW j \in Jobs, Pack(j) PROVE AllStamped'
  <2>1. Stamped([Tree(j) EXCEPT !.sums = archive[j].sums])
    BY <1>2 DEF Stamped, Upto, Trees, AllStamped
  <2> QED
    BY <1>7, <2>1 DEF Pack, AllStamped, Stamped, Upto
<1>8. ASSUME NEW j \in Jobs, Start(j) \/ CheckImages(j) \/ ValidateStaging(j) \/ Verify(j) \/ Fails(j)
      PROVE  AllStamped'
  BY <1>8, <1>1 DEF Start, CheckImages, ValidateStaging, Verify, Fails, Step
<1>9. ASSUME NEW t \in Trees, Upto(t, edits + 1) PROVE Upto(t, edits + 2)
  <2>1. ASSUME NEW x \in Nat, x <= edits + 1 PROVE x <= edits + 2
    BY <1>0, <2>1
  <2> QED
    BY <1>9, <2>1, StampIsNat DEF Upto
<1>10. ASSUME NEW t \in Trees, Upto(t, edits + 1), NEW u \in Edited(t), edits < MaxEdits
       PROVE  Upto(u, edits + 2)
  <2>1. u \in Trees
    BY <1>10, EditedTyped
  <2> QED
    BY <1>0, <1>10, <2>1, EditTouches, EditKeeps DEF Stamped
<1>11. /\ \A d \in Jobs \union {Prepared} : Upto(dir[d], edits + 1) /\ Upto(dir[d], edits + 2)
       /\ \A j \in Jobs : Upto(archive[j], edits + 1) /\ Upto(archive[j], edits + 2)
  BY <1>9 DEF AllStamped, Stamped
<1>12. ASSUME edits' = edits + 1, \A d \in Jobs \union {Prepared} : Upto(dir'[d], edits + 2),
              \A j \in Jobs : Upto(archive'[j], edits + 2)
       PROVE  AllStamped'
  <2>1. edits' + 1 = edits + 2
    BY <1>0, <1>12
  <2> QED
    BY <1>12, <2>1 DEF AllStamped, Stamped
<1>14. ASSUME Edit PROVE AllStamped'
  <2>1. PICK t \in Edited(dir[Prepared]) \union Resealed(dir[Prepared]) :
            dir' = [dir EXCEPT ![Prepared] = t]
    BY <1>14 DEF Edit
  <2>0. edits < MaxEdits /\ dir[Prepared] \in Trees /\ Upto(dir[Prepared], edits + 1)
    BY <1>11, <1>14 DEF Edit
  <2>4. Upto(t, edits + 2)
    <3>1. CASE t \in Edited(dir[Prepared])
      BY <1>10, <2>0, <3>1
    <3>2. CASE t \in Resealed(dir[Prepared])
      <4>1. Stamped(t) /\ t \in Trees
        BY <1>0, <2>0, <3>2, ResealUpto, ResealedTyped DEF Stamped
      <4> QED
        BY <1>9, <4>1 DEF Stamped
    <3> QED
      BY <2>1, <3>1, <3>2
  <2> QED
    BY <1>11, <1>12, <1>14, <2>1, <2>4 DEF Edit
<1>13. CASE UNCHANGED pvars
  BY <1>1, <1>13 DEF pvars
<1> QED
  BY <1>3, <1>4, <1>5, <1>6, <1>7, <1>8, <1>13, <1>14 DEF PNext, Build

-----------------------------------------------------------------------------
\* Every build keeps what it has come to, whoever takes the next step.
LEMMA ProgressInit == PInit => AllProgress
BY LiveStages DEF PInit, AllProgress, Progress

\* A build's own step only has to give what its new stage asks for.
LEMMA OwnStep ==
    ASSUME PInv, [PNext]_pvars, NEW j \in Jobs,
           \A o \in Jobs \ {j} : job'[o] = job[o] /\ stage'[o] = stage[o] /\ archive'[o] = archive[o],
           \/ dir' = dir /\ stable' = stable
           \/ /\ \A d \in (Jobs \union {Prepared}) \ {Dir(j)} : dir'[d] = dir[d]
              /\ stable' \subseteq (stable \ Disturbed(j)) \union {j},
           j \in stable' => Progress(j)'
    PROVE  AllProgress'
<1>1. stable \subseteq Jobs /\ stable' \subseteq Jobs
  BY NextTyped DEF PInv, PTypeOK
<1>2. ASSUME NEW o \in stable', o # j PROVE Progress(o)'
  <2>1. /\ o \in stable /\ o \in Jobs \ {j}
        /\ \/ dir' = dir
           \/ /\ o \notin Disturbed(j)
              /\ \A d \in (Jobs \union {Prepared}) \ {Dir(j)} : dir'[d] = dir[d]
    BY <1>1, <1>2
  <2> QED
    BY <1>2, <2>1, OthersStay
<1> QED
  BY <1>2 DEF AllProgress

LEMMA ProgressKept ==
    ASSUME PInv, [PNext]_pvars
    PROVE  AllProgress'
<1> USE DEF PInv, PTypeOK
<1>0. edits \in Nat /\ PTypeOK'
  BY NextTyped, BoundsAssumption
<1>1. ASSUME NEW j \in Jobs PROVE Tree(j) \in Trees /\ Dir(j) \in Jobs \union {Prepared} /\ Tree(j) = dir[Dir(j)]
  BY DirTyped DEF Tree
<1>2. ASSUME NEW j \in stable PROVE Progress(j)
  BY DEF AllProgress
<1>3. ASSUME NEW j \in Jobs, Start(j) PROVE AllProgress'
  <2>1. stage'[j] \in {"stage", "check"} /\ stage[j] = "idle"
    BY <1>3 DEF Start
  <2>2. Progress(j)'
    BY <2>1, LiveStages DEF Progress, Packed, Finished
  <2> QED
    BY <1>3, <2>1, <2>2, OwnStep DEF Start
<1>4. ASSUME NEW j \in Jobs, NEW t \in Trees, NEW s \in Live, Step(j, s), Update(j, t)
      PROVE  /\ Tree(j)' = t /\ stage'[j] = Following[s] /\ stage[j] = s
             /\ \A o \in Jobs \ {j} : job'[o] = job[o] /\ stage'[o] = stage[o] /\ archive'[o] = archive[o]
             /\ \A d \in (Jobs \union {Prepared}) \ {Dir(j)} : dir'[d] = dir[d]
  BY <1>1, <1>4 DEF Step, Update, Tree, Dir
<1>5. ASSUME NEW j \in Jobs, NEW s \in Live, Step(j, s), UNCHANGED <<dir, stable>>,
             \A o \in Jobs \ {j} : archive'[o] = archive[o]
      PROVE  /\ Tree(j)' = Tree(j) /\ stage'[j] = Following[s] /\ stage[j] = s /\ stable' = stable
             /\ \A o \in Jobs \ {j} : job'[o] = job[o] /\ stage'[o] = stage[o] /\ archive'[o] = archive[o]
  BY <1>5 DEF Step, Tree, Dir
<1>6. "stage" \in Live /\ "check" \in Live /\ "checksums" \in Live
  BY DEF Live
<1>7. ASSUME NEW j \in Jobs, StageFromSource(j) PROVE AllProgress'
  <2> DEFINE t == [Tree(j) EXCEPT !.files = StagedFiles, !.meta = ImagesMetadata(StagedFiles)]
  <2>1. t \in Trees
    BY <1>1, StagedTyped DEF Trees
  <2>2. Step(j, "stage") /\ Update(j, t) /\ stable' = stable \ Disturbed(j)
    BY <1>7 DEF StageFromSource
  <2> HIDE DEF t
  <2>3. stage'[j] = "checksums"
    BY <1>4, <1>6, <2>1, <2>2 DEF Following
  <2>4. Progress(j)'
    BY <2>3, LiveStages DEF Progress, Packed, Finished
  <2> QED
    BY <1>4, <1>6, <2>1, <2>2, <2>4, OwnStep, LiveStages
<1>8. ASSUME NEW j \in Jobs, CheckImages(j) PROVE AllProgress'
  <2>1. Step(j, "check") /\ UNCHANGED <<dir, archive, stable>>
    BY <1>8 DEF CheckImages
  <2>2. stage'[j] = "checksums"
    BY <1>5, <1>6, <2>1 DEF Following
  <2>3. Progress(j)'
    BY <2>2, LiveStages DEF Progress, Packed, Finished
  <2> QED
    BY <1>5, <1>6, <2>1, <2>3, OwnStep
<1>9. ASSUME NEW j \in Jobs, WriteChecksums(j) PROVE AllProgress'
  <2> DEFINE t == [Tree(j) EXCEPT !.sums = Checksums(Tree(j))]
  <2>1. t \in Trees
    BY <1>1 DEF Trees, Checksums, Snapshots
  <2>2. Step(j, "checksums") /\ Update(j, t) /\ stable' = (stable \ Disturbed(j)) \union {j}
    BY <1>9 DEF WriteChecksums
  <2>3. Newer(t)
    BY <1>1, Consts DEF Newer, Checksums, Trees
  <2> HIDE DEF t
  <2>4. stage'[j] = "sign" /\ Tree(j)' = t
    BY <1>4, <1>6, <2>1, <2>2 DEF Following
  <2>5. Newer(Tree(j))'
    BY <2>3, <2>4 DEF Newer
  <2>6. Progress(j)'
    BY <2>4, <2>5 DEF Progress, Packed, Finished
  <2> QED
    BY <1>4, <1>6, <2>1, <2>2, <2>6, OwnStep
<1>10. ASSUME NEW j \in Jobs, WriteSignature(j) PROVE AllProgress'
  <2> DEFINE t == [Tree(j) EXCEPT !.sig = Signature(Tree(j), job[j].key)]
  <2>1. Signature(Tree(j), job[j].key) \in Signatures
    BY <1>1, Consts DEF Signature, Signatures, Trees, BuildRequests, NoJob
  <2>2. t \in Trees
    BY <1>1, <2>1 DEF Trees
  <2>3. Step(j, "sign") /\ Update(j, t) /\ stable' = stable \ Disturbed(j)
    BY <1>10 DEF WriteSignature
  <2>4. stage[j] = "sign" /\ (j \in stable => Newer(Tree(j)))
    BY <1>2, <2>3, LiveStages DEF Progress, Step
  <2>5. j \in stable => Newer(t)
    BY <1>1, <2>4 DEF Newer, Trees
  <2>6. Signed(t)
    BY <1>1 DEF Signed, Signature, Trees
  <2> HIDE DEF t
  <2>7. stage'[j] = "validate" /\ Tree(j)' = t
    BY <1>4, <2>2, <2>3, LiveStages DEF Following
  <2>8. (j \in stable => Newer(Tree(j))') /\ Signed(Tree(j))'
    BY <2>5, <2>6, <2>7 DEF Newer, Signed
  <2>9. j \in stable' => Progress(j)'
    BY <2>3, <2>7, <2>8 DEF Progress, Packed, Finished
  <2> QED
    BY <1>4, <2>2, <2>3, <2>9, OwnStep, LiveStages
<1>11. ASSUME NEW j \in Jobs, ValidateStaging(j) PROVE AllProgress'
  <2>1. Step(j, "validate") /\ UNCHANGED <<dir, archive, stable>> /\ ImagesDeclared(Tree(j))
    BY <1>11 DEF ValidateStaging
  <2>2. stage'[j] = "read" /\ Tree(j)' = Tree(j) /\ stage[j] = "validate" /\ stable' = stable
    BY <1>5, <2>1, LiveStages DEF Following
  <2>3. j \in stable => Newer(Tree(j)) /\ Signed(Tree(j))
    BY <1>2, <2>2, LiveStages DEF Progress
  <2>4. Newer(Tree(j)) => Confirmed(Tree(j))
    <3> SUFFICES ASSUME Newer(Tree(j)), NEW i \in Images, Tree(j).sums.meta[i] # Absent,
                        Tree(j).meta[i] = Tree(j).sums.meta[i]
                 PROVE  Tree(j).sums.files[i] = Tree(j).sums.meta[i]
      BY DEF Confirmed
    <3>1. Tree(j).files[i] = Tree(j).sums.meta[i]
      BY <2>1 DEF ImagesDeclared
    <3>2. Tree(j).sums.meta[i].edit \in Nat
      BY <1>1, StampIsNat
    <3> QED
      BY <3>1, <3>2 DEF Newer
  <2>5. j \in stable' => (Newer(Tree(j)) /\ Signed(Tree(j)) /\ Confirmed(Tree(j)))'
    BY <2>2, <2>3, <2>4 DEF Newer, Signed, Confirmed
  <2>6. j \in stable' => Progress(j)'
    BY <2>2, <2>5 DEF Progress, Packed, Finished
  <2> QED
    BY <1>5, <2>1, <2>6, OwnStep, LiveStages
<1>12. ASSUME NEW j \in Jobs, ReadChecksums(j) PROVE AllProgress'
  <2>1. Step(j, "read") /\ UNCHANGED <<dir, stable>> /\ archive' = [archive EXCEPT ![j] = Tree(j)]
    BY <1>12 DEF ReadChecksums
  <2>2. stage'[j] = "pack" /\ Tree(j)' = Tree(j) /\ stage[j] = "read" /\ stable' = stable
    BY <1>5, <2>1, LiveStages DEF Following
  <2>3. j \in stable' => (Newer(Tree(j)) /\ Signed(Tree(j)) /\ Confirmed(Tree(j)))'
    BY <1>2, <2>2, LiveStages DEF Progress, Newer, Signed, Confirmed
  <2>4. archive'[j].sums = Tree(j)'.sums
    BY <2>1, <2>2
  <2>5. j \in stable' => Progress(j)'
    BY <2>2, <2>3, <2>4 DEF Progress, Packed, Finished
  <2> QED
    BY <1>5, <2>1, <2>5, OwnStep, LiveStages
<1>13. ASSUME NEW j \in Jobs, Pack(j) PROVE AllProgress'
  <2>1. stage[j] = "pack" /\ stage'[j] \in {"verify", "unverified"} /\ stable' = stable
    BY <1>13 DEF Pack
  <2>2. archive'[j] = [Tree(j) EXCEPT !.sums = archive[j].sums]
    BY <1>13 DEF Pack
  <2>3. j \in stable => archive'[j] = Tree(j)
    BY <1>1, <1>2, <2>1, <2>2 DEF Progress, Trees
  <2>4. j \in stable' => (Newer(archive[j]) /\ Signed(archive[j]) /\ Confirmed(archive[j]))'
    BY <1>2, <2>1, <2>3, LiveStages DEF Progress, Newer, Signed, Confirmed
  <2>5. j \in stable' => Progress(j)'
    BY <2>1, <2>4, LiveStages DEF Progress
  <2> QED
    BY <1>13, <2>1, <2>5, OwnStep, LiveStages DEF Pack
<1>14. ASSUME NEW j \in Jobs, Verify(j) \/ Fails(j) PROVE AllProgress'
  <2>1. stage[j] \in Live /\ stable' = stable /\ archive' = archive /\ dir' = dir
    BY <1>14, LiveStages DEF Verify, Fails
  <2>2. stage'[j] = "failed" \/ (stage[j] \in Packed /\ stage'[j] \in Finished)
    BY <1>14 DEF Verify, Fails, Packed, Finished
  <2>3. j \in stable' => Progress(j)'
    BY <1>2, <2>1, <2>2, LiveStages DEF Progress, Newer, Signed, Confirmed
  <2> QED
    BY <1>14, <2>1, <2>3, OwnStep DEF Verify, Fails
<1>15. ASSUME Edit PROVE AllProgress'
  <2>1. UNCHANGED <<job, stage, archive>>
    BY <1>15 DEF Edit
  <2>2. CASE \E t \in Resealed(dir[Prepared]) :
                dir' = [dir EXCEPT ![Prepared] = t] /\ stable' = stable \ SealingIn(Prepared)
    <3> SUFFICES ASSUME NEW o \in stable' PROVE Progress(o)'
      BY DEF AllProgress
    <3>1. o \in stable /\ o \in Jobs /\ o \notin SealingIn(Prepared)
      BY <2>2
    <3>2. stage[o] \in Sealing => dir'[Dir(o)] = dir[Dir(o)]
      BY <1>1, <2>2, <3>1 DEF SealingIn
    <3> QED
      BY <1>2, <2>1, <3>1, <3>2, ProgressStays
  <2>3. CASE (\E t \in Edited(dir[Prepared]) : dir' = [dir EXCEPT ![Prepared] = t]) /\ stable' = stable
    <3>1. PICK t \in Edited(dir[Prepared]) : dir' = [dir EXCEPT ![Prepared] = t]
      BY <2>3
    <3>2. t \in Trees /\ Touched(dir[Prepared], t, edits + 2) /\ Stamped(dir[Prepared])
      BY <1>0, <1>15, <3>1, EditedTyped, EditTouches DEF Edit, AllStamped
    <3>3. t.sums = dir[Prepared].sums
      BY <3>2 DEF Touched
    <3>4. ASSUME NEW o \in stable PROVE Progress(o)'
      <4>1. UNCHANGED <<job, stage, archive, stable>>
        BY <2>1, <2>3
      <4>2. CASE Dir(o) # Prepared
        BY <1>1, <1>2, <3>1, <4>1, <4>2, ProgressStays
      <4>3. CASE Dir(o) = Prepared
        <5>1. Tree(o) = dir[Prepared] /\ Tree(o)' = t
          BY <3>1, <4>1, <4>3 DEF Tree, Dir
        <5>2. /\ Newer(dir[Prepared]) => Newer(t)
              /\ Newer(dir[Prepared]) /\ Confirmed(dir[Prepared]) => Confirmed(t)
              /\ Signed(dir[Prepared]) => Signed(t)
          BY <1>0, <3>2, EditKeeps
        <5>3. /\ Newer(Tree(o)) => Newer(Tree(o))'
              /\ Newer(Tree(o)) /\ Confirmed(Tree(o)) => Confirmed(Tree(o))'
              /\ Signed(Tree(o)) => Signed(Tree(o))'
              /\ (Tree(o).sums)' = Tree(o).sums
          BY <3>3, <5>1, <5>2 DEF Newer, Confirmed, Signed
        <5>4. Progress(o)
          BY <1>2
        <5>5. /\ stage'[o] \in Sealing => Newer(Tree(o))'
              /\ stage'[o] \in {"validate", "read", "pack"} => Signed(Tree(o))'
              /\ stage'[o] \in {"read", "pack"} => Confirmed(Tree(o))'
              /\ stage'[o] = "pack" => archive'[o].sums = (Tree(o).sums)'
          BY <4>1, <5>3, <5>4, LiveStages DEF Progress
        <5>6. stage'[o] \in Packed => (Newer(archive[o]) /\ Signed(archive[o]) /\ Confirmed(archive[o]))'
          BY <4>1, <5>4 DEF Progress, Newer, Signed, Confirmed
        <5> QED
          BY <5>5, <5>6 DEF Progress
      <4> QED
        BY <4>2, <4>3
    <3> QED
      BY <2>3, <3>4 DEF AllProgress
  <2> QED
    BY <1>15, <2>2, <2>3 DEF Edit
<1>17. CASE UNCHANGED pvars
  BY <1>2, <1>17, ProgressStays DEF pvars, AllProgress
<1> QED
  BY <1>3, <1>7, <1>8, <1>9, <1>10, <1>11, <1>12, <1>13, <1>14, <1>15, <1>17 DEF PNext, Build

-----------------------------------------------------------------------------
LEMMA PInvHolds == PSpec => []PInv
<1>1. PInit => PInv
  BY InitTyped, StampedInit, ProgressInit DEF PInv
<1>2. PInv /\ [PNext]_pvars => PInv'
  BY NextTyped, StampedKept, ProgressKept DEF PInv
<1> QED
  BY <1>1, <1>2, PTL DEF PSpec

\* In what the Agent accepts, images.yaml says of every image what it is.
THEOREM AcceptedDeclared == PSpec => []AcceptedIsDeclared
<1>1. ASSUME PInv, NEW j \in stable, NEW i \in Images,
             stage[j] \in Packed, AgentAccepts(archive[j], NoKey)
      PROVE  EntryHolds(archive[j], i)
  <2>1. Confirmed(archive[j])
    BY <1>1 DEF PInv, AllProgress, Progress
  <2>2. DigestsMatch(archive[j]) /\ i \in Files
    BY <1>1, Consts DEF AgentAccepts, PathsMatch
  <2> QED
    BY <2>1, <2>2 DEF Confirmed, DigestsMatch, EntryHolds
<1>2. PInv => AcceptedIsDeclared
  BY <1>1 DEF AcceptedIsDeclared
<1> QED
  BY <1>2, PInvHolds, PTL

\* What the Builder accepts the Agent installs, up to the named reasons.
THEOREM AcceptedInstallable == PSpec => []AcceptedIsInstallable
<1>1. ASSUME PInv, NEW j \in stable, NEW k \in Keys \union {NoKey},
             stage[j] \in Packed, BuilderAccepts(archive[j]),
             archive[j].sig.by # NoKey, k \in {NoKey, archive[j].sig.by},
             archive[j].sums.files["manifest"] # Absent
      PROVE  SignatureIsGood(archive[j], k)
  <2>1. Signed(archive[j]) /\ archive[j] \in Trees
    BY <1>1 DEF PInv, AllProgress, Progress, PTypeOK
  <2>2. archive[j].files["manifest"] = archive[j].sums.files["manifest"]
    BY <1>1, Consts DEF BuilderAccepts, DigestsMatch
  <2>3. archive[j].sig.manifest = archive[j].files["manifest"] /\ archive[j].sig.sums = archive[j].sums
    BY <1>1, <2>1, <2>2 DEF Signed
  <2>4. archive[j].sig \in Signatures
    BY <2>1 DEF Trees
  <2>5. k # NoKey => archive[j].sig = Signature(archive[j], k)
    BY <1>1, <2>3, <2>4 DEF Signature, Signatures
  <2> QED
    BY <1>1, <2>5 DEF SignatureIsGood
<1>2. PInv => AcceptedIsInstallable
  BY <1>1 DEF AcceptedIsInstallable, AgentAccepts, BuilderAccepts, PathsMatch
<1> QED
  BY <1>2, PInvHolds, PTL

-----------------------------------------------------------------------------
(***************************************************************************)
(* CapsuleTransfer.  Why a copy that was reported done stays: only the     *)
(* upload started last can still create P, so from the time it has, P is   *)
(* its file or nothing.  An abandoned shell may steal that file from it,   *)
(* but then its own mv fails and the copy is not reported done; and after  *)
(* its own mv there is no P left for anyone to move.                       *)
(***************************************************************************)
USE TransferAssumption


\* The Manager's place in an upload, and the state of its ssh client.
ManagerInv ==
    /\ mgr.at # "idle" /\ mgr.at # "import" => mgr.upload \in Uploads
    /\ mgr.at = "open" =>
          link[mgr.upload] = "none" /\ result[mgr.upload] = "none"
    /\ mgr.at \in {"stream", "wait", "access"} => mgr.upload = last
    /\ mgr.at = "stream" => link[last] = "up"
    /\ mgr.at = "wait" => link[last] = "closed"
    /\ mgr.at = "access" =>
          shell[last] = "ok" /\ size[last] = Chunks
    /\ mgr.at = "import" /\ mgr.upload # None =>
          mgr.upload = last /\ result[last] = "ok"

\* What the shells can do, by the state of their clients.
ShellInv ==
    \A u \in Uploads :
        /\ link[u] = "none" => shell[u] = "none"
        /\ link[u] = "up" => shell[u] \in {"start", "cat", "failed"}
        /\ link[u] = "closed" => sent[u] = Chunks
        /\ link[u] = "closed" /\ shell[u] \in {"mv", "ok"} => size[u] = Chunks
        /\ shell[u] = "start" /\ link[u] \in {"up", "closed"} =>
              mgr.at \in {"stream", "wait"} /\ mgr.upload = u

\* Whose file P and F are.
FileInv ==
    \A u \in Uploads :
        u = last =>
            /\ shell[u] \in {"cat", "mv", "ok", "failed"} => partial \in {u, None}
            /\ shell[u] = "ok" => final = u /\ partial = None
            /\ result[u] = "ok" => shell[u] = "ok" /\ size[u] = Chunks /\ u \in readable

\* What is read, verified and imported is a build.
DataInv ==
    /\ mgr.deploy => mgr.verified \in Builds
    /\ mgr.at = "import" => mgr.deploy
    /\ \A u \in Uploads : shell[u] # "none" => content[u] \in Builds
    /\ partial # None => shell[partial] # "none"
    /\ final # None => shell[final] # "none"

CoreInv == TypeOK /\ ManagerInv /\ ShellInv /\ FileInv
Inv == CoreInv /\ DataInv

-----------------------------------------------------------------------------
\* The invariant holds before the first upload.
LEMMA InitInv == Init => Inv
BY DEF Init, Inv, CoreInv, DataInv, TypeOK, ManagerInv, ShellInv, FileInv, IdleManager, Places, Links, Shells

\* The Manager moves on within its operation.
LEMMA GoTyped ==
    ASSUME TypeOK, NEW place \in Places, Go(place)
    PROVE  /\ mgr' \in [at : Places, upload : Uploads \cup {None}, deploy : BOOLEAN,
                        verified : Builds \cup {None}]
           /\ mgr'.at = place /\ mgr'.upload = mgr.upload
BY DEF TypeOK, Go

\* An upload that fails keeps the types.
LEMMA FailTyped ==
    ASSUME TypeOK, Fail
    PROVE  /\ mgr' = IdleManager
           /\ mgr' \in [at : Places, upload : Uploads \cup {None}, deploy : BOOLEAN,
                        verified : Builds \cup {None}]
           /\ result' \in [Uploads -> {"none", "ok", "failed"}]
           /\ \A u \in Uploads : result'[u] = result[u] \/ result'[u] = "failed"
BY DEF TypeOK, Fail, IdleManager, Places

\* Every step keeps the parts of the invariant about the upload itself.
LEMMA NextCore == Inv /\ [Next]_vars => CoreInv'
<1> SUFFICES ASSUME Inv, [Next]_vars PROVE CoreInv'
    OBVIOUS
<1> USE DEF Inv, CoreInv
<1>p. {"open", "stream", "wait", "access", "import", "idle"} = Places
    BY DEF Places
<1>1. ASSUME NEW b \in Builds, RebuildLocal(b) PROVE CoreInv'
    BY <1>1 DEF RebuildLocal, TypeOK, ManagerInv, ShellInv, FileInv, remote
<1>2. ASSUME NEW u \in Uploads, BeginCopy(u) PROVE CoreInv'
  <2>1. mgr' = [at |-> "open", upload |-> u, deploy |-> FALSE, verified |-> None]
    BY <1>2 DEF BeginCopy, IdleManager
  <2>2. TypeOK'
    <3>1. mgr' \in [at : Places, upload : Uploads \cup {None}, deploy : BOOLEAN,
                     verified : Builds \cup {None}]
      BY <2>1, <1>p
    <3> QED
      BY <1>2, <3>1 DEF BeginCopy, TypeOK, remote
  <2> QED
    BY <1>2, <2>1, <2>2 DEF BeginCopy, ManagerInv, ShellInv, FileInv, remote
<1>3. ASSUME NEW u \in Uploads, NEW copy \in BOOLEAN, BeginDeploy(u, copy) PROVE CoreInv'
  <2>1. TypeOK'
    BY <1>3, <1>p DEF BeginDeploy, TypeOK, remote
  <2> QED
    BY <1>3, <2>1 DEF BeginDeploy, ManagerInv, ShellInv, FileInv, remote
<1>4. CASE OpenStream
  <2> DEFINE m == mgr.upload
  <2>1. m \in Uploads /\ link[m] = "none" /\ result[m] = "none"
    BY <1>4 DEF OpenStream, ManagerInv
  <2>2. mgr'.at = "stream" /\ mgr'.upload = m
    BY <1>4, <1>p, GoTyped DEF OpenStream
  <2>3. TypeOK'
    BY <1>4, <2>1, <1>p, GoTyped DEF OpenStream, TypeOK, Links, Shells
  <2>4. /\ link'[m] = "up" /\ shell'[m] = "start" /\ last' = m
        /\ \A u \in Uploads : u # m => link'[u] = link[u] /\ shell'[u] = shell[u]
    BY <1>4, <2>1 DEF OpenStream, TypeOK
  <2>5. UNCHANGED <<sent, size, partial, final, readable, result>> /\ mgr.at = "open"
    BY <1>4 DEF OpenStream
  <2>6. ManagerInv'
    BY <2>1, <2>2, <2>4 DEF ManagerInv
  <2>7. ShellInv'
    BY <2>1, <2>2, <2>4, <2>5 DEF ShellInv
  <2>8. FileInv'
    BY <2>1, <2>4, <2>5 DEF FileInv
  <2> QED
    BY <2>3, <2>6, <2>7, <2>8
<1>5. CASE SendChunk
  <2>1. mgr.upload \in Uploads /\ link[mgr.upload] = "up"
    BY <1>5 DEF SendChunk, ManagerInv
  <2>2. TypeOK'
    BY <1>5, <2>1 DEF SendChunk, TypeOK, remote
  <2>3. \A u \in Uploads : u # mgr.upload => sent'[u] = sent[u]
    BY <1>5, <2>1 DEF SendChunk, TypeOK
  <2> QED
    BY <1>5, <2>1, <2>2, <2>3 DEF SendChunk, ManagerInv, ShellInv, FileInv, remote
<1>6. CASE CloseStream
  <2>1. /\ mgr.upload \in Uploads /\ mgr.upload = last /\ link[last] = "up"
        /\ sent[last] = Chunks
    BY <1>6 DEF CloseStream, ManagerInv
  <2>2. mgr'.at = "wait" /\ mgr'.upload = last
    BY <1>6, <2>1, <1>p, GoTyped DEF CloseStream
  <2>3. TypeOK'
    BY <1>6, <1>p, GoTyped DEF CloseStream, TypeOK, Links, remote
  <2>4. /\ link'[last] = "closed"
        /\ \A u \in Uploads : u # last => link'[u] = link[u]
    BY <1>6, <2>1 DEF CloseStream, TypeOK
  <2>5. UNCHANGED <<sent, shell, size, partial, final, readable, result, last>>
    BY <1>6 DEF CloseStream, remote
  <2>6. ManagerInv'
    BY <2>1, <2>2, <2>4, <2>5 DEF ManagerInv
  <2>7. ShellInv'
    BY <1>6, <2>1, <2>2, <2>4, <2>5 DEF CloseStream, ShellInv
  <2>8. FileInv'
    BY <2>4, <2>5 DEF FileInv
  <2> QED
    BY <2>3, <2>6, <2>7, <2>8
<1>7. CASE AbandonStream
  <2>1. mgr.upload \in Uploads /\ mgr.upload = last
    BY <1>7 DEF AbandonStream, ManagerInv
  <2>2. TypeOK'
    BY <1>7, FailTyped DEF AbandonStream, TypeOK, Links, remote
  <2>3. /\ link'[last] = "cut"
        /\ \A u \in Uploads : u # last => link'[u] = link[u]
    BY <1>7, <2>1 DEF AbandonStream, TypeOK
  <2>4. mgr'.at = "idle" /\ mgr'.upload = None /\ \A u \in Uploads : result'[u] = "ok" => result[u] = "ok"
    BY <1>7, FailTyped DEF AbandonStream, IdleManager
  <2> QED
    BY <1>7, <2>1, <2>2, <2>3, <2>4 DEF AbandonStream, ManagerInv, ShellInv, FileInv, remote
<1>8. CASE StreamAnswer
  <2>1. mgr.upload \in Uploads /\ mgr.upload = last /\ link[last] = "closed" /\ mgr.at = "wait"
    BY <1>8 DEF StreamAnswer, ManagerInv
  <2>2. CASE shell[last] = "ok" /\ Go("access") /\ UNCHANGED result
    <3>1. mgr'.at = "access" /\ mgr'.upload = last
      BY <2>1, <2>2, <1>p, GoTyped
    <3>2. TypeOK'
      BY <1>8, <2>2, <1>p, GoTyped DEF StreamAnswer, TypeOK, remote
    <3> QED
      BY <1>8, <2>1, <2>2, <3>1, <3>2 DEF StreamAnswer, ManagerInv, ShellInv, FileInv, remote
  <2>3. CASE shell[last] = "failed" /\ Fail
    <3>1. TypeOK'
      BY <1>8, <2>3, FailTyped DEF StreamAnswer, TypeOK, remote
    <3>2. mgr'.at = "idle" /\ mgr'.upload = None /\ \A u \in Uploads : result'[u] = "ok" => result[u] = "ok"
      BY <2>3, FailTyped DEF IdleManager
    <3> QED
      BY <1>8, <2>1, <2>3, <3>1, <3>2 DEF StreamAnswer, ManagerInv, ShellInv, FileInv, remote
  <2> QED
    BY <1>8, <2>1, <2>2, <2>3 DEF StreamAnswer
<1>9. CASE PrepareAccess
  <2>1. /\ mgr.upload \in Uploads /\ mgr.upload = last /\ mgr.at = "access"
        /\ shell[last] = "ok" /\ size[last] = Chunks /\ final = last
    BY <1>9 DEF PrepareAccess, ManagerInv, FileInv
  <2>2. CASE /\ readable' = readable \cup {final}
             /\ result' = [result EXCEPT ![mgr.upload] = "ok"]
             /\ mgr' = IF mgr.deploy THEN [mgr EXCEPT !.at = "import"] ELSE IdleManager
    <3>1. /\ mgr'.at \in {"import", "idle"}
          /\ mgr'.at = "import" => mgr'.upload = last
          /\ mgr' \in [at : Places, upload : Uploads \cup {None}, deploy : BOOLEAN,
                       verified : Builds \cup {None}]
      BY <2>1, <2>2, <1>p DEF TypeOK, IdleManager
    <3>2. TypeOK'
      BY <1>9, <2>1, <2>2, <3>1 DEF PrepareAccess, TypeOK, remote
    <3>3. result'[last] = "ok" /\ last \in readable'
      BY <2>1, <2>2 DEF TypeOK
    <3>4. UNCHANGED <<link, sent, size, shell, partial, final, last>>
      BY <1>9 DEF PrepareAccess, remote
    <3>5. ManagerInv'
      BY <2>1, <3>1, <3>3, <3>4 DEF ManagerInv
    <3>6. ShellInv'
      BY <2>1, <3>1, <3>4 DEF ShellInv
    <3>7. FileInv'
      BY <2>1, <3>3, <3>4 DEF FileInv
    <3> QED
      BY <3>2, <3>5, <3>6, <3>7
  <2>3. CASE Fail /\ UNCHANGED readable
    <3>1. TypeOK'
      BY <1>9, <2>3, FailTyped DEF PrepareAccess, TypeOK, remote
    <3>2. mgr'.at = "idle" /\ mgr'.upload = None /\ \A u \in Uploads : result'[u] = "ok" => result[u] = "ok"
      BY <2>3, FailTyped DEF IdleManager
    <3> QED
      BY <1>9, <2>1, <2>3, <3>1, <3>2 DEF PrepareAccess, ManagerInv, ShellInv, FileInv, remote
  <2> QED
    BY <1>9, <2>2, <2>3 DEF PrepareAccess
<1>10. CASE KillManager
  <2>1. /\ mgr'.at = "idle" /\ mgr'.upload = None
        /\ UNCHANGED <<sent, shell, size, partial, final, readable, result, last>>
    BY <1>10 DEF KillManager, IdleManager, remote
  <2>2. TypeOK'
    BY <1>10, <1>p DEF KillManager, TypeOK, IdleManager, Links, remote
  <2>3. \A u \in Uploads : link'[u] = link[u] \/ link'[u] = "cut"
    BY <1>10 DEF KillManager, TypeOK
  <2>4. \A u \in Uploads : u = mgr.upload => link'[u] \in {"none", "cut"}
    BY <1>10 DEF KillManager, TypeOK
  <2>5. ShellInv'
    BY <2>1, <2>3, <2>4 DEF ShellInv
  <2> QED
    BY <2>1, <2>2, <2>5 DEF ManagerInv, FileInv
<1>11. CASE ImportCapsule
  <2>1. mgr'.at = "idle" /\ mgr'.upload = None /\ mgr.at = "import"
    BY <1>11 DEF ImportCapsule, IdleManager
  <2>2. UNCHANGED <<local, sent, link, shell, size, content, partial, final, readable, result, last, rebuilds, kills>>
    BY <1>11 DEF ImportCapsule, remote
  <2>3. TypeOK'
    <3>1. imported' \in {None} \cup [upload : Uploads, build : Builds, verified : Builds]
      <4>1. /\ mgr.verified \in Builds
            /\ final # None => final \in Uploads /\ content[final] \in Builds
        BY <2>1 DEF TypeOK, DataInv
      <4> QED
        BY <1>11, <4>1 DEF ImportCapsule, TypeOK
    <3> QED
      BY <1>11, <2>2, <3>1, <1>p DEF ImportCapsule, IdleManager, TypeOK
  <2> QED
    BY <2>1, <2>2, <2>3 DEF ManagerInv, ShellInv, FileInv
<1>12. ASSUME NEW u \in Uploads, OpenPartial(u) PROVE CoreInv'
  <2>1. mgr.at \in {"stream", "wait"} /\ u = last
    BY <1>12 DEF OpenPartial, ShellInv, ManagerInv
  <2>2. TypeOK'
    BY <1>12 DEF OpenPartial, TypeOK, Shells
  <2>3. shell'[u] = "cat" /\ \A w \in Uploads : w # u => shell'[w] = shell[w]
    BY <1>12 DEF OpenPartial, TypeOK
  <2> QED
    BY <1>12, <2>1, <2>2, <2>3 DEF OpenPartial, ManagerInv, ShellInv, FileInv
<1>13. ASSUME NEW u \in Uploads, ReceiveChunk(u) PROVE CoreInv'
  <2>1. TypeOK'
    BY <1>13 DEF ReceiveChunk, TypeOK
  <2>2. \A w \in Uploads : w # u => size'[w] = size[w]
    BY <1>13 DEF ReceiveChunk, TypeOK
  <2>3. shell[u] = "cat"
    BY <1>13 DEF ReceiveChunk
  <2> QED
    BY <1>13, <2>1, <2>2, <2>3 DEF ReceiveChunk, ManagerInv, ShellInv, FileInv, TypeOK
<1>14. ASSUME NEW u \in Uploads, EndOfFile(u) \/ DiskFull(u) PROVE CoreInv'
  <2>1. TypeOK'
    BY <1>14 DEF EndOfFile, DiskFull, TypeOK, Shells
  <2>2. /\ shell[u] = "cat" /\ shell'[u] \in {"mv", "failed"}
        /\ shell'[u] = "mv" => link[u] # "up"
        /\ shell'[u] = "mv" /\ link[u] = "closed" => size[u] = sent[u]
        /\ \A w \in Uploads : w # u => shell'[w] = shell[w]
    BY <1>14 DEF EndOfFile, DiskFull, TypeOK
  <2>3. UNCHANGED <<mgr, sent, link, size, partial, final, readable, result, last>>
    BY <1>14 DEF EndOfFile, DiskFull
  <2>4. ManagerInv'
    BY <2>2, <2>3 DEF ManagerInv
  <2>5. ShellInv'
    BY <2>2, <2>3 DEF ShellInv
  <2>6. FileInv'
    BY <2>2, <2>3 DEF FileInv
  <2> QED
    BY <2>1, <2>4, <2>5, <2>6
<1>15. ASSUME NEW u \in Uploads, MoveFinal(u) PROVE CoreInv'
  <2>1. TypeOK'
    BY <1>15 DEF MoveFinal, TypeOK, Shells
  <2>2. /\ shell[u] = "mv"
        /\ \A w \in Uploads : w # u => shell'[w] = shell[w]
        /\ shell'[u] = IF partial = None THEN "failed" ELSE "ok"
    BY <1>15 DEF MoveFinal, TypeOK
  <2>3. /\ partial' = None
        /\ final' = IF partial = None THEN final ELSE partial
    BY <1>15 DEF MoveFinal
  <2>4. UNCHANGED <<mgr, sent, link, size, readable, result, last>>
    BY <1>15 DEF MoveFinal
  <2>5. ManagerInv'
    BY <2>2, <2>4 DEF ManagerInv
  <2>6. ShellInv'
    BY <2>2, <2>4 DEF ShellInv
  <2>7. ASSUME NEW w \in Uploads, w = last, shell'[w] = "ok" PROVE final' = w
    <3>1. CASE w = u
      BY <3>1, <2>2, <2>3, <2>7 DEF FileInv
    <3>2. CASE w # u
      BY <3>2, <2>2, <2>3, <2>7 DEF FileInv
    <3> QED
      BY <3>1, <3>2
  <2>8. FileInv'
    BY <2>2, <2>3, <2>4, <2>7 DEF FileInv
  <2> QED
    BY <2>1, <2>5, <2>6, <2>8
<1>16. CASE UNCHANGED vars
    BY <1>16 DEF vars, remote, TypeOK, ManagerInv, ShellInv, FileInv
<1> QED
    BY <1>1, <1>2, <1>3, <1>4, <1>5, <1>6, <1>7, <1>8, <1>9, <1>10, <1>11, <1>12,
       <1>13, <1>14, <1>15, <1>16 DEF Next

\* Every step keeps the part about the bytes that were written.
LEMMA NextData == Inv /\ [Next]_vars => DataInv'
<1> SUFFICES ASSUME Inv, [Next]_vars PROVE DataInv'
    OBVIOUS
<1> USE DEF Inv, CoreInv
<1>1. /\ mgr'.deploy => mgr'.verified \in Builds
      /\ mgr'.at = "import" => mgr'.deploy
  <2>1. ASSUME NEW u \in Uploads, BeginCopy(u)
        PROVE  mgr'.deploy = FALSE /\ mgr'.at = "open"
    BY <2>1 DEF BeginCopy, IdleManager
  <2>2. ASSUME NEW u \in Uploads, NEW copy \in BOOLEAN, BeginDeploy(u, copy)
        PROVE  mgr'.deploy /\ mgr'.verified \in Builds
    BY <2>2 DEF BeginDeploy, TypeOK
  <2>3. CASE OpenStream \/ CloseStream \/ StreamAnswer \/ PrepareAccess
    BY <2>3 DEF OpenStream, CloseStream, StreamAnswer, PrepareAccess, Go, Fail, IdleManager,
           TypeOK, DataInv
  <2>4. CASE AbandonStream \/ ImportCapsule \/ KillManager
    BY <2>4 DEF AbandonStream, ImportCapsule, KillManager, Fail, IdleManager
  <2>5. CASE UNCHANGED mgr
    BY <2>5 DEF DataInv
  <2> QED
    BY <2>1, <2>2, <2>3, <2>4, <2>5 DEF Next, vars, RebuildLocal, SendChunk, OpenPartial,
       ReceiveChunk, EndOfFile, DiskFull, MoveFinal
<1>2. /\ \A u \in Uploads : shell'[u] # "none" => content'[u] \in Builds
      /\ partial' # None => shell'[partial'] # "none"
      /\ final' # None => shell'[final'] # "none"
  <2>1. CASE OpenStream
    <3>1. mgr.upload \in Uploads
      BY <2>1 DEF OpenStream, ManagerInv
    <3> QED
      BY <2>1, <3>1 DEF OpenStream, TypeOK, DataInv
  <2>2. ASSUME NEW u \in Uploads,
               OpenPartial(u) \/ EndOfFile(u) \/ DiskFull(u) \/ MoveFinal(u)
        PROVE  <1>2!:
    BY <2>2 DEF OpenPartial, EndOfFile, DiskFull, MoveFinal, TypeOK, DataInv
  <2>3. CASE UNCHANGED <<shell, content, partial, final>>
    BY <2>3 DEF DataInv
  <2> QED
    BY <2>1, <2>2, <2>3 DEF Next, vars, remote, RebuildLocal, BeginCopy, BeginDeploy, SendChunk,
       CloseStream, AbandonStream, StreamAnswer, PrepareAccess, KillManager, ImportCapsule,
       ReceiveChunk
<1> QED
    BY <1>1, <1>2 DEF DataInv

\* Every step keeps the invariant.
LEMMA NextInv == Inv /\ [Next]_vars => Inv'
BY NextCore, NextData DEF Inv

\* The inductive invariant of the transfer, for every behaviour.
THEOREM InvCorrect == Spec => []Inv
<1> QED
    BY InitInv, NextInv, PTL DEF Spec

\* Every variable keeps its type.
THEOREM TypeCorrect == Spec => []TypeOK
<1>1. Inv => TypeOK
    BY DEF Inv, CoreInv
<1> QED
    BY <1>1, InvCorrect, PTL

\* A copy reported done is on the Droplet, whole and readable, until the next.
THEOREM CopiesStay == Spec => []CopiedIsThere
<1>1. Inv => CopiedIsThere
    BY DEF Inv, CoreInv, FileInv, CopiedIsThere
<1> QED
    BY <1>1, InvCorrect, PTL

\* A deployment that copies a capsule imports that copy.
THEOREM DeploysImportTheirCopy == Spec => DeployImportsItsCopy
<1>1. ASSUME Inv, [Next]_vars, mgr.at = "import", mgr.upload # None, imported' # imported
      PROVE  imported'.upload = mgr.upload
  <2>1. mgr.upload = last /\ last \in Uploads /\ final = last
    BY <1>1 DEF Inv, CoreInv, ManagerInv, FileInv, TypeOK
  <2>2. ImportCapsule
    BY <1>1 DEF Next, vars, RebuildLocal, BeginCopy, BeginDeploy, OpenStream, SendChunk,
           CloseStream, AbandonStream, StreamAnswer, PrepareAccess, KillManager,
           OpenPartial, ReceiveChunk, EndOfFile, DiskFull, MoveFinal
  <2> QED
    BY <1>1, <2>1, <2>2 DEF ImportCapsule
<1>2. Inv /\ [Next]_vars =>
        [mgr.at = "import" /\ mgr.upload # None /\ imported' # imported
            => imported'.upload = mgr.upload]_vars
    BY <1>1
<1> QED
    BY <1>2, InvCorrect, PTL DEF Spec, DeployImportsItsCopy

=============================================================================
