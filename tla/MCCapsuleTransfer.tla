------------------------- MODULE MCCapsuleTransfer -------------------------
(* Instances of CapsuleTransfer for TLC.                                   *)
EXTENDS CapsuleTransfer, TLC

\* Upload attempts are interchangeable: no property orders them.
UploadSymmetry == Permutations(Uploads)
=============================================================================
