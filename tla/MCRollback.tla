----------------------------- MODULE MCRollback -----------------------------
(* Instances of Rollback for TLC.                                          *)
EXTENDS Rollback, TLC

\* Capsules are interchangeable.
CapsuleSymmetry == Permutations(Capsules)
=============================================================================
