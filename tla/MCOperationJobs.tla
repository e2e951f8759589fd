-------------------------- MODULE MCOperationJobs --------------------------
(* Instances of OperationJobs for TLC, and mutants of its definitions.     *)
EXTENDS OperationJobs

=============================================================================
