---------------------------- MODULE MCBuildJobs ----------------------------
\* Instances of BuildJobs for TLC: two jobs, one or two workers.
EXTENDS BuildJobs, TLC

Symmetry == Permutations(Jobs) \cup Permutations(Workers)
=============================================================================
