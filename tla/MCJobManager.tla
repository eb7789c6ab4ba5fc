---------------------------- MODULE MCJobManager ----------------------------
(* Instances of JobManager for TLC: two interchangeable jobs.              *)
EXTENDS JobManager, TLC

CONSTANTS j1, j2

JobSymmetry == Permutations(Jobs)
=============================================================================
