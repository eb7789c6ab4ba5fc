--------------------------- MODULE MCOperationLog ---------------------------
(* Instances of OperationLog for TLC: two interchangeable requests.        *)
EXTENDS OperationLog, TLC

CONSTANTS r1, r2

RequestSymmetry == Permutations(Requests)
=============================================================================
